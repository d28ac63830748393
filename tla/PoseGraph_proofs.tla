-------------------------- MODULE PoseGraph_proofs --------------------------
(***************************************************************************)
(* Proofs about PoseGraph for any number of frames, any modes, intervals,  *)
(* distances and cooling counts.                                           *)
(***************************************************************************)
EXTENDS PoseGraph, SequenceTheorems, FiniteSetTheorems, TLAPS

(* The inductive invariant.                                                *)

\* A submap is under construction, in cur.
Building == ~isNewSubMap \/ pc = "complete"

\* The next frame stored starts where the last submap ends.
End == IF subMaps = <<>> THEN 0 ELSE Last(subMaps).last + 1

PointInv ==
  /\ pc # "frame" => isNewSubMap
  /\ pc \in {"detect", "optimize"} => subMaps # <<>>

\* The submaps and cur follow one another without a gap.
TileInv ==
  /\ \A s \in 1 .. Len(subMaps) :
       /\ subMaps[s].first = IF s = 1 THEN 0 ELSE subMaps[s - 1].last + 1
       /\ subMaps[s].first <= subMaps[s].last
       /\ subMaps[s].last < Len(blocks)
  /\ \A s, t \in 1 .. Len(subMaps) : s < t => subMaps[s].last < subMaps[t].first
  /\ IF Building
     THEN /\ cur.first = End /\ cur.first <= cur.last /\ Len(blocks) = cur.last + 1
          /\ \A s \in 1 .. Len(subMaps) : subMaps[s].last < cur.first
     ELSE Len(blocks) = End

\* Frames are stored in order.
StoreInv ==
  /\ \A i \in 1 .. Len(blocks) : blocks[i].id < frame
  /\ \A i \in 2 .. Len(blocks) : blocks[i - 1].id < blocks[i].id

\* In real time no correction falls into a submap under construction.
FollowInv ==
  /\ Len(relRigid) = IF blocks = <<>> THEN 0 ELSE Len(blocks) - 1
  /\ realTime =>
       /\ \A s \in 1 .. Len(subMaps) :
            /\ \A i \in subMaps[s].first .. subMaps[s].last - 1 : relRigid[i + 1]
            /\ framewise => subMaps[s].lo = blocks[subMaps[s].first + 1].lo
       /\ Building =>
            /\ \A i \in cur.first .. cur.last - 1 : relRigid[i + 1]
            /\ \A i \in cur.first .. cur.last : blocks[i + 1].lo = frontOpt
            /\ cur.lo = frontOpt

\* The chain of adjacent edges.
ChainInv ==
  /\ IsFiniteSet(edges)
  /\ \A e \in edges : e.type = "ADJACENT" =>
       e.b2 \in 1 .. Len(subMaps) - 1 /\ e.b1 = e.b2 - 1
  /\ \A n \in 1 .. Len(subMaps) - 1 : Edge("ADJACENT", n - 1, n, TRUE) \in edges

\* The other edges: each submap has one at most, as many submaps ago as the
\* cooling count has gone down; those found wrong are of earlier submaps.
LoopInv ==
  /\ pc = "detect" => coolingIndex = 0
  /\ \A e \in edges : e.type # "ADJACENT" =>
       /\ e.b1 + MinSubmapIdDiff < e.b2
       /\ e.b2 < IF pc = "detect" THEN Len(subMaps) - 1 ELSE Len(subMaps)
       /\ Len(subMaps) - 1 - e.b2 >= CoolingSubmapNum - coolingIndex
  /\ \A e, f \in edges : e.type # "ADJACENT" /\ f.type # "ADJACENT" /\ e.b2 = f.b2 => e = f
  /\ \A r \in rejected : r[2] < IF pc = "detect" THEN Len(subMaps) - 1 ELSE Len(subMaps)
  /\ LoopsSpaced
  /\ ~framewise => RejectedNotReused

\* Submap-wise the initial guess of a submap follows its pose.
GuessInv == ~framewise => \A s \in 1 .. Len(subMaps) : subMaps[s].lo = subMaps[s].init

IInv ==
  /\ TypeOK /\ PointInv /\ TileInv /\ StoreInv
  /\ FollowInv /\ ChainInv /\ LoopInv /\ GuessInv

-----------------------------------------------------------------------------
(* Sequences, storing and edges.                                           *)

Block == [id : 0 .. MaxFrames - 1, lo : Pose, init : Pose]
SubMap == [first : Nat, last : Nat, lo : Pose, init : Pose]
EdgeSet == [type : EdgeType, b1 : Nat, b2 : Nat, reliable : BOOLEAN]

\* A function on the domain of a sequence is a sequence of its length.
LEMMA Mapped ==
  ASSUME NEW S, NEW s \in Seq(S), NEW T, NEW t,
         DOMAIN t = DOMAIN s, t = [i \in DOMAIN s |-> t[i]],
         \A i \in 1 .. Len(s) : t[i] \in T
  PROVE  t \in Seq(T) /\ Len(t) = Len(s)
<1>1. Len(s) \in Nat /\ DOMAIN s = 1 .. Len(s)
  BY LenProperties
<1>2. t \in [1 .. Len(s) -> T]
  BY <1>1
<1>3. t \in UNION {[1 .. n -> T] : n \in Nat}
  BY <1>1, <1>2
<1>4. t \in Seq(T)
  BY <1>3, SeqDef, Zenon
<1>5. DOMAIN t = 1 .. Len(t) /\ Len(t) \in Nat
  BY <1>4, LenProperties
<1> QED
  BY <1>1, <1>2, <1>4, <1>5

\* What a frame adds to the strip: itself, once, or nothing.
LEMMA StoredOnce ==
  ASSUME TypeOK, PointInv, TileInv, StoreInv, frame < MaxFrames, NEW init \in Pose
  PROVE  /\ StoreFrame(blocks, init) \in Seq(Block)
         /\ Len(StoreFrame(blocks, init)) = Len(blocks) + 1
         /\ StoreFrame(blocks, init) # blocks
         /\ \A i \in 1 .. Len(blocks) : StoreFrame(blocks, init)[i] = blocks[i]
         /\ StoreFrame(blocks, init)[Len(blocks) + 1]
              = [id |-> frame, lo |-> frontOpt, init |-> init]
         /\ Stored(init) = IF isNewSubMap \/ frame % StoreInterval = 0
                           THEN StoreFrame(blocks, init) ELSE blocks
<1> DEFINE b == [id |-> frame, lo |-> frontOpt, init |-> init]
<1>1. b \in Block
  BY ConstantsAssumption DEF TypeOK, Block, Pose
<1>2. blocks \in Seq(Block)
  BY DEF TypeOK, Block
<1>3. /\ Append(blocks, b) \in Seq(Block) /\ Len(Append(blocks, b)) = Len(blocks) + 1
      /\ \A i \in 1 .. Len(blocks) : Append(blocks, b)[i] = blocks[i]
      /\ Append(blocks, b)[Len(blocks) + 1] = b
      /\ Append(blocks, b) # blocks
  BY <1>1, <1>2
<1>4. ASSUME ~isNewSubMap PROVE Last(blocks).id # frame
  <2>1. Len(blocks) \in Nat \ {0}
    BY <1>2, <1>4 DEF TypeOK, TileInv, Building
  <2> QED
    BY <2>1 DEF StoreInv, Last, TypeOK
<1>5. Last(StoreFrame(blocks, init)).id = frame
  BY <1>3 DEF Last, StoreFrame
<1> QED
  BY <1>3, <1>4, <1>5 DEF Stored, StoreFrame

\* Cancelling keeps the chain and what an edge joins.
LEMMA CancelledEdges ==
  ASSUME NEW E \in SUBSET EdgeSet, IsFiniteSet(E)
  PROVE  /\ Cancelled(E) \in SUBSET EdgeSet /\ IsFiniteSet(Cancelled(E))
         /\ \A e \in E : e.type = "ADJACENT" => e \in Cancelled(E)
         /\ \A f \in Cancelled(E) : \E e \in E :
              /\ f.b1 = e.b1 /\ f.b2 = e.b2
              /\ f.type = "ADJACENT" <=> e.type = "ADJACENT"
              /\ f.type = "REGISTRATION" => f = e
         /\ (\A e, f \in E : e.type # "ADJACENT" /\ f.type # "ADJACENT" /\ e.b2 = f.b2 => e = f) =>
            \A e, f \in Cancelled(E) :
              e.type # "ADJACENT" /\ f.type # "ADJACENT" /\ e.b2 = f.b2 => e = f
<1> DEFINE D == {x \in E : x.type # "NONE"}
           t(e) == [e EXCEPT !.type = IF e.type = "REGISTRATION" /\ ~e.reliable THEN "HISTORY" ELSE @]
           g == [e \in D |-> t(e)]
<1>1. Cancelled(E) = {t(e) : e \in D}
  BY DEF Cancelled
<1>2. \A e \in D : /\ t(e) \in EdgeSet /\ t(e).b1 = e.b1 /\ t(e).b2 = e.b2
                   /\ t(e).type = "ADJACENT" <=> e.type = "ADJACENT"
                   /\ t(e).type = "ADJACENT" \/ t(e).type = "REGISTRATION" => t(e) = e
  BY DEF EdgeSet, EdgeType
<1>3. IsFiniteSet(D)
  BY FS_Subset
<1>4. g \in Surjection(D, Cancelled(E))
  BY <1>1 DEF Surjection
<1>5. IsFiniteSet(Cancelled(E))
  BY <1>3, <1>4, FS_Surjection
<1>6. \A e \in E : e.type = "ADJACENT" => e \in D /\ t(e) = e
  BY <1>2
<1> HIDE DEF t
<1> QED
  BY <1>1, <1>2, <1>5, <1>6

\* Rejecting keeps the chain and what an edge joins; no edge found wrong is a
\* registration edge any more.
LEMMA RejectedEdges ==
  ASSUME edges \in SUBSET EdgeSet, IsFiniteSet(edges), NEW W \in SUBSET Registration(edges)
  PROVE  /\ AfterRejection(W) \in SUBSET EdgeSet /\ IsFiniteSet(AfterRejection(W))
         /\ \A e \in edges : e.type = "ADJACENT" => e \in AfterRejection(W)
         /\ \A f \in AfterRejection(W) : \E e \in edges :
              /\ f.b1 = e.b1 /\ f.b2 = e.b2
              /\ f.type = "ADJACENT" <=> e.type = "ADJACENT"
              /\ f.type = "REGISTRATION" => f = e /\ (~framewise => e \notin W)
         /\ (\A e, f \in edges : e.type # "ADJACENT" /\ f.type # "ADJACENT" /\ e.b2 = f.b2 => e = f) =>
            \A e, f \in AfterRejection(W) :
              e.type # "ADJACENT" /\ f.type # "ADJACENT" /\ e.b2 = f.b2 => e = f
<1>1. CASE framewise
  BY <1>1 DEF AfterRejection
<1>2. CASE ~framewise
  <2> DEFINE t(e) == [e EXCEPT !.type = IF e \in W THEN "NONE" ELSE @]
             g == [e \in edges |-> t(e)]
  <2>1. AfterRejection(W) = {t(e) : e \in edges}
    BY <1>2 DEF AfterRejection
  <2>2. \A e \in edges : /\ t(e) \in EdgeSet /\ t(e).b1 = e.b1 /\ t(e).b2 = e.b2
                         /\ t(e).type = "ADJACENT" <=> e.type = "ADJACENT"
                         /\ t(e).type = "ADJACENT" \/ t(e).type = "REGISTRATION" => t(e) = e /\ e \notin W
    BY DEF EdgeSet, EdgeType, Registration
  <2>3. g \in Surjection(edges, AfterRejection(W))
    BY <2>1 DEF Surjection
  <2>4. IsFiniteSet(AfterRejection(W))
    BY <2>3, FS_Surjection
  <2> HIDE DEF t
  <2> QED
    BY <1>2, <2>1, <2>2, <2>4
<1> QED
  BY <1>1, <1>2

\* An optimisation moves poses and nothing else; submap-wise, initial guesses
\* follow the poses; frame-wise, submaps follow their first frames.
LEMMA Moved ==
  ASSUME TypeOK, TileInv, subMaps # <<>>, MoveNodes
  PROVE  /\ blocks' \in Seq(Block) /\ Len(blocks') = Len(blocks)
         /\ \A i \in 1 .. Len(blocks) : blocks'[i].id = blocks[i].id
         /\ subMaps' \in Seq(SubMap) /\ Len(subMaps') = Len(subMaps) /\ subMaps' # <<>>
         /\ \A s \in 1 .. Len(subMaps) :
              /\ subMaps'[s].first = subMaps[s].first /\ subMaps'[s].last = subMaps[s].last
              /\ framewise => subMaps'[s].lo = blocks'[subMaps[s].first + 1].lo
              /\ ~framewise => subMaps'[s].lo = subMaps'[s].init
         /\ cur' \in [first : Nat, last : Nat, lo : Pose]
         /\ cur'.first = cur.first /\ cur'.last = cur.last
<1>1. /\ blocks \in Seq(Block) /\ Len(blocks) \in Nat /\ DOMAIN blocks = 1 .. Len(blocks)
      /\ subMaps \in Seq(SubMap) /\ Len(subMaps) \in Nat \ {0} /\ DOMAIN subMaps = 1 .. Len(subMaps)
      /\ \A i \in 1 .. Len(blocks) : blocks[i] \in Block
      /\ \A s \in 1 .. Len(subMaps) : subMaps[s] \in SubMap
      /\ optCount + 1 \in Pose
  <2>1. blocks \in Seq(Block) /\ subMaps \in Seq(SubMap)
    BY DEF TypeOK, Block, SubMap
  <2>2. optCount + 1 \in Pose
    BY DEF TypeOK, Pose
  <2> QED
    BY <2>1, <2>2, LenProperties, EmptySeq, ElementOfSeq
<1>2. CASE framewise
  <2>1. \A i \in 1 .. Len(blocks) : Optimized(i - 1) \in Pose
    BY <1>1, <1>2 DEF Optimized, Nodes, Block
  <2>2. blocks' = [i \in DOMAIN blocks |-> [blocks[i] EXCEPT !.lo = Optimized(i - 1)]]
    BY <1>2 DEF MoveNodes
  <2>3. /\ DOMAIN blocks' = DOMAIN blocks /\ blocks' = [i \in DOMAIN blocks |-> blocks'[i]]
        /\ \A i \in 1 .. Len(blocks) : blocks'[i] \in Block /\ blocks'[i].id = blocks[i].id
    BY <1>1, <2>1, <2>2 DEF Block
  <2>4. blocks' \in Seq(Block) /\ Len(blocks') = Len(blocks)
    BY <1>1, <2>3, Mapped
  <2>5. \A s \in 1 .. Len(subMaps) : subMaps[s].first + 1 \in 1 .. Len(blocks)
    BY <1>1 DEF TileInv, SubMap
  <2>6. subMaps' = [s \in DOMAIN subMaps |->
                      [subMaps[s] EXCEPT !.lo = blocks'[subMaps[s].first + 1].lo]]
    BY <1>2 DEF MoveNodes, MovedSubMaps
  <2>7. /\ DOMAIN subMaps' = DOMAIN subMaps /\ subMaps' = [s \in DOMAIN subMaps |-> subMaps'[s]]
        /\ \A s \in 1 .. Len(subMaps) :
             /\ subMaps'[s] \in SubMap
             /\ subMaps'[s].first = subMaps[s].first /\ subMaps'[s].last = subMaps[s].last
             /\ subMaps'[s].lo = blocks'[subMaps[s].first + 1].lo
    BY <1>1, <2>3, <2>5, <2>6 DEF SubMap, Block
  <2>8. subMaps' \in Seq(SubMap) /\ Len(subMaps') = Len(subMaps)
    BY <1>1, <2>7, Mapped
  <2>9. cur' = cur /\ subMaps' # <<>>
    BY <1>1, <1>2, <2>8 DEF MoveNodes
  <2> QED
    BY <1>2, <2>3, <2>4, <2>7, <2>8, <2>9 DEF TypeOK
<1>3. CASE ~framewise
  <2>1. \A s \in 1 .. Len(subMaps) : Optimized(s - 1) \in Pose
    BY <1>1, <1>3 DEF Optimized, Nodes, SubMap
  <2>2. /\ blocks' = blocks
        /\ subMaps' = [s \in DOMAIN subMaps |->
                         [subMaps[s] EXCEPT !.lo = Optimized(s - 1), !.init = Optimized(s - 1)]]
        /\ cur' = [cur EXCEPT !.lo = Last(subMaps').lo]
    BY <1>3 DEF MoveNodes
  <2>3. /\ DOMAIN subMaps' = DOMAIN subMaps /\ subMaps' = [s \in DOMAIN subMaps |-> subMaps'[s]]
        /\ \A s \in 1 .. Len(subMaps) :
             /\ subMaps'[s] \in SubMap
             /\ subMaps'[s].first = subMaps[s].first /\ subMaps'[s].last = subMaps[s].last
             /\ subMaps'[s].lo = subMaps'[s].init
    BY <1>1, <2>1, <2>2 DEF SubMap
  <2>4. subMaps' \in Seq(SubMap) /\ Len(subMaps') = Len(subMaps)
    BY <1>1, <2>3, Mapped
  <2>5. Last(subMaps').lo \in Pose /\ subMaps' # <<>>
    <3>1. subMaps'[Len(subMaps')] \in SubMap
      BY <1>1, <2>3, <2>4
    <3>2. subMaps' # <<>>
      BY <1>1, <2>4
    <3> QED
      BY <3>1, <3>2 DEF Last, SubMap
  <2>6. /\ cur' \in [first : Nat, last : Nat, lo : Pose]
        /\ cur'.first = cur.first /\ cur'.last = cur.last
    BY <2>2, <2>5 DEF TypeOK
  <2> QED
    BY <1>1, <1>3, <2>2, <2>3, <2>4, <2>5, <2>6
<1> QED
  BY <1>2, <1>3

-----------------------------------------------------------------------------
(* The invariant is inductive.                                             *)

LEMMA Initially == Init => IInv
<1> SUFFICES ASSUME Init PROVE IInv
  OBVIOUS
<1> USE ConstantsAssumption
<1>1. {framewise, realTime, isNewSubMap, corrected} \subseteq BOOLEAN
  BY Zenon DEF Init
<1>2. /\ blocks = <<>> /\ subMaps = <<>> /\ relRigid = <<>> /\ edges = {} /\ rejected = {}
      /\ Len(blocks) = 0 /\ Len(subMaps) = 0 /\ Len(relRigid) = 0
      /\ isNewSubMap /\ pc = "frame"
  BY DEF Init
<1>3. TypeOK
  <2>1. /\ blocks \in Seq([id : 0 .. MaxFrames - 1, lo : Pose, init : Pose])
        /\ relRigid \in Seq(BOOLEAN)
        /\ subMaps \in Seq([first : Nat, last : Nat, lo : Pose, init : Pose])
    BY <1>2, EmptySeq
  <2>2. cur \in [first : Nat, last : Nat, lo : Pose]
    BY DEF Init, Pose
  <2> QED
    BY <1>1, <2>1, <2>2 DEF Init, TypeOK
<1>4. IsFiniteSet(edges)
  BY <1>2, FS_EmptySet
<1>5. PointInv /\ TileInv /\ StoreInv
  BY <1>2 DEF PointInv, TileInv, StoreInv, Building, End
<1>6. FollowInv /\ ChainInv /\ GuessInv
  BY <1>2, <1>4 DEF FollowInv, ChainInv, GuessInv, Building
<1>7. LoopInv
  BY <1>2 DEF LoopInv, LoopsSpaced, RejectedNotReused, Registration
<1> QED
  BY <1>3, <1>5, <1>6, <1>7 DEF IInv

LEMMA AddFrameInv == IInv /\ AddFrame => IInv'
<1> SUFFICES ASSUME IInv, AddFrame PROVE IInv'
  OBVIOUS
<1> USE ConstantsAssumption DEF IInv
<1>1. PICK init \in Pose :
        /\ blocks' = Stored(init)
        /\ cur' = CurWithFrame(Stored(init))
        /\ relRigid' = IF Stored(init) = blocks THEN relRigid ELSE StoreRel
  BY DEF AddFrame, TypeOK, Pose, Mixed
<1>2. /\ pc = "frame" /\ frame < MaxFrames /\ frame' = frame + 1
      /\ UNCHANGED <<framewise, realTime, frontOpt, subMaps, coolingIndex, edges, optCount, rejected, corrected>>
      /\ isNewSubMap' \in BOOLEAN /\ pc' = IF isNewSubMap' THEN "complete" ELSE "frame"
  BY DEF AddFrame, config
<1>3. /\ blocks \in Seq(Block) /\ Len(blocks) \in Nat /\ relRigid \in Seq(BOOLEAN)
      /\ subMaps \in Seq(SubMap) /\ Len(subMaps) \in Nat
      /\ \A s \in 1 .. Len(subMaps) : subMaps[s] \in SubMap
      /\ cur.first \in Nat /\ cur.last \in Nat /\ frontOpt \in Nat
  BY LenProperties, ElementOfSeq DEF TypeOK, Block, SubMap
\* the two cases: the frame is stored, or not
<1>4. \/ /\ isNewSubMap \/ frame % StoreInterval = 0
         /\ blocks' \in Seq(Block) /\ Len(blocks') = Len(blocks) + 1 /\ blocks' # blocks
         /\ \A i \in 1 .. Len(blocks) : blocks'[i] = blocks[i]
         /\ blocks'[Len(blocks) + 1] = [id |-> frame, lo |-> frontOpt, init |-> init]
         /\ relRigid' = StoreRel
      \/ ~isNewSubMap /\ blocks' = blocks /\ relRigid' = relRigid
  BY <1>1, <1>2, StoredOnce
<1>5. /\ blocks' \in Seq(Block) /\ Len(blocks') \in Nat
      /\ Len(blocks) <= Len(blocks') /\ Len(blocks') <= Len(blocks) + 1
      /\ isNewSubMap => Len(blocks') = Len(blocks) + 1
      /\ \A i \in 1 .. Len(blocks) : blocks'[i] = blocks[i]
      /\ Len(blocks') > Len(blocks) =>
           blocks'[Len(blocks) + 1] = [id |-> frame, lo |-> frontOpt, init |-> init]
  BY <1>3, <1>4
<1>6. /\ cur'.first = IF isNewSubMap THEN Len(blocks) ELSE cur.first
      /\ cur'.last = Len(blocks') - 1
      /\ cur'.lo = IF isNewSubMap THEN frontOpt ELSE cur.lo
      /\ cur' \in [first : Nat, last : Nat, lo : Pose]
  <2>1. ~isNewSubMap => Len(blocks) > 0
    BY <1>2, <1>3 DEF TileInv, Building
  <2>2. cur' = [first |-> IF isNewSubMap THEN Len(blocks) ELSE cur.first,
                last |-> Len(blocks') - 1,
                lo |-> IF isNewSubMap THEN frontOpt ELSE cur.lo]
    BY <1>1 DEF CurWithFrame
  <2>3. Len(blocks') - 1 \in Nat /\ frontOpt \in Pose /\ cur.lo \in Pose
    BY <2>1, <1>3, <1>5 DEF TypeOK, Pose
  <2> QED
    BY <2>2, <2>3, <1>3
<1>7. Building' /\ (Building <=> ~isNewSubMap) /\ pc' # "detect" /\ pc' # "optimize"
  BY <1>2 DEF Building
<1>8. /\ relRigid' \in Seq(BOOLEAN)
      /\ Len(relRigid') = IF blocks' = <<>> THEN 0 ELSE Len(blocks') - 1
      /\ \A i \in 1 .. Len(relRigid) : relRigid'[i] = relRigid[i]
      /\ Len(blocks) > 0 /\ Len(blocks') > Len(blocks) =>
           (relRigid'[Len(blocks)] = (blocks[Len(blocks)].lo = frontOpt))
  <2> DEFINE r == (blocks[Len(blocks)].lo = frontOpt)
  <2>1. r \in BOOLEAN
    BY Zenon
  <2>2. CASE relRigid' = relRigid /\ blocks' = blocks
    BY <2>2, <1>3 DEF FollowInv
  <2>3. CASE relRigid' = StoreRel /\ blocks = <<>>
    <3>1. relRigid' = relRigid
      BY <2>3 DEF StoreRel
    <3>2. CASE blocks' = blocks
      BY <3>1, <3>2, <2>3, <1>3 DEF FollowInv
    <3>3. CASE blocks' # blocks
      <4>1. Len(relRigid) = 0 /\ Len(blocks) = 0
        BY <2>3, <1>3 DEF FollowInv
      <4>2. Len(blocks') = 1 /\ blocks' # <<>>
        BY <4>1, <3>3, <1>4, <1>5, EmptySeq
      <4> QED
        BY <3>1, <4>1, <4>2, <1>3
    <3> QED
      BY <3>2, <3>3
  <2>4. CASE relRigid' = StoreRel /\ blocks # <<>> /\ Len(blocks') = Len(blocks) + 1
    <3>1. relRigid' = Append(relRigid, r)
      BY <2>4 DEF StoreRel, Last
    <3>2. Len(blocks) > 0 /\ Len(relRigid) = Len(blocks) - 1
      BY <2>4, <1>3 DEF FollowInv
    <3> HIDE DEF r
    <3>3. /\ Append(relRigid, r) \in Seq(BOOLEAN) /\ Len(Append(relRigid, r)) = Len(relRigid) + 1
          /\ \A i \in 1 .. Len(relRigid) : Append(relRigid, r)[i] = relRigid[i]
          /\ Append(relRigid, r)[Len(relRigid) + 1] = r
      BY <1>3, <2>1, AppendProperties
    <3>4. relRigid'[Len(blocks)] = r
      <4>1. Len(relRigid) + 1 = Len(blocks)
        BY <3>2, <1>3
      <4> QED
        BY <4>1, <3>1, <3>3, Zenon
    <3>5. Len(relRigid') = Len(blocks') - 1 /\ blocks' # <<>>
      BY <3>1, <3>2, <3>3, <2>4, <1>3, <1>5, EmptySeq
    <3>6. \A i \in 1 .. Len(relRigid) : relRigid'[i] = relRigid[i]
      BY <3>1, <3>3, Zenon
    <3>7. relRigid' \in Seq(BOOLEAN)
      BY <3>1, <3>3, Zenon
    <3> QED
      BY <3>4, <3>5, <3>6, <3>7, <2>4, Zenon DEF r
  <2> QED
    BY <1>4, <2>2, <2>3, <2>4
<1>9. TypeOK'
  BY <1>2, <1>5, <1>6, <1>8 DEF TypeOK, Block
<1>10. PointInv'
  BY <1>2 DEF PointInv
<1>11. TileInv'
  <2>1. /\ \A s \in 1 .. Len(subMaps) : subMaps[s].last < Len(blocks)
        /\ \A s \in 1 .. Len(subMaps) : subMaps[s].last \in Nat
    BY <1>3 DEF TileInv, SubMap
  <2>2. \A s \in 1 .. Len(subMaps) : subMaps[s].last < Len(blocks')
    BY <2>1, <1>3, <1>5
  <2>3. /\ cur'.first = End /\ cur'.first <= cur'.last /\ Len(blocks') = cur'.last + 1
        /\ \A s \in 1 .. Len(subMaps) : subMaps[s].last < cur'.first
    <3>1. CASE isNewSubMap
      BY <3>1, <2>1, <1>3, <1>5, <1>6, <1>7 DEF TileInv
    <3>2. CASE ~isNewSubMap
      BY <3>2, <2>1, <1>3, <1>5, <1>6, <1>7 DEF TileInv
    <3> QED
      BY <3>1, <3>2
  <2>4. End' = End
    BY <1>2 DEF End, Last
  <2>5. \A s \in 1 .. Len(subMaps) :
          /\ subMaps[s].first = IF s = 1 THEN 0 ELSE subMaps[s - 1].last + 1
          /\ subMaps[s].first <= subMaps[s].last
    BY DEF TileInv
  <2>6. \A s, t \in 1 .. Len(subMaps) : s < t => subMaps[s].last < subMaps[t].first
    BY DEF TileInv
  <2> QED
    BY <1>2, <1>7, <2>2, <2>3, <2>4, <2>5, <2>6 DEF TileInv
<1>12. StoreInv'
  <2>1. frame \in Nat /\ \A i \in 1 .. Len(blocks) : blocks[i].id \in Nat /\ blocks[i].id < frame
    <3>1. \A i \in 1 .. Len(blocks) : blocks[i] \in Block
      BY <1>3, ElementOfSeq
    <3> QED
      BY <3>1 DEF StoreInv, TypeOK, Block
  <2>2. \A i \in 1 .. Len(blocks') : blocks'[i].id = IF i \in 1 .. Len(blocks) THEN blocks[i].id ELSE frame
    BY <1>3, <1>5
  <2>3. \A i \in 2 .. Len(blocks') : blocks'[i - 1].id < blocks'[i].id
    BY <2>1, <2>2, <1>3, <1>5 DEF StoreInv
  <2> QED
    BY <1>2, <1>5, <2>1, <2>2, <2>3 DEF StoreInv
<1>13. FollowInv'
  <2>1. ASSUME realTime, NEW s \in 1 .. Len(subMaps)
        PROVE  /\ \A i \in subMaps[s].first .. subMaps[s].last - 1 : relRigid'[i + 1]
               /\ framewise => subMaps[s].lo = blocks'[subMaps[s].first + 1].lo
    <3>1. /\ subMaps[s].first \in Nat /\ subMaps[s].last \in Nat
          /\ subMaps[s].first <= subMaps[s].last /\ subMaps[s].last < Len(blocks)
      BY <1>3 DEF TileInv, SubMap
    <3>2. /\ \A i \in subMaps[s].first .. subMaps[s].last - 1 : relRigid[i + 1]
          /\ framewise => subMaps[s].lo = blocks[subMaps[s].first + 1].lo
      BY <2>1 DEF FollowInv
    <3>3. subMaps[s].first + 1 \in 1 .. Len(blocks)
      BY <3>1, <1>3
    <3>4. \A i \in subMaps[s].first .. subMaps[s].last - 1 : i + 1 \in 1 .. Len(relRigid)
      BY <3>1, <1>3 DEF FollowInv
    <3>5. \A i \in subMaps[s].first .. subMaps[s].last - 1 : relRigid'[i + 1]
      BY <3>2, <3>4, <1>8, Zenon
    <3> QED
      BY <3>2, <3>3, <3>5, <1>5
  <2>2. ASSUME realTime
        PROVE  /\ \A i \in cur'.first .. cur'.last - 1 : relRigid'[i + 1]
               /\ \A i \in cur'.first .. cur'.last : blocks'[i + 1].lo = frontOpt
               /\ cur'.lo = frontOpt
    <3>1. CASE isNewSubMap
      BY <3>1, <1>3, <1>5, <1>6
    <3>2. CASE ~isNewSubMap
      <4>1. /\ \A i \in cur.first .. cur.last - 1 : relRigid[i + 1]
            /\ \A i \in cur.first .. cur.last : blocks[i + 1].lo = frontOpt
            /\ cur.lo = frontOpt /\ cur.first <= cur.last /\ Len(blocks) = cur.last + 1
            /\ Len(relRigid) = Len(blocks) - 1
        BY <2>2, <3>2, <1>7, <1>3 DEF FollowInv, TileInv
      <4>2. /\ cur'.first = cur.first /\ cur'.lo = cur.lo
            /\ (cur'.last = cur.last \/ (cur'.last = cur.last + 1 /\ Len(blocks') > Len(blocks)))
        BY <3>2, <4>1, <1>3, <1>5, <1>6
      <4>3. \A i \in cur'.first .. cur'.last : blocks'[i + 1].lo = frontOpt
        <5> SUFFICES ASSUME NEW i \in cur'.first .. cur'.last PROVE blocks'[i + 1].lo = frontOpt
          OBVIOUS
        <5>1. CASE i \in cur.first .. cur.last
          <6>1. i + 1 \in 1 .. Len(blocks)
            BY <5>1, <4>1, <1>3
          <6> QED
            BY <6>1, <5>1, <4>1, <1>5
        <5>2. CASE i = Len(blocks) /\ Len(blocks') > Len(blocks)
          BY <5>2, <1>5
        <5> QED
          BY <5>1, <5>2, <4>1, <4>2, <1>3
      <4>4. Len(blocks') > Len(blocks) => relRigid'[cur.last + 1]
        <5>1. cur.last \in cur.first .. cur.last /\ Len(blocks) > 0
          BY <4>1, <1>3
        <5>2. blocks[Len(blocks)].lo = frontOpt
          BY <4>1, <5>1
        <5>3. Len(blocks') > Len(blocks) => relRigid'[Len(blocks)]
          BY <5>1, <5>2, <1>8, Zenon
        <5> QED
          BY <5>3, <4>1, Zenon
      <4>5. \A i \in cur'.first .. cur'.last - 1 :
              \/ i \in cur.first .. cur.last - 1 /\ i + 1 \in 1 .. Len(relRigid)
              \/ i = cur.last /\ Len(blocks') > Len(blocks)
        BY <4>1, <4>2, <1>3
      <4>6. \A i \in cur'.first .. cur'.last - 1 : relRigid'[i + 1]
        BY <4>1, <4>4, <4>5, <1>8, Zenon
      <4> QED
        BY <4>1, <4>2, <4>3, <4>6
    <3> QED
      BY <3>1, <3>2
  <2> QED
    BY <1>2, <1>8, <2>1, <2>2, Zenon DEF FollowInv
<1>14. ChainInv' /\ GuessInv'
  BY <1>2 DEF ChainInv, GuessInv
<1>15. LoopInv'
  BY <1>2, <1>7 DEF LoopInv, LoopsSpaced, RejectedNotReused, Registration
<1> QED
  BY <1>9, <1>10, <1>11, <1>12, <1>13, <1>14, <1>15

LEMMA CompleteSubMapInv == IInv /\ CompleteSubMap => IInv'
<1> SUFFICES ASSUME IInv, CompleteSubMap PROVE IInv'
  OBVIOUS
<1> USE ConstantsAssumption DEF IInv
<1> DEFINE n == Len(subMaps)
           m == [first |-> cur.first, last |-> cur.last, lo |-> cur.lo, init |-> cur.lo]
           kept == IF realTime THEN Cancelled(edges) ELSE edges
<1>1. /\ pc = "complete" /\ subMaps' = Append(subMaps, m)
      /\ coolingIndex' = IF coolingIndex > 0 THEN coolingIndex - 1 ELSE 0
      /\ edges' = kept \cup Adjacent(n)
      /\ pc' = IF coolingIndex' > 0 THEN "frame" ELSE "detect"
      /\ UNCHANGED <<framewise, realTime, frame, blocks, relRigid, frontOpt, cur, isNewSubMap,
                     optCount, rejected, corrected>>
  BY DEF CompleteSubMap, frameVars, config
<1>2. /\ n \in Nat /\ m \in SubMap /\ subMaps \in Seq(SubMap)
      /\ cur.first \in Nat /\ cur.last \in Nat
      /\ \A s \in 1 .. n : subMaps[s] \in SubMap
  BY LenProperties, ElementOfSeq DEF TypeOK, SubMap
<1>3. /\ subMaps' \in Seq(SubMap) /\ Len(subMaps') = n + 1 /\ subMaps' # <<>>
      /\ \A s \in 1 .. n : subMaps'[s] = subMaps[s]
      /\ subMaps'[n + 1] = m
  BY <1>1, <1>2, AppendProperties
<1>4. isNewSubMap /\ Building /\ ~Building'
  BY <1>1 DEF PointInv, Building
\* the edges kept
<1>5. /\ kept \in SUBSET EdgeSet /\ IsFiniteSet(kept)
      /\ \A e \in edges : e.type = "ADJACENT" => e \in kept
      /\ \A f \in kept : \E e \in edges :
           /\ f.b1 = e.b1 /\ f.b2 = e.b2
           /\ f.type = "ADJACENT" <=> e.type = "ADJACENT"
           /\ f.type = "REGISTRATION" => f = e
      /\ \A e, f \in kept :
           e.type # "ADJACENT" /\ f.type # "ADJACENT" /\ e.b2 = f.b2 => e = f
  <2>1. edges \in SUBSET EdgeSet /\ IsFiniteSet(edges)
    BY DEF TypeOK, EdgeSet, ChainInv
  <2>2. \A e, f \in edges :
          e.type # "ADJACENT" /\ f.type # "ADJACENT" /\ e.b2 = f.b2 => e = f
    BY DEF LoopInv
  <2>3. CASE realTime
    BY <2>1, <2>2, <2>3, CancelledEdges, Zenon
  <2>4. CASE ~realTime
    BY <2>1, <2>2, <2>4
  <2> QED
    BY <2>3, <2>4
<1>6. /\ n < 1 => Adjacent(n) = {}
      /\ ~(n < 1) => Adjacent(n) = {Edge("ADJACENT", n - 1, n, TRUE)}
  BY Zenon DEF Adjacent
<1>7. \A e \in Adjacent(n) : e.type = "ADJACENT" /\ e.b1 = n - 1 /\ e.b2 = n /\ n >= 1 /\ e \in EdgeSet
  <2> SUFFICES ASSUME NEW e \in Adjacent(n)
               PROVE  e.type = "ADJACENT" /\ e.b1 = n - 1 /\ e.b2 = n /\ n >= 1 /\ e \in EdgeSet
    OBVIOUS
  <2>1. ~(n < 1) /\ e = Edge("ADJACENT", n - 1, n, TRUE)
    BY <1>6, Zenon
  <2>2. n >= 1 /\ n - 1 \in Nat
    BY <1>2, <2>1
  <2>3. e = [type |-> "ADJACENT", b1 |-> n - 1, b2 |-> n, reliable |-> TRUE]
    BY <2>1 DEF Edge
  <2> QED
    BY <1>2, <2>2, <2>3 DEF EdgeSet, EdgeType
<1>8. \A e \in edges' : e.type # "ADJACENT" => e \in kept
  BY <1>1, <1>7
<1>9. edges' \in SUBSET EdgeSet /\ IsFiniteSet(edges')
  <2>1. edges' \in SUBSET EdgeSet
    BY <1>1, <1>5, <1>7
  <2>2. IsFiniteSet(Adjacent(n))
    <3>1. CASE n < 1
      BY <3>1, <1>6, FS_EmptySet
    <3>2. CASE ~(n < 1)
      <4>1. Adjacent(n) = {Edge("ADJACENT", n - 1, n, TRUE)}
        BY <3>2, <1>6, Zenon
      <4>2. IsFiniteSet({Edge("ADJACENT", n - 1, n, TRUE)})
        BY FS_Singleton, Zenon
      <4> QED
        BY <4>1, <4>2, Zenon
    <3> QED
      BY <3>1, <3>2
  <2> QED
    BY <1>1, <1>5, <2>1, <2>2, FS_Union
<1> HIDE DEF kept, m
<1>10. TypeOK'
  BY <1>1, <1>3, <1>9 DEF TypeOK, SubMap, EdgeSet
<1>11. PointInv'
  BY <1>1, <1>3, <1>4 DEF PointInv
<1>12. TileInv'
  <2>1. m.first = cur.first /\ m.last = cur.last
    BY DEF m
  <2>2. /\ cur.first <= cur.last /\ Len(blocks) = cur.last + 1
        /\ \A s \in 1 .. n : subMaps[s].last < cur.first
        /\ cur.first = IF n = 0 THEN 0 ELSE subMaps[n].last + 1
    BY <1>2, <1>4, EmptySeq DEF TileInv, End, Last
  <2>3. \A s \in 1 .. n + 1 :
          /\ subMaps'[s].first = IF s = 1 THEN 0 ELSE subMaps'[s - 1].last + 1
          /\ subMaps'[s].first <= subMaps'[s].last
          /\ subMaps'[s].last < Len(blocks)
    <3> SUFFICES ASSUME NEW s \in 1 .. n + 1
                 PROVE  /\ subMaps'[s].first = IF s = 1 THEN 0 ELSE subMaps'[s - 1].last + 1
                        /\ subMaps'[s].first <= subMaps'[s].last
                        /\ subMaps'[s].last < Len(blocks)
      OBVIOUS
    <3>1. CASE s \in 1 .. n
      <4>1. s = 1 \/ s - 1 \in 1 .. n
        BY <3>1, <1>2
      <4> QED
        BY <3>1, <4>1, <1>3 DEF TileInv
    <3>2. CASE s = n + 1
      <4>1. s = 1 <=> n = 0
        BY <3>2, <1>2
      <4>2. n # 0 => subMaps'[s - 1] = subMaps[n]
        BY <3>2, <1>2, <1>3
      <4> QED
        BY <3>2, <4>1, <4>2, <2>1, <2>2, <1>2, <1>3
    <3> QED
      BY <3>1, <3>2, <1>2
  <2>4. \A s, t \in 1 .. n + 1 : s < t => subMaps'[s].last < subMaps'[t].first
    <3> SUFFICES ASSUME NEW s \in 1 .. n + 1, NEW t \in 1 .. n + 1, s < t
                 PROVE  subMaps'[s].last < subMaps'[t].first
      OBVIOUS
    <3>1. s \in 1 .. n
      BY <1>2
    <3>2. CASE t \in 1 .. n
      BY <3>1, <3>2, <1>3 DEF TileInv
    <3>3. CASE t = n + 1
      BY <3>1, <3>3, <2>1, <2>2, <1>3
    <3> QED
      BY <3>2, <3>3, <1>2
  <2>5. End' = Len(blocks)
    BY <2>1, <2>2, <1>3 DEF End, Last
  <2> QED
    BY <1>1, <1>3, <1>4, <2>3, <2>4, <2>5 DEF TileInv
<1>13. StoreInv'
  BY <1>1 DEF StoreInv
<1>14. FollowInv'
  <2>1. m.first = cur.first /\ m.last = cur.last /\ m.lo = cur.lo
    BY DEF m
  <2>2. ASSUME realTime, NEW s \in 1 .. n + 1
        PROVE  /\ \A i \in subMaps'[s].first .. subMaps'[s].last - 1 : relRigid[i + 1]
               /\ framewise => subMaps'[s].lo = blocks[subMaps'[s].first + 1].lo
    <3>1. CASE s \in 1 .. n
      BY <2>2, <3>1, <1>3 DEF FollowInv
    <3>2. CASE s = n + 1
      <4>1. /\ \A i \in cur.first .. cur.last - 1 : relRigid[i + 1]
            /\ \A i \in cur.first .. cur.last : blocks[i + 1].lo = frontOpt
            /\ cur.lo = frontOpt /\ cur.first \in cur.first .. cur.last
        BY <2>2, <1>2, <1>4 DEF FollowInv, TileInv
      <4> QED
        BY <4>1, <3>2, <2>1, <1>3
    <3> QED
      BY <3>1, <3>2, <1>2
  <2>3. Len(relRigid) = IF blocks = <<>> THEN 0 ELSE Len(blocks) - 1
    BY DEF FollowInv
  <2> QED
    BY <1>1, <1>3, <1>4, <2>2, <2>3, Zenon DEF FollowInv
<1>15. ChainInv'
  <2>1. \A e \in edges' : e.type = "ADJACENT" => e.b2 \in 1 .. n /\ e.b1 = e.b2 - 1
    <3>1. \A e \in kept : e.type = "ADJACENT" => e.b2 \in 1 .. n - 1 /\ e.b1 = e.b2 - 1
      BY <1>5 DEF ChainInv
    <3> QED
      BY <1>1, <1>2, <1>7, <3>1
  <2>2. \A k \in 1 .. n : Edge("ADJACENT", k - 1, k, TRUE) \in edges'
    <3>1. \A k \in 1 .. n - 1 : Edge("ADJACENT", k - 1, k, TRUE) \in kept
      BY <1>5 DEF ChainInv, Edge
    <3>2. ~(n < 1) => Edge("ADJACENT", n - 1, n, TRUE) \in edges'
      BY <1>1, <1>6, Zenon
    <3> SUFFICES ASSUME NEW k \in 1 .. n PROVE Edge("ADJACENT", k - 1, k, TRUE) \in edges'
      OBVIOUS
    <3>3. k \in 1 .. n - 1 \/ (k = n /\ ~(n < 1))
      BY <1>2
    <3> QED
      BY <1>1, <3>1, <3>2, <3>3, Zenon
  <2>3. Len(subMaps') - 1 = n
    BY <1>2, <1>3
  <2> QED
    BY <1>9, <2>1, <2>2, <2>3 DEF ChainInv
<1>16. LoopInv'
  <2>1. \A f \in edges' : f.type # "ADJACENT" => \E e \in edges :
          /\ e.type # "ADJACENT" /\ f.b1 = e.b1 /\ f.b2 = e.b2
          /\ f.type = "REGISTRATION" => f = e
    BY <1>5, <1>8
  <2>2. coolingIndex \in 0 .. CoolingSubmapNum /\ (pc' = "detect" => coolingIndex' = 0)
    BY <1>1 DEF TypeOK
  <2>3. \A e \in edges : e.type # "ADJACENT" =>
          /\ e.b1 + MinSubmapIdDiff < e.b2 /\ e.b2 < n /\ e.b2 \in Nat
          /\ n - 1 - e.b2 >= CoolingSubmapNum - coolingIndex
    BY <1>1 DEF LoopInv, TypeOK
  <2>4. \A e \in edges' : e.type # "ADJACENT" =>
          /\ e.b1 + MinSubmapIdDiff < e.b2
          /\ e.b2 < IF pc' = "detect" THEN Len(subMaps') - 1 ELSE Len(subMaps')
          /\ Len(subMaps') - 1 - e.b2 >= CoolingSubmapNum - coolingIndex'
    <3> SUFFICES ASSUME NEW f \in edges', f.type # "ADJACENT"
                 PROVE  /\ f.b1 + MinSubmapIdDiff < f.b2
                        /\ f.b2 < IF pc' = "detect" THEN Len(subMaps') - 1 ELSE Len(subMaps')
                        /\ Len(subMaps') - 1 - f.b2 >= CoolingSubmapNum - coolingIndex'
      OBVIOUS
    <3>1. /\ f.b1 + MinSubmapIdDiff < f.b2 /\ f.b2 < n /\ f.b2 \in Nat
          /\ n - 1 - f.b2 >= CoolingSubmapNum - coolingIndex
      BY <2>1, <2>3
    <3> QED
      BY <3>1, <2>2, <1>1, <1>2, <1>3
  <2>5. \A e, f \in edges' : e.type # "ADJACENT" /\ f.type # "ADJACENT" /\ e.b2 = f.b2 => e = f
    BY <1>5, <1>8
  <2>6. \A r \in rejected' : r[2] < IF pc' = "detect" THEN Len(subMaps') - 1 ELSE Len(subMaps')
    <3>1. \A r \in rejected : r[2] < n /\ r[2] \in Nat
      BY <1>1 DEF LoopInv, TypeOK
    <3> QED
      BY <3>1, <1>1, <1>2, <1>3
  <2>7. LoopsSpaced'
    <3>1. \A e, f \in edges : e.type # "ADJACENT" /\ f.type # "ADJACENT" /\ e.b2 < f.b2 =>
            f.b2 - e.b2 >= CoolingSubmapNum
      BY DEF LoopInv, LoopsSpaced
    <3>2. \A e, f \in edges' : e.type # "ADJACENT" /\ f.type # "ADJACENT" /\ e.b2 < f.b2 =>
            f.b2 - e.b2 >= CoolingSubmapNum
      BY <3>1, <2>1
    <3> QED
      BY <3>2 DEF LoopsSpaced
  <2>8. ~framewise' => RejectedNotReused'
    BY <2>1, <1>1 DEF LoopInv, RejectedNotReused, Registration
  <2> QED
    BY <2>2, <2>4, <2>5, <2>6, <2>7, <2>8 DEF LoopInv
<1>17. GuessInv'
  <2>1. m.lo = m.init
    BY DEF m
  <2> QED
    BY <2>1, <1>1, <1>2, <1>3 DEF GuessInv
<1> QED
  BY <1>10, <1>11, <1>12, <1>13, <1>14, <1>15, <1>16, <1>17

LEMMA DetectLoopInv == IInv /\ DetectLoopNN => IInv'
<1> SUFFICES ASSUME IInv, DetectLoopNN PROVE IInv'
  OBVIOUS
<1> USE ConstantsAssumption DEF IInv
<1> DEFINE n == Len(subMaps)
<1>1. /\ pc = "detect" /\ pc' \in {"frame", "optimize"}
      /\ UNCHANGED <<framewise, realTime, frame, blocks, relRigid, frontOpt, subMaps, cur, isNewSubMap,
                     optCount, rejected, corrected>>
      /\ \/ /\ \E b \in Candidates, r \in Reliabilities :
                 edges' = edges \cup {Edge("REGISTRATION", b, n - 1, r)}
            /\ coolingIndex' = CoolingSubmapNum
         \/ UNCHANGED <<edges, coolingIndex>>
  BY DEF DetectLoopNN, frameVars, config
<1>2. /\ n \in Nat \ {0} /\ subMaps # <<>> /\ subMaps \in Seq(SubMap)
      /\ isNewSubMap /\ ~Building /\ ~Building'
  BY <1>1, EmptySeq DEF PointInv, TypeOK, SubMap, Building
<1>3. PointInv' /\ TileInv' /\ StoreInv' /\ FollowInv' /\ GuessInv'
  BY <1>1, <1>2 DEF PointInv, TileInv, StoreInv, FollowInv, GuessInv, End, Last
<1>4. CASE UNCHANGED <<edges, coolingIndex>>
  <2>1. TypeOK' /\ ChainInv'
    BY <1>1, <1>4 DEF TypeOK, ChainInv
  <2>2. \A e \in edges : e.b2 \in Nat
    BY DEF TypeOK
  <2>3. \A r \in rejected : r[2] \in Nat
    BY DEF TypeOK
  <2>4. LoopInv'
    BY <1>1, <1>2, <1>4, <2>2, <2>3 DEF LoopInv, LoopsSpaced, RejectedNotReused, Registration
  <2> QED
    BY <1>3, <2>1, <2>4
<1>5. ASSUME NEW b \in Candidates, NEW r \in Reliabilities,
             edges' = edges \cup {Edge("REGISTRATION", b, n - 1, r)},
             coolingIndex' = CoolingSubmapNum
      PROVE  TypeOK' /\ ChainInv' /\ LoopInv'
  <2> DEFINE new == Edge("REGISTRATION", b, n - 1, r)
  <2>1. b \in Nat /\ b + MinSubmapIdDiff < n - 1
    BY <1>2 DEF Candidates
  <2>2. /\ new.type = "REGISTRATION" /\ new.b1 = b /\ new.b2 = n - 1
        /\ new \in EdgeSet
    BY <1>2, <2>1 DEF Edge, EdgeSet, EdgeType
  <2>3. IsFiniteSet(edges')
    <3> HIDE DEF new
    <3>1. IsFiniteSet(edges \cup {new})
      BY FS_AddElement DEF ChainInv
    <3> QED
      BY <3>1, <1>5 DEF new
  <2> HIDE DEF new
  <2>4. edges' = edges \cup {new}
    BY <1>5 DEF new
  <2>5. TypeOK'
    BY <1>1, <1>5, <2>2, <2>4 DEF TypeOK, EdgeSet
  <2>6. ChainInv'
    BY <1>1, <2>2, <2>3, <2>4 DEF ChainInv
  <2>7. \A e \in edges : e.type # "ADJACENT" =>
          /\ e.b2 \in Nat /\ e.b1 + MinSubmapIdDiff < e.b2 /\ e.b2 < n - 1
          /\ n - 1 - e.b2 >= CoolingSubmapNum
    <3>1. \A e \in edges : e.b2 \in Nat
      BY DEF TypeOK
    <3> QED
      BY <3>1, <1>1 DEF LoopInv
  <2>8. \A e, f \in edges : e.type # "ADJACENT" /\ f.type # "ADJACENT" =>
          /\ e.b2 = f.b2 => e = f
          /\ e.b2 < f.b2 => f.b2 - e.b2 >= CoolingSubmapNum
    BY DEF LoopInv, LoopsSpaced
  <2>9. \A e, f \in edges' : e.type # "ADJACENT" /\ f.type # "ADJACENT" =>
          /\ e.b2 = f.b2 => e = f
          /\ e.b2 < f.b2 => f.b2 - e.b2 >= CoolingSubmapNum
    BY <1>2, <2>2, <2>4, <2>7, <2>8
  <2>10. \A x \in rejected : x[2] \in Nat /\ x[2] < n - 1
    BY <1>1 DEF LoopInv, TypeOK
  <2>11. LoopsSpaced'
    BY <2>9 DEF LoopsSpaced
  <2>12. ~framewise' => RejectedNotReused'
    <3> SUFFICES ASSUME ~framewise, NEW e \in edges', e.type = "REGISTRATION"
                 PROVE  <<e.b1, e.b2>> \notin rejected
      BY <1>1 DEF RejectedNotReused, Registration
    <3>1. CASE e \in edges
      BY <3>1 DEF LoopInv, RejectedNotReused, Registration
    <3>2. CASE e = new
      BY <3>2, <2>2, <2>10, <1>2
    <3> QED
      BY <3>1, <3>2, <2>4
  <2>13. \A e \in edges' : e.type # "ADJACENT" =>
           /\ e.b1 + MinSubmapIdDiff < e.b2 /\ e.b2 < n
           /\ n - 1 - e.b2 >= CoolingSubmapNum - coolingIndex'
    BY <1>2, <1>5, <2>1, <2>2, <2>4, <2>7
  <2>14. \A x \in rejected : x[2] < n
    BY <1>2, <2>10
  <2> QED
    BY <1>1, <2>5, <2>6, <2>9, <2>11, <2>12, <2>13, <2>14 DEF LoopInv
<1> QED
  BY <1>1, <1>3, <1>4, <1>5

\* An optimisation, in real time or after the last scan.
LEMMA OptimizeInv ==
  ASSUME IInv, NEW W \in SUBSET Registration(edges), Optimize(W) \/ OptimizeFails(W),
         UNCHANGED <<framewise, realTime, frame, relRigid, isNewSubMap, coolingIndex>>,
         corrected' \in BOOLEAN, frontOpt' \in {frontOpt, optCount'},
         pc \in {"frame", "optimize"}, pc' = "frame", realTime => ~Building
  PROVE  IInv'
<1> USE ConstantsAssumption DEF IInv
<1> DEFINE n == Len(subMaps)
<1>1. /\ blocks \in Seq(Block) /\ Len(blocks) \in Nat
      /\ subMaps \in Seq(SubMap) /\ n \in Nat
      /\ \A s \in 1 .. n : subMaps[s] \in SubMap
      /\ edges \in SUBSET EdgeSet /\ IsFiniteSet(edges)
  BY LenProperties, ElementOfSeq DEF TypeOK, Block, SubMap, EdgeSet, ChainInv
<1>2. /\ edges' = AfterRejection(W)
      /\ rejected' = rejected \cup {<<e.b1, e.b2>> : e \in W}
      /\ \/ MoveNodes /\ optCount' = optCount + 1 /\ subMaps # <<>>
         \/ UNCHANGED <<blocks, subMaps, cur, optCount>>
  <2>1. CASE OptimizeFails(W)
    BY <2>1 DEF OptimizeFails
  <2>2. CASE Optimize(W)
    <3>1. PICK e \in Registration(edges) : TRUE
      BY <2>2 DEF Optimize
    <3>2. e.b2 \in Nat /\ e.b2 < n
      BY <1>1 DEF Registration, LoopInv, EdgeSet
    <3>3. subMaps # <<>>
      BY <1>1, <3>2, EmptySeq
    <3> QED
      BY <2>2, <3>3 DEF Optimize
  <2> QED
    BY <2>1, <2>2
\* the poses
<1>3. /\ blocks' \in Seq(Block) /\ Len(blocks') = Len(blocks)
      /\ \A i \in 1 .. Len(blocks) : blocks'[i].id = blocks[i].id
      /\ subMaps' \in Seq(SubMap) /\ Len(subMaps') = n
      /\ \A s \in 1 .. n :
           /\ subMaps'[s].first = subMaps[s].first /\ subMaps'[s].last = subMaps[s].last
           /\ framewise /\ realTime => subMaps'[s].lo = blocks'[subMaps[s].first + 1].lo
           /\ ~framewise => subMaps'[s].lo = subMaps'[s].init
      /\ cur' \in [first : Nat, last : Nat, lo : Pose]
      /\ cur'.first = cur.first /\ cur'.last = cur.last
  <2>1. CASE MoveNodes /\ subMaps # <<>>
    BY <2>1, Moved
  <2>2. CASE UNCHANGED <<blocks, subMaps, cur>>
    BY <2>2, <1>1 DEF TypeOK, FollowInv, GuessInv
  <2> QED
    BY <1>2, <2>1, <2>2
<1>4. optCount' \in Nat /\ frontOpt' \in Nat
  BY <1>2 DEF TypeOK
<1>5. (Building <=> ~isNewSubMap) /\ (Building' <=> ~isNewSubMap)
  BY DEF Building
<1>6. blocks = <<>> <=> blocks' = <<>>
  BY <1>1, <1>3, EmptySeq
<1>7. subMaps = <<>> <=> subMaps' = <<>>
  BY <1>1, <1>3, EmptySeq
\* the edges
<1>8. /\ edges' \in SUBSET EdgeSet /\ IsFiniteSet(edges')
      /\ \A e \in edges : e.type = "ADJACENT" => e \in edges'
      /\ \A f \in edges' : \E e \in edges :
           /\ f.b1 = e.b1 /\ f.b2 = e.b2
           /\ f.type = "ADJACENT" <=> e.type = "ADJACENT"
           /\ f.type = "REGISTRATION" => f = e /\ (~framewise => e \notin W)
      /\ \A e, f \in edges' :
           e.type # "ADJACENT" /\ f.type # "ADJACENT" /\ e.b2 = f.b2 => e = f
  <2>1. \A e, f \in edges :
          e.type # "ADJACENT" /\ f.type # "ADJACENT" /\ e.b2 = f.b2 => e = f
    BY DEF LoopInv
  <2> QED
    BY <1>1, <1>2, <2>1, RejectedEdges
<1>9. TypeOK'
  <2>1. rejected' \subseteq Nat \X Nat
    BY <1>1, <1>2 DEF TypeOK, EdgeSet, Registration
  <2>2. {framewise, realTime, isNewSubMap, corrected}' \subseteq BOOLEAN
    BY Zenon DEF TypeOK
  <2>3. relRigid' \in Seq(BOOLEAN)
    BY Zenon DEF TypeOK
  <2> QED
    BY <1>3, <1>4, <1>8, <2>1, <2>2, <2>3 DEF TypeOK, Block, SubMap, EdgeSet
<1>10. PointInv'
  BY DEF PointInv
<1>11. TileInv'
  <2>1. End' = End
    <3>1. CASE subMaps = <<>>
      BY <3>1, <1>7 DEF End
    <3>2. CASE subMaps # <<>>
      <4>1. n \in 1 .. n
        BY <3>2, <1>1, EmptySeq
      <4> QED
        BY <3>2, <4>1, <1>3, <1>7 DEF End, Last
    <3> QED
      BY <3>1, <3>2
  <2>2. \A s \in 1 .. n :
          /\ subMaps'[s].first = IF s = 1 THEN 0 ELSE subMaps'[s - 1].last + 1
          /\ subMaps'[s].first <= subMaps'[s].last
          /\ subMaps'[s].last < Len(blocks)
    <3>1. \A s \in 1 .. n : s = 1 \/ s - 1 \in 1 .. n
      BY <1>1
    <3> QED
      BY <3>1, <1>3 DEF TileInv
  <2>3. \A s, t \in 1 .. n : s < t => subMaps'[s].last < subMaps'[t].first
    BY <1>3 DEF TileInv
  <2>4. IF Building
        THEN /\ cur'.first = End /\ cur'.first <= cur'.last /\ Len(blocks) = cur'.last + 1
             /\ \A s \in 1 .. n : subMaps'[s].last < cur'.first
        ELSE Len(blocks) = End
    BY <1>3 DEF TileInv
  <2> QED
    BY <1>3, <1>5, <2>1, <2>2, <2>3, <2>4 DEF TileInv
<1>12. StoreInv'
  <2>1. \A i \in 2 .. Len(blocks) : i \in 1 .. Len(blocks) /\ i - 1 \in 1 .. Len(blocks)
    BY <1>1
  <2> QED
    BY <1>3, <2>1 DEF StoreInv
<1>13. FollowInv'
  <2>1. ASSUME realTime, NEW s \in 1 .. n
        PROVE  /\ \A i \in subMaps'[s].first .. subMaps'[s].last - 1 : relRigid[i + 1]
               /\ framewise => subMaps'[s].lo = blocks'[subMaps'[s].first + 1].lo
    BY <2>1, <1>3 DEF FollowInv
  <2>2. Len(relRigid) = IF blocks' = <<>> THEN 0 ELSE Len(blocks') - 1
    BY <1>3, <1>6 DEF FollowInv
  <2> QED
    BY <1>3, <1>5, <2>1, <2>2, Zenon DEF FollowInv
<1>14. ChainInv'
  <2>1. \A e \in edges' : e.type = "ADJACENT" => e.b2 \in 1 .. n - 1 /\ e.b1 = e.b2 - 1
    BY <1>8 DEF ChainInv
  <2>2. \A k \in 1 .. n - 1 : Edge("ADJACENT", k - 1, k, TRUE) \in edges'
    BY <1>8 DEF ChainInv, Edge
  <2> QED
    BY <1>3, <1>8, <2>1, <2>2 DEF ChainInv
<1>15. LoopInv'
  <2>1. \A f \in edges' : f.type # "ADJACENT" => \E e \in edges :
          e.type # "ADJACENT" /\ f.b1 = e.b1 /\ f.b2 = e.b2
    BY <1>8
  <2>2. \A e \in edges' : e.type # "ADJACENT" =>
          /\ e.b1 + MinSubmapIdDiff < e.b2
          /\ e.b2 < n
          /\ n - 1 - e.b2 >= CoolingSubmapNum - coolingIndex
    <3>1. \A e \in edges : e.type # "ADJACENT" =>
            /\ e.b1 + MinSubmapIdDiff < e.b2
            /\ e.b2 < n
            /\ n - 1 - e.b2 >= CoolingSubmapNum - coolingIndex
      BY DEF LoopInv
    <3> QED
      BY <3>1, <2>1
  <2>3. \A r \in rejected' : r[2] < n
    <3>1. \A r \in rejected : r[2] < n
      BY DEF LoopInv
    <3>2. \A e \in W : e.b2 < n
      BY DEF LoopInv, Registration
    <3> QED
      BY <3>1, <3>2, <1>2
  <2>4. LoopsSpaced'
    <3>1. \A e, f \in edges : e.type # "ADJACENT" /\ f.type # "ADJACENT" /\ e.b2 < f.b2 =>
            f.b2 - e.b2 >= CoolingSubmapNum
      BY DEF LoopInv, LoopsSpaced
    <3>2. \A e, f \in edges' : e.type # "ADJACENT" /\ f.type # "ADJACENT" /\ e.b2 < f.b2 =>
            f.b2 - e.b2 >= CoolingSubmapNum
      BY <3>1, <2>1
    <3> QED
      BY <3>2 DEF LoopsSpaced
  <2>5. ~framewise' => RejectedNotReused'
    <3> SUFFICES ASSUME ~framewise, NEW e \in edges', e.type = "REGISTRATION"
                 PROVE  <<e.b1, e.b2>> \notin rejected'
      BY DEF RejectedNotReused, Registration
    <3>1. e \in edges /\ e \notin W
      BY <1>8
    <3>2. <<e.b1, e.b2>> \notin rejected
      BY <3>1 DEF LoopInv, RejectedNotReused, Registration
    <3>3. ASSUME NEW w \in W, <<w.b1, w.b2>> = <<e.b1, e.b2>> PROVE FALSE
      <4>1. w \in edges /\ w.type = "REGISTRATION" /\ w.b2 = e.b2
        BY <3>3 DEF Registration
      <4>2. w = e
        BY <3>1, <4>1 DEF LoopInv
      <4> QED
        BY <3>1, <4>2
    <3> QED
      BY <3>2, <3>3, <1>2
  <2> QED
    BY <1>3, <1>8, <2>2, <2>3, <2>4, <2>5 DEF LoopInv
<1>16. GuessInv'
  BY <1>3 DEF GuessInv
<1> QED
  BY <1>9, <1>10, <1>11, <1>12, <1>13, <1>14, <1>15, <1>16

LEMMA Inductive == IInv /\ [Next]_vars => IInv'
<1> SUFFICES ASSUME IInv, [Next]_vars PROVE IInv'
  OBVIOUS
<1>1. CASE AddFrame
  BY <1>1, AddFrameInv
<1>2. CASE CompleteSubMap
  BY <1>2, CompleteSubMapInv
<1>3. CASE DetectLoopNN
  BY <1>3, DetectLoopInv
<1>4. CASE CorrectRealTime
  <2>1. PICK W \in SUBSET Registration(edges) : Optimize(W) \/ OptimizeFails(W)
    BY <1>4 DEF CorrectRealTime
  <2>2. ~Building
    BY <1>4 DEF CorrectRealTime, IInv, PointInv, Building
  <2>3. corrected' \in BOOLEAN
    BY <1>4, Zenon DEF CorrectRealTime, IInv, TypeOK
  <2> QED
    BY <1>4, <2>1, <2>2, <2>3, OptimizeInv DEF CorrectRealTime, config
<1>5. CASE CorrectLoop
  <2>1. CASE \E W \in SUBSET Registration(edges) : Optimize(W) \/ OptimizeFails(W)
    <3>1. PICK W \in SUBSET Registration(edges) : Optimize(W) \/ OptimizeFails(W)
      BY <2>1
    <3>2. corrected' \in BOOLEAN
      BY <1>5 DEF CorrectLoop
    <3> QED
      BY <1>5, <3>1, <3>2, OptimizeInv DEF CorrectLoop, config
  <2>2. CASE UNCHANGED <<blocks, subMaps, cur, edges, rejected, optCount>>
    BY <1>5, <2>2 DEF CorrectLoop, config, IInv, TypeOK, PointInv, TileInv, StoreInv, FollowInv,
       ChainInv, LoopInv, GuessInv, Building, End, Last, LoopsSpaced, RejectedNotReused, Registration
  <2> QED
    BY <1>5, <2>1, <2>2 DEF CorrectLoop
<1>6. CASE UNCHANGED vars
  BY <1>6 DEF vars, config, IInv, TypeOK, PointInv, TileInv, StoreInv, FollowInv,
     ChainInv, LoopInv, GuessInv, Building, End, Last, LoopsSpaced, RejectedNotReused, Registration
<1> QED
  BY <1>1, <1>2, <1>3, <1>4, <1>5, <1>6 DEF Next, Done

\* Storing, submaps, edges and poses keep to the invariant through any
\* sequence of frames, corrections, cancellings and rejections.
THEOREM Invariance == Spec => []IInv
<1> QED
  BY Initially, Inductive, PTL DEF Spec

-----------------------------------------------------------------------------
(* What follows from the invariant.                                        *)

\* Every variable keeps to its type.
THEOREM TypeCorrect == Spec => []TypeOK
<1>1. IInv => TypeOK
  BY DEF IInv
<1> QED
  BY <1>1, Invariance, PTL

\* The pieces are the submaps, and cur while one is under construction.
LEMMA PiecesAre ==
  ASSUME IInv
  PROVE  /\ Len(Pieces) = IF Building THEN Len(subMaps) + 1 ELSE Len(subMaps)
         /\ Len(subMaps) \in Nat /\ DOMAIN Pieces = 1 .. Len(Pieces)
         /\ Pieces = <<>> <=> Len(Pieces) = 0
         /\ \A p \in 1 .. Len(Pieces) :
              /\ p \in 1 .. Len(subMaps) => Pieces[p] = subMaps[p]
              /\ p \notin 1 .. Len(subMaps) => p = Len(subMaps) + 1 /\ Building /\ Pieces[p] = cur
<1> DEFINE Piece == SubMap \cup [first : Nat, last : Nat, lo : Pose]
<1>1. subMaps \in Seq(SubMap) /\ cur \in Piece
  BY DEF IInv, TypeOK, SubMap
<1>2. subMaps \in Seq(Piece) /\ Len(subMaps) \in Nat
  BY <1>1, SeqMonotonic, LenProperties
<1> HIDE DEF Piece
<1>3. CASE Building
  <2>1. Pieces = Append(subMaps, cur)
    BY <1>3 DEF Pieces, Building
  <2>2. /\ Append(subMaps, cur) \in Seq(Piece) /\ Len(Append(subMaps, cur)) = Len(subMaps) + 1
        /\ \A p \in 1 .. Len(subMaps) : Append(subMaps, cur)[p] = subMaps[p]
        /\ Append(subMaps, cur)[Len(subMaps) + 1] = cur
    BY <1>1, <1>2, AppendProperties
  <2>3. DOMAIN Append(subMaps, cur) = 1 .. Len(subMaps) + 1 /\ Append(subMaps, cur) # <<>>
    BY <1>2, <2>2, LenProperties, EmptySeq
  <2> QED
    BY <1>2, <1>3, <2>1, <2>2, <2>3
<1>4. CASE ~Building
  <2>1. Pieces = subMaps
    BY <1>4 DEF Pieces, Building
  <2>2. DOMAIN subMaps = 1 .. Len(subMaps) /\ (subMaps = <<>> <=> Len(subMaps) = 0)
    BY <1>2, LenProperties, EmptySeq
  <2> QED
    BY <1>2, <1>4, <2>1, <2>2
<1> QED
  BY <1>3, <1>4

\* The submaps, and the one under construction, tile the stored frames
\* (LoopCloser::detectLoop, storeFrameData).
THEOREM Tiling == Spec => []SubMapsTileFrames
<1>1. ASSUME IInv PROVE SubMapsTileFrames
  <2> USE <1>1 DEF IInv
  <2> DEFINE n == Len(subMaps)
  <2>1. /\ Len(Pieces) = IF Building THEN n + 1 ELSE n
        /\ n \in Nat /\ (Pieces = <<>> <=> Len(Pieces) = 0)
        /\ \A p \in 1 .. Len(Pieces) :
             /\ p \in 1 .. n => Pieces[p] = subMaps[p]
             /\ p \notin 1 .. n => p = n + 1 /\ Building /\ Pieces[p] = cur
    BY PiecesAre, Zenon
  <2>2. End = IF n = 0 THEN 0 ELSE subMaps[n].last + 1
    BY EmptySeq DEF End, Last, TypeOK
  <2>3. \A p \in 1 .. Len(Pieces) :
          /\ Pieces[p].first = IF p = 1 THEN 0 ELSE Pieces[p - 1].last + 1
          /\ Pieces[p].first <= Pieces[p].last
    <3> SUFFICES ASSUME NEW p \in 1 .. Len(Pieces)
                 PROVE  /\ Pieces[p].first = IF p = 1 THEN 0 ELSE Pieces[p - 1].last + 1
                        /\ Pieces[p].first <= Pieces[p].last
      OBVIOUS
    <3>1. p = 1 \/ (p - 1 \in 1 .. n /\ p - 1 \in 1 .. Len(Pieces))
      BY <2>1
    <3>2. CASE p \in 1 .. n
      BY <2>1, <3>1, <3>2 DEF TileInv
    <3>3. CASE p \notin 1 .. n
      <4>1. p = n + 1 /\ Building /\ Pieces[p] = cur
        BY <2>1, <3>3
      <4>2. cur.first = End /\ cur.first <= cur.last
        BY <4>1 DEF TileInv
      <4>3. (p = 1 <=> n = 0) /\ (n # 0 => Pieces[p - 1] = subMaps[n])
        BY <2>1, <3>1, <4>1
      <4> QED
        BY <2>2, <4>1, <4>2, <4>3
    <3> QED
      BY <3>2, <3>3
  <2>4. Len(blocks) = IF Pieces = <<>> THEN 0 ELSE Last(Pieces).last + 1
    <3>1. CASE Building
      <4>1. Len(Pieces) \in 1 .. Len(Pieces) /\ Len(Pieces) \notin 1 .. n
        BY <2>1, <3>1
      <4>2. Last(Pieces) = cur /\ Pieces # <<>>
        BY <2>1, <4>1 DEF Last
      <4> QED
        BY <3>1, <4>2 DEF TileInv
    <3>2. CASE ~Building
      <4>1. Len(blocks) = End /\ Len(Pieces) = n
        BY <2>1, <3>2 DEF TileInv
      <4>2. n # 0 => Last(Pieces) = subMaps[n]
        BY <2>1, <4>1 DEF Last
      <4> QED
        BY <2>1, <2>2, <4>1, <4>2
    <3> QED
      BY <3>1, <3>2
  <2> QED
    BY <2>3, <2>4 DEF SubMapsTileFrames, StoreInv
<1> QED
  BY <1>1, Invariance, PTL

\* A loop edge joins distant submaps and different nodes, loops are spaced,
\* and submap-wise no edge found wrong is used again (detectLoopNN,
\* ConstraintFinder::update_optimized_edges).
THEOREM LoopsSound == Spec => []LoopEdgesSound
<1>1. ASSUME IInv PROVE LoopEdgesSound
  <2> USE <1>1, ConstantsAssumption DEF IInv
  <2>1. ASSUME NEW e \in edges, e.type # "ADJACENT"
        PROVE  e.b1 + MinSubmapIdDiff < e.b2 /\ e.b2 < Len(subMaps) /\ NodeOf(e.b1) < NodeOf(e.b2)
    <3>1. e.b1 \in Nat /\ e.b2 \in Nat /\ subMaps \in Seq(SubMap)
      BY DEF TypeOK, SubMap
    <3>2. Len(subMaps) \in Nat /\ \A s \in 1 .. Len(subMaps) : subMaps[s] \in SubMap
      BY <3>1, LenProperties, ElementOfSeq
    <3>3. e.b1 + MinSubmapIdDiff < e.b2 /\ e.b2 < Len(subMaps)
      BY <2>1, <3>1, <3>2 DEF LoopInv
    <3>4. e.b1 + 1 \in 1 .. Len(subMaps) /\ e.b2 + 1 \in 1 .. Len(subMaps) /\ e.b1 + 1 < e.b2 + 1
      BY <3>1, <3>2, <3>3
    <3>5. subMaps[e.b1 + 1].first < subMaps[e.b2 + 1].first
      <4>1. subMaps[e.b1 + 1].first <= subMaps[e.b1 + 1].last
        BY <3>4 DEF TileInv
      <4>2. subMaps[e.b1 + 1].last < subMaps[e.b2 + 1].first
        BY <3>4 DEF TileInv
      <4>3. /\ subMaps[e.b1 + 1].first \in Nat /\ subMaps[e.b1 + 1].last \in Nat
            /\ subMaps[e.b2 + 1].first \in Nat
        BY <3>2, <3>4 DEF SubMap
      <4> QED
        BY <4>1, <4>2, <4>3
    <3> QED
      BY <3>1, <3>3, <3>5 DEF NodeOf
  <2> QED
    BY <2>1 DEF LoopEdgesSound, LoopsFarApart, LoopInv
<1> QED
  BY <1>1, Invariance, PTL

\* In real time submaps stay rigid and, frame-wise, where the graph has their
\* first frames (correctFrameLoop, correctSubmapLoop).
THEOREM Followed == Spec => []SubMapsFollowGraph
<1>1. ASSUME IInv PROVE SubMapsFollowGraph
  <2> USE <1>1 DEF IInv
  <2>1. ASSUME realTime PROVE RelPosesRigid
    <3> SUFFICES ASSUME NEW p \in DOMAIN Pieces, NEW i \in Pieces[p].first .. Pieces[p].last - 1
                 PROVE  relRigid[i + 1]
      BY DEF RelPosesRigid
    <3>1. CASE p \in 1 .. Len(subMaps)
      <4>1. Pieces[p] = subMaps[p]
        BY <3>1, PiecesAre
      <4> QED
        BY <2>1, <3>1, <4>1 DEF FollowInv
    <3>2. CASE p \notin 1 .. Len(subMaps)
      <4>1. Pieces[p] = cur /\ Building
        BY <3>2, PiecesAre
      <4> QED
        BY <2>1, <4>1 DEF FollowInv
    <3> QED
      BY <3>1, <3>2
  <2>2. ASSUME realTime, framewise PROVE SubMapFollowsFirstFrame
    <3>1. DOMAIN subMaps = 1 .. Len(subMaps)
      BY LenProperties DEF TypeOK
    <3> QED
      BY <2>2, <3>1 DEF FollowInv, SubMapFollowsFirstFrame
  <2> QED
    BY <2>1, <2>2 DEF SubMapsFollowGraph
<1> QED
  BY <1>1, Invariance, PTL

\* Cancelling and rejecting edges never breaks the chain of adjacent edges, and
\* an optimisation has edges enough (cancel_registration_constraint).
THEOREM Chain == Spec => []ChainComplete
<1>1. ASSUME IInv PROVE ChainComplete
  <2> USE <1>1 DEF IInv
  <2> DEFINE n == Len(subMaps)
             A == {x \in edges : x.type = "ADJACENT"}
             G == {e \in edges : e.type \in {"ADJACENT", "REGISTRATION"}}
             B == {e.b2 : e \in A}
             second == [e \in A |-> e.b2]
  <2>1. /\ n \in Nat /\ Len(blocks) \in Nat /\ IsFiniteSet(edges)
        /\ \A e \in A : e.b2 \in 1 .. n - 1 /\ e.b1 = e.b2 - 1
        /\ \A k \in 1 .. n - 1 : Edge("ADJACENT", k - 1, k, TRUE) \in A
    BY LenProperties DEF TypeOK, ChainInv, Edge
  <2>2. {<<e.b1, e.b2>> : e \in A} = {<<k - 1, k>> : k \in 1 .. n - 1}
    <3>1. ASSUME NEW e \in A PROVE <<e.b1, e.b2>> \in {<<k - 1, k>> : k \in 1 .. n - 1}
      BY <2>1
    <3>2. ASSUME NEW k \in 1 .. n - 1 PROVE <<k - 1, k>> \in {<<e.b1, e.b2>> : e \in A}
      <4>1. /\ Edge("ADJACENT", k - 1, k, TRUE) \in A
            /\ Edge("ADJACENT", k - 1, k, TRUE).b1 = k - 1 /\ Edge("ADJACENT", k - 1, k, TRUE).b2 = k
        BY <2>1 DEF Edge
      <4> QED
        BY <4>1
    <3> QED
      BY <3>1, <3>2
  <2>3. B = 1 .. n - 1
    <3>1. ASSUME NEW k \in 1 .. n - 1 PROVE k \in B
      <4>1. Edge("ADJACENT", k - 1, k, TRUE) \in A /\ Edge("ADJACENT", k - 1, k, TRUE).b2 = k
        BY <2>1 DEF Edge
      <4> QED
        BY <4>1
    <3> QED
      BY <2>1, <3>1
  <2>4. Cardinality(1 .. n - 1) = IF 1 > n - 1 THEN 0 ELSE n - 1
    <3> HIDE DEF n
    <3>1. n - 1 \in Int
      BY <2>1
    <3>2. Cardinality(1 .. n - 1) = IF 1 > n - 1 THEN 0 ELSE (n - 1) - 1 + 1
      BY <3>1, FS_Interval
    <3> QED
      BY <3>1, <3>2
  <2>5. /\ Cardinality(1 .. n - 1) <= Cardinality(A)
        /\ Cardinality(A) <= Cardinality(G) /\ Cardinality(A) \in Nat /\ Cardinality(G) \in Nat
    <3>1. IsFiniteSet(G) /\ Cardinality(G) \in Nat
      BY <2>1, FS_Subset, FS_CardinalityType
    <3>2. A \in SUBSET G
      OBVIOUS
    <3>3. IsFiniteSet(A) /\ Cardinality(A) \in Nat /\ Cardinality(A) <= Cardinality(G)
      BY <3>1, <3>2, FS_Subset, FS_CardinalityType
    <3>4. second \in Surjection(A, B)
      BY DEF Surjection
    <3>5. Cardinality(B) <= Cardinality(A)
      BY <3>3, <3>4, FS_Surjection
    <3> QED
      BY <2>3, <3>1, <3>3, <3>5
  <2>6. EnoughEdges
    <3>1. CASE framewise
      <4>1. Cardinality(Registration(edges)) \in Nat
        <5>1. Registration(edges) \in SUBSET edges
          BY DEF Registration
        <5> QED
          BY <2>1, <5>1, FS_Subset, FS_CardinalityType
      <4> QED
        BY <2>1, <3>1, <4>1 DEF EnoughEdges, EdgeCount, Nodes
    <3>2. CASE ~framewise
      <4>1. n - 1 <= Cardinality(G)
        <5> HIDE DEF A, G
        <5> QED
          BY <2>1, <2>4, <2>5
      <4> QED
        BY <3>2, <4>1 DEF EnoughEdges, EdgeCount, Nodes
    <3> QED
      BY <3>1, <3>2
  <2> QED
    BY <2>2, <2>6 DEF ChainComplete
<1> QED
  BY <1>1, Invariance, PTL

\* Submap-wise, the nodes an optimisation holds constant do not move
\* (min_index_for_loop, GlobalOptimize).
THEOREM HeldNodes == Spec => HeldNodesStay
<1>1. ASSUME IInv, [Next]_vars, ~framewise, Registration(edges) # {},
             NEW i \in DOMAIN Nodes, i - 1 <= MinLoopIndex
      PROVE  Nodes'[i].lo = Nodes[i].lo
  <2> USE <1>1 DEF IInv
  <2>1. /\ Nodes = subMaps /\ subMaps \in Seq(SubMap)
        /\ DOMAIN subMaps = 1 .. Len(subMaps) /\ i \in 1 .. Len(subMaps)
    BY LenProperties DEF Nodes, TypeOK, SubMap
  <2>2. framewise' = framewise
    BY DEF Next, AddFrame, CompleteSubMap, DetectLoopNN, CorrectRealTime, CorrectLoop, Done,
           frameVars, config, vars
  <2>3. Nodes' = subMaps'
    BY <2>2 DEF Nodes
  <2>4. CASE subMaps' = subMaps
    BY <2>1, <2>3, <2>4
  <2>5. CASE CompleteSubMap
    <3>1. PICK m : subMaps' = Append(subMaps, m) /\ m \in SubMap
      <4>1. [first |-> cur.first, last |-> cur.last, lo |-> cur.lo, init |-> cur.lo] \in SubMap
        BY DEF TypeOK, SubMap
      <4> QED
        BY <2>5, <4>1 DEF CompleteSubMap
    <3>2. subMaps'[i] = subMaps[i]
      BY <2>1, <3>1, AppendProperties
    <3> QED
      BY <2>1, <2>3, <3>2
  <2>6. CASE MoveNodes
    <3>1. subMaps' = [s \in DOMAIN subMaps |->
                        [subMaps[s] EXCEPT !.lo = Optimized(s - 1), !.init = Optimized(s - 1)]]
      BY <2>6 DEF MoveNodes
    <3>2. Optimized(i - 1) = subMaps[i].init
      <4>1. (i - 1) + 1 = i
        BY <2>1
      <4> QED
        BY <2>1, <4>1 DEF Optimized
    <3>3. subMaps[i].init = subMaps[i].lo /\ subMaps[i] \in SubMap
      BY <2>1, ElementOfSeq DEF GuessInv
    <3>4. subMaps'[i].lo = Optimized(i - 1)
      BY <2>1, <3>1, <3>3 DEF SubMap
    <3> QED
      BY <2>1, <2>3, <3>2, <3>3, <3>4
  <2> QED
    BY <2>4, <2>5, <2>6
    DEF Next, AddFrame, DetectLoopNN, CorrectRealTime, CorrectLoop, Optimize, OptimizeFails, Done, vars
<1>2. IInv /\ [Next]_vars =>
        [~framewise /\ Registration(edges) # {} =>
           \A i \in DOMAIN Nodes : i - 1 <= MinLoopIndex => Nodes'[i].lo = Nodes[i].lo]_vars
  BY <1>1
<1> QED
  BY <1>2, Invariance, PTL DEF Spec, HeldNodesStay
=============================================================================
