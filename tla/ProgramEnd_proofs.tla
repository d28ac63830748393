-------------------------- MODULE ProgramEnd_proofs --------------------------
(***************************************************************************)
(* Proofs about ProgramEnd for any number of scans, corrections and        *)
(* octrees.                                                                *)
(***************************************************************************)
EXTENDS ProgramEnd, TLAPS

(* The inductive invariant.                                                *)

\* The buffer is shorter than the scans registered while one is handed over,
\* and a frame being processed was popped with no correction waiting.
HandInv ==
  /\ pc = "input" => buffered < scans
  /\ loopPC \in {"process", "rebuild"} => scans > 0 /\ ~isUpdated
  /\ pc = "adopt" => isUpdated
  /\ isUpdated => scans > 0

\* What the wait for the loop thread establishes.
EndInv ==
  /\ finished <=> loopPC \in {"unborn", "done"}
  /\ pc = "wait" => loopPC # "unborn"
  /\ pc \in {"join", "gone"} => loopPC = "done" \/ orphaned
  /\ pc = "gone" => released \in {"none", "done"}

\* How far the release thread is with the front end's map.
ReleaseInv ==
  /\ method = "voxel" => released = "none"
  /\ released \in {"none", "started"} => frontMap \subseteq live
  /\ released = "done" => frontMap = {}

\* Who owns the octrees: a published map is the loop thread's alone, and
\* every other octree the front end's.
OwnerInv ==
  /\ isUpdated => loopMap \subseteq live /\ loopMap \cap frontMap = {}
  /\ method = "voxel" =>
       /\ live \subseteq frontMap \cup loopMap
       /\ ~isUpdated => live \subseteq frontMap
       /\ scans > 0 => frontMap # {}
       /\ isUpdated => loopMap # {}

IInv == TypeOK /\ HandInv /\ EndInv /\ (~collided => ReleaseInv /\ OwnerInv)

-----------------------------------------------------------------------------
(* Allocation.                                                             *)

\* New octrees are none of those there were.
LEMMA NewFresh ==
  ASSUME TypeOK, NEW n \in Nat, Allocate(n)
  PROVE  /\ made' \in made .. MaxOctrees
         /\ New(n) \subseteq 1 .. made'
         /\ New(n) \cap (1 .. made) = {}
         /\ n > 0 => New(n) # {}
         /\ live' = live \cup New(n) /\ live' \subseteq 1 .. made'
         /\ n = 0 => New(n) = {} /\ made' = made /\ live' = live
<1>1. made \in Nat
  BY DEF TypeOK
<1>2. n > 0 => made + 1 \in New(n)
  BY <1>1 DEF New
<1>3. n = 0 => New(n) = {}
  BY <1>1 DEF New
<1> QED
  BY <1>1, <1>2, <1>3, ConstantsAssumption DEF TypeOK, Allocate, New

\* A smaller range is part of a larger one.
LEMMA RangeGrows ==
  ASSUME NEW a \in Nat, NEW b \in Nat, a <= b
  PROVE  1 .. a \subseteq 1 .. b
OBVIOUS

-----------------------------------------------------------------------------
(* The invariant is inductive.                                             *)

LEMMA Initially == Init => IInv
<1> SUFFICES ASSUME Init PROVE IInv
  OBVIOUS
<1>1. /\ offline \in BOOLEAN /\ realTime \in BOOLEAN /\ isUpdated = FALSE /\ finished = TRUE
      /\ requested = FALSE /\ orphaned = FALSE /\ collided = FALSE
  BY DEF Init
<1>2. {offline, realTime, isUpdated, finished, requested, orphaned, collided} \subseteq BOOLEAN
  BY <1>1, Zenon
<1>3. TypeOK
  BY <1>2, ConstantsAssumption DEF Init, TypeOK
<1>4. HandInv /\ EndInv /\ ReleaseInv /\ OwnerInv
  BY DEF Init, HandInv, EndInv, ReleaseInv, OwnerInv
<1> QED
  BY <1>3, <1>4 DEF IInv

LEMMA Inductive == IInv /\ [Next]_vars => IInv'
<1> SUFFICES ASSUME IInv, [Next]_vars PROVE IInv'
  OBVIOUS
<1> USE ConstantsAssumption DEF vars, config, mainVars, loopVars, handVars, endVars, mapVars,
        Goto, LoopGoto, MayPop, MayFinish, ProcessLocked
<1>u. CASE UNCHANGED vars
  BY <1>u DEF IInv, TypeOK, HandInv, EndInv, ReleaseInv, OwnerInv
<1> SUFFICES ASSUME ~Over, Main \/ Loop \/ Release PROVE IInv'
  BY <1>u DEF Next, Done
<1>o. ~collided /\ pc # "gone"
  BY DEF Over
<1>1. CASE CheckMatchMethod
  <2> USE <1>1, <1>o DEF CheckMatchMethod, IInv
  <2>1. TypeOK'
    BY DEF TypeOK
  <2>2. HandInv'
    BY DEF TypeOK, HandInv
  <2>3. EndInv'
    BY DEF EndInv
  <2>4. ~collided' => ReleaseInv'
    BY DEF ReleaseInv, HandInv, OwnerInv
  <2>5. ~collided' => OwnerInv'
    BY DEF TypeOK, HandInv, ReleaseInv, OwnerInv
  <2> QED
    BY <2>1, <2>2, <2>3, <2>4, <2>5
<1>2. CASE InputFrameData
  <2> USE <1>2, <1>o DEF InputFrameData, IInv
  <2>1. TypeOK'
    BY DEF TypeOK, HandInv
  <2>2. HandInv'
    BY DEF TypeOK, HandInv
  <2>3. EndInv'
    BY DEF EndInv
  <2>4. ~collided' => ReleaseInv'
    BY DEF ReleaseInv, HandInv, OwnerInv
  <2>5. ~collided' => OwnerInv'
    BY DEF TypeOK, HandInv, ReleaseInv, OwnerInv
  <2> QED
    BY <2>1, <2>2, <2>3, <2>4, <2>5
<1>3. CASE EndLoop
  <2> USE <1>3, <1>o DEF EndLoop, IInv
  <2>1. TypeOK'
    BY DEF TypeOK
  <2>2. HandInv'
    BY DEF TypeOK, HandInv
  <2>3. EndInv'
    BY DEF EndInv
  <2>4. ~collided' => ReleaseInv'
    BY DEF ReleaseInv, HandInv, OwnerInv
  <2>5. ~collided' => OwnerInv'
    BY DEF TypeOK, HandInv, ReleaseInv, OwnerInv
  <2> QED
    BY <2>1, <2>2, <2>3, <2>4, <2>5
<1>4. CASE CorrectLoop
  <2> USE <1>4, <1>o DEF CorrectLoop, IInv
  <2>1. TypeOK'
    BY DEF TypeOK
  <2>2. HandInv'
    BY DEF TypeOK, HandInv
  <2>3. EndInv'
    BY DEF EndInv
  <2>4. ~collided' => ReleaseInv'
    BY DEF ReleaseInv, HandInv, OwnerInv
  <2>5. ~collided' => OwnerInv'
    BY DEF TypeOK, HandInv, ReleaseInv, OwnerInv
  <2> QED
    BY <2>1, <2>2, <2>3, <2>4, <2>5
<1>5. CASE RequestFinish
  <2> USE <1>5, <1>o DEF RequestFinish, IInv
  <2>1. TypeOK'
    BY DEF TypeOK
  <2>2. HandInv'
    BY DEF TypeOK, HandInv
  <2>3. EndInv'
    BY DEF EndInv
  <2>4. ~collided' => ReleaseInv'
    BY DEF ReleaseInv, HandInv, OwnerInv
  <2>5. ~collided' => OwnerInv'
    BY DEF TypeOK, HandInv, ReleaseInv, OwnerInv
  <2> QED
    BY <2>1, <2>2, <2>3, <2>4, <2>5
<1>6. CASE WaitFinished
  <2> USE <1>6, <1>o DEF WaitFinished, IInv
  <2>1. TypeOK'
    BY DEF TypeOK
  <2>2. HandInv'
    BY DEF TypeOK, HandInv
  <2>3. EndInv'
    BY DEF EndInv
  <2>4. ~collided' => ReleaseInv'
    BY DEF ReleaseInv, HandInv, OwnerInv
  <2>5. ~collided' => OwnerInv'
    BY DEF TypeOK, HandInv, ReleaseInv, OwnerInv
  <2> QED
    BY <2>1, <2>2, <2>3, <2>4, <2>5
<1>7. CASE JoinRelease
  <2> USE <1>7, <1>o DEF JoinRelease, IInv
  <2>1. TypeOK'
    BY DEF TypeOK
  <2>2. HandInv'
    BY DEF TypeOK, HandInv
  <2>3. EndInv'
    BY DEF EndInv
  <2>4. ~collided' => ReleaseInv'
    BY DEF ReleaseInv, HandInv, OwnerInv
  <2>5. ~collided' => OwnerInv'
    BY DEF TypeOK, HandInv, ReleaseInv, OwnerInv
  <2> QED
    BY <2>1, <2>2, <2>3, <2>4, <2>5
<1>8. CASE LoopBegin
  <2> USE <1>8, <1>o DEF LoopBegin, IInv
  <2>1. TypeOK'
    BY DEF TypeOK
  <2>2. HandInv'
    BY DEF TypeOK, HandInv
  <2>3. EndInv'
    BY DEF EndInv
  <2>4. ~collided' => ReleaseInv'
    BY DEF ReleaseInv, HandInv, OwnerInv
  <2>5. ~collided' => OwnerInv'
    BY DEF TypeOK, HandInv, ReleaseInv, OwnerInv
  <2> QED
    BY <2>1, <2>2, <2>3, <2>4, <2>5
<1>9. CASE PopFrame
  <2> USE <1>9, <1>o DEF PopFrame, IInv
  <2>1. TypeOK'
    BY DEF TypeOK
  <2>2. HandInv'
    BY DEF TypeOK, HandInv
  <2>3. EndInv'
    BY DEF EndInv
  <2>4. ~collided' => ReleaseInv'
    BY DEF ReleaseInv, HandInv, OwnerInv
  <2>5. ~collided' => OwnerInv'
    BY DEF TypeOK, HandInv, ReleaseInv, OwnerInv
  <2> QED
    BY <2>1, <2>2, <2>3, <2>4, <2>5
<1>10. CASE NothingToPop
  <2> USE <1>10, <1>o DEF NothingToPop, IInv
  <2>1. TypeOK'
    BY DEF TypeOK
  <2>2. HandInv'
    BY DEF TypeOK, HandInv
  <2>3. EndInv'
    BY DEF EndInv
  <2>4. ~collided' => ReleaseInv'
    BY DEF ReleaseInv, HandInv, OwnerInv
  <2>5. ~collided' => OwnerInv'
    BY DEF TypeOK, HandInv, ReleaseInv, OwnerInv
  <2> QED
    BY <2>1, <2>2, <2>3, <2>4, <2>5
<1>11. CASE NoCorrection
  <2> USE <1>11, <1>o DEF NoCorrection, IInv
  <2>1. TypeOK'
    BY DEF TypeOK
  <2>2. HandInv'
    BY DEF TypeOK, HandInv
  <2>3. EndInv'
    BY DEF EndInv
  <2>4. ~collided' => ReleaseInv'
    BY DEF ReleaseInv, HandInv, OwnerInv
  <2>5. ~collided' => OwnerInv'
    BY DEF TypeOK, HandInv, ReleaseInv, OwnerInv
  <2> QED
    BY <2>1, <2>2, <2>3, <2>4, <2>5
<1>12. CASE CorrectLoopFound
  <2> USE <1>12, <1>o DEF CorrectLoopFound, IInv, Cleared
  <2>1. TypeOK'
    BY DEF TypeOK
  <2>2. HandInv'
    BY DEF TypeOK, HandInv
  <2>3. EndInv'
    BY DEF EndInv
  <2>4. ~collided' => ReleaseInv'
    BY DEF ReleaseInv, HandInv, OwnerInv
  <2>5. ~collided' => OwnerInv'
    BY DEF TypeOK, HandInv, ReleaseInv, OwnerInv
  <2> QED
    BY <2>1, <2>2, <2>3, <2>4, <2>5
<1>13. CASE SetFinish
  <2> USE <1>13, <1>o DEF SetFinish, IInv
  <2>1. TypeOK'
    BY DEF TypeOK
  <2>2. HandInv'
    BY DEF TypeOK, HandInv
  <2>3. EndInv'
    BY DEF EndInv
  <2>4. ~collided' => ReleaseInv'
    BY DEF ReleaseInv, HandInv, OwnerInv
  <2>5. ~collided' => OwnerInv'
    BY DEF TypeOK, HandInv, ReleaseInv, OwnerInv
  <2> QED
    BY <2>1, <2>2, <2>3, <2>4, <2>5
<1>14. CASE PollAgain
  <2> USE <1>14, <1>o DEF PollAgain, IInv
  <2>1. TypeOK'
    BY DEF TypeOK
  <2>2. HandInv'
    BY DEF TypeOK, HandInv
  <2>3. EndInv'
    BY DEF EndInv
  <2>4. ~collided' => ReleaseInv'
    BY DEF ReleaseInv, HandInv, OwnerInv
  <2>5. ~collided' => OwnerInv'
    BY DEF TypeOK, HandInv, ReleaseInv, OwnerInv
  <2> QED
    BY <2>1, <2>2, <2>3, <2>4, <2>5
<1>15. CASE ReleaseBegin
  <2> USE <1>15, <1>o DEF ReleaseBegin, IInv
  <2>1. TypeOK'
    BY DEF TypeOK
  <2>2. HandInv'
    BY DEF TypeOK, HandInv
  <2>3. EndInv'
    BY DEF EndInv
  <2>4. ~collided' => ReleaseInv'
    BY DEF ReleaseInv, HandInv, OwnerInv
  <2>5. ~collided' => OwnerInv'
    BY DEF TypeOK, HandInv, ReleaseInv, OwnerInv
  <2> QED
    BY <2>1, <2>2, <2>3, <2>4, <2>5
<1>16. CASE DeleteOctree
  <2> USE <1>16, <1>o DEF DeleteOctree, IInv
  <2>1. TypeOK'
    BY DEF TypeOK
  <2>2. HandInv'
    BY DEF TypeOK, HandInv
  <2>3. EndInv'
    BY DEF EndInv
  <2>4. ~collided' => ReleaseInv'
    BY DEF ReleaseInv, HandInv, OwnerInv
  <2>5. ~collided' => OwnerInv'
    BY DEF TypeOK, HandInv, ReleaseInv, OwnerInv
  <2> QED
    BY <2>1, <2>2, <2>3, <2>4, <2>5
<1>17. CASE SwapEmpty
  <2> USE <1>17, <1>o DEF SwapEmpty, IInv
  <2>1. TypeOK'
    BY DEF TypeOK
  <2>2. HandInv'
    BY DEF TypeOK, HandInv
  <2>3. EndInv'
    BY DEF EndInv
  <2>4. ~collided' => ReleaseInv'
    BY DEF ReleaseInv, HandInv, OwnerInv
  <2>5. ~collided' => OwnerInv'
    BY DEF TypeOK, HandInv, ReleaseInv, OwnerInv
  <2> QED
    BY <2>1, <2>2, <2>3, <2>4, <2>5
<1>18. CASE AdoptMap
  <2> USE <1>18, <1>o DEF AdoptMap, IInv, Adopted
  <2>1. TypeOK'
    <3>1. collided' \in BOOLEAN /\ isUpdated' \in BOOLEAN
      <4>1. collided' = (released \in {"deleting", "swap"}) /\ isUpdated' = FALSE
        BY <1>18 DEF AdoptMap
      <4>2. CASE released \in {"deleting", "swap"}
        BY <4>1, <4>2, Zenon
      <4>3. CASE ~(released \in {"deleting", "swap"})
        <5>1. (released \in {"deleting", "swap"}) = FALSE
          BY <4>3
        <5> QED
          BY <4>1, <5>1, Zenon
      <4> QED
        BY <4>2, <4>3
    <3>2. {offline, realTime, isUpdated, finished, requested, orphaned, collided}' \subseteq BOOLEAN
      BY <3>1, Zenon DEF TypeOK
    <3>3. live' \subseteq 1 .. made /\ frontMap' \subseteq 1 .. made
      BY DEF TypeOK
    <3> QED
      BY <3>2, <3>3 DEF TypeOK
  <2>2. HandInv'
    BY DEF TypeOK, HandInv
  <2>3. EndInv'
    BY DEF EndInv
  <2>4. ~collided' => ReleaseInv'
    BY DEF ReleaseInv, HandInv, OwnerInv
  <2>5. ~collided' => OwnerInv'
    BY DEF TypeOK, HandInv, ReleaseInv, OwnerInv
  <2> QED
    BY <2>1, <2>2, <2>3, <2>4, <2>5
<1>19. CASE RegisterScan
  <2> USE <1>19, <1>o
  <2>n. PICK n \in Nat :
           /\ Allocate(n) /\ frontMap' = frontMap \cup New(n)
           /\ scans = 0 /\ method = "voxel" => n > 0
           /\ method = "kd" => n = 0
    BY DEF RegisterScan, TypeOK, IInv
  <2>f. /\ made' \in made .. MaxOctrees
        /\ New(n) \subseteq 1 .. made' /\ New(n) \cap (1 .. made) = {}
        /\ n > 0 => New(n) # {}
        /\ live' = live \cup New(n) /\ live' \subseteq 1 .. made'
        /\ n = 0 => New(n) = {} /\ made' = made /\ live' = live
    BY <2>n, NewFresh DEF IInv
  <2>g. 1 .. made \subseteq 1 .. made'
    BY <2>f DEF IInv, TypeOK
  <2> USE <2>n, <2>f, <2>g DEF RegisterScan, IInv
  <2> HIDE DEF Allocate, New
  <2>1. TypeOK'
    <3>1. {offline, realTime, isUpdated, finished, requested, orphaned, collided}' \subseteq BOOLEAN
      BY <1>19, Zenon DEF RegisterScan, TypeOK
    <3>2. frontMap' \subseteq 1 .. made' /\ loopMap' \subseteq 1 .. made'
      BY DEF TypeOK
    <3>3. made' \in 0 .. MaxOctrees
      BY DEF TypeOK
    <3>4. scans' \in 0 .. MaxScans /\ buffered \in 0 .. scans'
      BY DEF TypeOK
    <3> QED
      BY <3>1, <3>2, <3>3, <3>4 DEF TypeOK
  <2>2. HandInv'
    BY DEF TypeOK, HandInv
  <2>3. EndInv'
    BY DEF EndInv
  <2>4. ~collided' => ReleaseInv'
    BY DEF ReleaseInv, HandInv, OwnerInv, TypeOK
  <2>5. ~collided' => OwnerInv'
    <3>1. ReleaseInv /\ OwnerInv /\ ~collided
      OBVIOUS
    <3>2. isUpdated => (loopMap \subseteq live /\ loopMap \cap frontMap = {})'
      BY <3>1 DEF OwnerInv, TypeOK
    <3>3. method = "voxel" => live' \subseteq frontMap' \cup loopMap /\ (~isUpdated => live' \subseteq frontMap')
      BY <3>1 DEF OwnerInv
    <3>4. method = "voxel" => frontMap' # {}
      BY <3>1 DEF OwnerInv, TypeOK
    <3> QED
      BY <3>1, <3>2, <3>3, <3>4 DEF OwnerInv
  <2> QED
    BY <2>1, <2>2, <2>3, <2>4, <2>5
<1>20. CASE TakeCorrection
  <2> USE <1>20, <1>o
  <2>n. PICK n \in Nat :
           /\ Allocate(n) /\ loopMap' = loopMap \cup New(n)
           /\ ~isUpdated => n = 0
    BY DEF TakeCorrection, TypeOK, IInv
  <2>f. /\ made' \in made .. MaxOctrees
        /\ New(n) \subseteq 1 .. made' /\ New(n) \cap (1 .. made) = {}
        /\ n > 0 => New(n) # {}
        /\ live' = live \cup New(n) /\ live' \subseteq 1 .. made'
        /\ n = 0 => New(n) = {} /\ made' = made /\ live' = live
    BY <2>n, NewFresh DEF IInv
  <2>g. 1 .. made \subseteq 1 .. made'
    BY <2>f DEF IInv, TypeOK
  <2> USE <2>n, <2>f, <2>g DEF TakeCorrection, IInv
  <2> HIDE DEF Allocate, New
  <2>1. TypeOK'
    <3>1. {offline, realTime, isUpdated, finished, requested, orphaned, collided}' \subseteq BOOLEAN
      BY <1>20, Zenon DEF TakeCorrection, TypeOK
    <3>2. frontMap' \subseteq 1 .. made' /\ loopMap' \subseteq 1 .. made'
      BY DEF TypeOK
    <3>3. made' \in 0 .. MaxOctrees
      BY DEF TypeOK
    <3> QED
      BY <3>1, <3>2, <3>3 DEF TypeOK
  <2>2. HandInv'
    BY DEF TypeOK, HandInv
  <2>3. EndInv'
    BY DEF EndInv
  <2>4. ~collided' => ReleaseInv'
    BY DEF ReleaseInv, HandInv, OwnerInv, TypeOK
  <2>5. ~collided' => OwnerInv'
    BY DEF TypeOK, HandInv, ReleaseInv, OwnerInv
  <2> QED
    BY <2>1, <2>2, <2>3, <2>4, <2>5
<1>21. CASE InsertScan
  <2> USE <1>21, <1>o
  <2>n. PICK n \in Nat :
           /\ Allocate(n) /\ frontMap' = frontMap \cup New(n)
           /\ method = "kd" => n = 0
    BY DEF InsertScan, TypeOK, IInv
  <2>f. /\ made' \in made .. MaxOctrees
        /\ New(n) \subseteq 1 .. made' /\ New(n) \cap (1 .. made) = {}
        /\ n > 0 => New(n) # {}
        /\ live' = live \cup New(n) /\ live' \subseteq 1 .. made'
        /\ n = 0 => New(n) = {} /\ made' = made /\ live' = live
    BY <2>n, NewFresh DEF IInv
  <2>g. 1 .. made \subseteq 1 .. made'
    BY <2>f DEF IInv, TypeOK
  <2> USE <2>n, <2>f, <2>g DEF InsertScan, IInv
  <2> HIDE DEF Allocate, New
  <2>1. TypeOK'
    <3>1. {offline, realTime, isUpdated, finished, requested, orphaned, collided}' \subseteq BOOLEAN
      BY <1>21, Zenon DEF InsertScan, TypeOK
    <3>2. frontMap' \subseteq 1 .. made' /\ loopMap' \subseteq 1 .. made'
      BY DEF TypeOK
    <3>3. made' \in 0 .. MaxOctrees
      BY DEF TypeOK
    <3> QED
      BY <3>1, <3>2, <3>3 DEF TypeOK
  <2>2. HandInv'
    BY DEF TypeOK, HandInv
  <2>3. EndInv'
    BY DEF EndInv
  <2>4. ~collided' => ReleaseInv'
    BY DEF ReleaseInv, HandInv, OwnerInv, TypeOK
  <2>5. ~collided' => OwnerInv'
    BY DEF TypeOK, HandInv, ReleaseInv, OwnerInv
  <2> QED
    BY <2>1, <2>2, <2>3, <2>4, <2>5
<1>22. CASE RebuildAndPublish
  <2> USE <1>22, <1>o
  <2>p. PICK n \in IF made = 0 THEN {0} ELSE 1 .. 2 : Allocate(n) /\ loopMap' = New(n)
    BY DEF RebuildAndPublish
  <2>n. /\ n \in Nat /\ Allocate(n) /\ loopMap' = New(n)
        /\ live # {} => n > 0
    <3>1. live # {} => made # 0
      <4>1. live \subseteq 1 .. made
        BY DEF IInv, TypeOK
      <4>2. \A i : i \notin 1 .. 0
        OBVIOUS
      <4> QED
        BY <4>1, <4>2
    <3> QED
      BY <2>p, <3>1
  <2>f. /\ made' \in made .. MaxOctrees
        /\ New(n) \subseteq 1 .. made' /\ New(n) \cap (1 .. made) = {}
        /\ n > 0 => New(n) # {}
        /\ live' = live \cup New(n) /\ live' \subseteq 1 .. made'
        /\ n = 0 => New(n) = {} /\ made' = made /\ live' = live
    BY <2>n, NewFresh DEF IInv
  <2>g. 1 .. made \subseteq 1 .. made'
    BY <2>f DEF IInv, TypeOK
  <2> USE <2>n, <2>f, <2>g DEF RebuildAndPublish, IInv
  <2> HIDE DEF Allocate, New
  <2>1. TypeOK'
    <3>1. {offline, realTime, isUpdated, finished, requested, orphaned, collided}' \subseteq BOOLEAN
      BY <1>22, Zenon DEF RebuildAndPublish, TypeOK
    <3>2. frontMap' \subseteq 1 .. made' /\ loopMap' \subseteq 1 .. made'
      BY DEF TypeOK
    <3>3. made' \in 0 .. MaxOctrees
      BY DEF TypeOK
    <3> QED
      BY <3>1, <3>2, <3>3 DEF TypeOK
  <2>2. HandInv'
    BY DEF TypeOK, HandInv
  <2>3. EndInv'
    BY DEF EndInv
  <2>4. ~collided' => ReleaseInv'
    BY DEF ReleaseInv, HandInv, OwnerInv, TypeOK
  <2>5. ~collided' => OwnerInv'
    BY DEF TypeOK, HandInv, ReleaseInv, OwnerInv
  <2> QED
    BY <2>1, <2>2, <2>3, <2>4, <2>5
<1> QED
  BY <1>1, <1>2, <1>3, <1>4, <1>5, <1>6, <1>7, <1>8, <1>9, <1>10, <1>11, <1>12, <1>13, <1>14, <1>15, <1>16, <1>17, <1>18, <1>19, <1>20, <1>21, <1>22 DEF Main, Loop, Release

-----------------------------------------------------------------------------
(* The theorems.                                                           *)

(* The invariant holds of every state of the programs. *)
THEOREM Invariance == Spec => []IInv
<1> QED
  BY Initially, Inductive, PTL DEF Spec

(* The types, for any number of scans, corrections and octrees. *)
THEOREM TypeCorrect == Spec => []TypeOK
<1>1. IInv => TypeOK
  BY DEF IInv
<1> QED
  BY <1>1, Invariance, PTL

(* What is used is alive and what is alive is used: no octree of a map scans
   are matched to was deleted, none is lost, and no thread is left when the
   program is gone, for any number of scans, corrections and octrees. *)
THEOREM InUse == Spec => []InUseAlive
<1>1. IInv => InUseAlive
  BY DEF IInv, InUseAlive, EndInv, ReleaseInv, OwnerInv
<1> QED
  BY <1>1, Invariance, PTL

=============================================================================
