-------------------------- MODULE IkdRebuild_proofs --------------------------
(***************************************************************************)
(* Proofs about IkdRebuild for any set of points and boxes, any finite set *)
(* of searchers and any number of operations.                              *)
(***************************************************************************)
EXTENDS IkdRebuild, FiniteSetTheorems, TLAPS

(* The inductive invariant.                                                *)

\* The stretch of a rebuild in which the rebuild thread owns Rebuild_Ptr.
Rebuilding == {"toFlatten", "flatten", "build", "relock", "replay", "run",
               "toSwap", "swap", "swapped"}

Blocked == {"flatten", "swap", "swapped"}

\* What each position of the rebuild thread says of the locks and flags.
FlagInv ==
  /\ workingLock <=>
       rebPc \in {"toFlatten", "flatten", "replay", "toSwap", "swap", "swapped"}
  /\ rebuildLock <=> rebPc # "sleep"
  /\ rebuildFlag <=> rebPc \in Rebuilding \cup {"published", "crashed"}
  /\ rebPc \in Rebuilding => rebuildPtr
  /\ rebPc \in {"published", "cleared"} => ~rebuildPtr

Counted == {s \in Searchers : walk[s] = "counted"}

\* The counter counts the searches inside, and no rebuild can be asked for
\* while one walks the subtree without having counted itself.
SearchInv ==
  /\ searchCounter = -1 <=> rebPc \in Blocked
  /\ searchCounter = -1 => Counted = {}
  /\ searchCounter # -1 => searchCounter = Cardinality(Counted)
  /\ mainPc # "match" => \A s \in Searchers : walk[s] = "off"
  /\ \A s \in Searchers : walk[s] = "direct" => ~rebuildPtr

\* A range search of a subtree that may be rebuilt holds search_flag_mutex; an
\* operation that waits was begun within the bound.
RangeInv ==
  /\ mainPc = "lock" => ops < MaxOps
  /\ searchLock => mainPc = "range"
  /\ mainPc = "range" /\ rebuildPtr => searchLock
  /\ oldWalk => searchLock
  /\ rebPc \in {"published", "cleared"} => ~oldWalk

\* Unless an operation came too late, the log waits for the rebuild under way.
LogInv ==
  ~stale /\ logger # << >> =>
    rebPc \in {"build", "relock", "replay", "run", "crashed"}

IInv ==
  /\ TypeOK /\ FlagInv /\ SearchInv /\ RangeInv /\ LogInv /\ ReplayCatchesUp

-----------------------------------------------------------------------------
(* Operations and logs.                                                    *)

\* An entry decides the membership of the points it touches and of no other.
LEMMA RunMember ==
  ASSUME NEW S, NEW e \in Entry, NEW p
  PROVE  (p \in Run(S, e)) = (IF p \in e.pts THEN e.kind = "add" ELSE p \in S)
BY DEF Run, Entry, Add, Delete, PushDown

\* The subtree stays a set of points.
LEMMA RunType ==
  ASSUME NEW S \in SUBSET Points, NEW e \in Entry
  PROVE  Run(S, e) \in SUBSET Points
BY ConstantsAssumption DEF Run, Entry, Add, Delete, PushDown

\* An operation is one entry or two.
LEMMA OperationEntries ==
  ASSUME NEW op \in Operation
  PROVE  \/ \E e \in Entry : op = <<e>>
         \/ \E d, e \in Entry : op = <<d, e>>
<1>1. CASE op \in {<<Add(p)>> : p \in Points}
  BY <1>1 DEF Entry
<1>2. CASE op \in {<<Delete(b)>> : b \in Boxes}
  BY <1>2 DEF Entry
<1>3. CASE op = <<PushDown>>
  BY <1>3 DEF Entry
<1>4. CASE op \in UNION {{<<Delete(b), Add(p)>> : p \in b} : b \in Boxes}
  <2>1. PICK b \in Boxes : op \in {<<Delete(b), Add(p)>> : p \in b}
    BY <1>4
  <2>2. PICK p \in b : op = <<Delete(b), Add(p)>>
    BY <2>1
  <2>3. p \in Points
    BY <2>1, <2>2, ConstantsAssumption
  <2>4. Delete(b) \in Entry /\ Add(p) \in Entry
    BY <2>1, <2>3 DEF Entry
  <2> QED BY <2>2, <2>4
<1> QED BY <1>1, <1>2, <1>3, <1>4 DEF Operation

LEMMA RunAllType ==
  ASSUME NEW S \in SUBSET Points, NEW op \in Operation
  PROVE  RunAll(S, op) \in SUBSET Points
<1>1. CASE \E e \in Entry : op = <<e>>
  BY <1>1, RunType DEF RunAll
<1>2. CASE \E d, e \in Entry : op = <<d, e>>
  <2>1. PICK d \in Entry, e \in Entry : op = <<d, e>>
    BY <1>2
  <2>2. RunAll(S, op) = Run(Run(S, d), e)
    BY <2>1 DEF RunAll
  <2> QED BY <2>2, RunType
<1> QED BY <1>1, <1>2, OperationEntries

\* The last entry that touches a point decides its membership.
LEMMA LastDecides ==
  ASSUME NEW S, NEW log \in Seq(Entry), NEW p,
         NEW i \in Touching(log, p), \A j \in Touching(log, p) : j <= i
  PROVE  AfterLog(S, log, p) = (log[i].kind = "add")
<1>1. Touching(log, p) \subseteq Int
  BY DEF Touching
<1>2. Touching(log, p) # {}
  OBVIOUS
<1>3. AfterLog(S, log, p) <=>
        \E k \in Touching(log, p) :
          (\A j \in Touching(log, p) : j <= k) /\ log[k].kind = "add"
  BY <1>2 DEF AfterLog
<1>4. ASSUME NEW k \in Touching(log, p), \A j \in Touching(log, p) : j <= k
      PROVE  k = i
  BY <1>1, <1>4
<1>5. AfterLog(S, log, p) <=> log[i].kind = "add"
  BY <1>3, <1>4
<1>6. AfterLog(S, log, p) \in BOOLEAN
  BY <1>2 DEF AfterLog
<1> QED BY <1>5, <1>6

\* One more entry at the end of a log has the last word on what it touches.
LEMMA AfterAppend ==
  ASSUME NEW S, NEW log \in Seq(Entry), NEW e \in Entry, NEW p
  PROVE  AfterLog(S, Append(log, e), p) =
           (IF p \in e.pts THEN e.kind = "add" ELSE AfterLog(S, log, p))
<1> DEFINE long == Append(log, e)
<1>1. /\ long \in Seq(Entry) /\ Len(long) = Len(log) + 1
      /\ Len(log) \in Nat
      /\ DOMAIN long = 1 .. Len(log) + 1 /\ DOMAIN log = 1 .. Len(log)
      /\ long[Len(log) + 1] = e
      /\ \A i \in 1 .. Len(log) : long[i] = log[i]
  OBVIOUS
<1>2. CASE p \in e.pts
  <2>1. Len(log) + 1 \in Touching(long, p)
    BY <1>1, <1>2 DEF Touching
  <2>2. \A j \in Touching(long, p) : j <= Len(log) + 1 /\ j \in Int
    BY <1>1 DEF Touching
  <2>3. AfterLog(S, long, p) = (e.kind = "add")
    <3> HIDE DEF long
    <3>1. AfterLog(S, long, p) = (long[Len(log) + 1].kind = "add")
      BY <1>1, <2>1, <2>2, LastDecides
    <3> QED BY <3>1, <1>1
  <2> QED BY <1>2, <2>3
<1>3. CASE p \notin e.pts
  <2>1. Touching(long, p) = Touching(log, p)
    BY <1>1, <1>3 DEF Touching
  <2>2. \A i \in Touching(log, p) : long[i] = log[i]
    BY <1>1 DEF Touching
  <2>3. AfterLog(S, long, p) = AfterLog(S, log, p)
    BY <2>1, <2>2 DEF AfterLog
  <2> QED BY <1>3, <2>3
<1> QED BY <1>2, <1>3

\* The first entry of a log may as well be run before the rest is looked at.
LEMMA AfterHead ==
  ASSUME NEW S, NEW log \in Seq(Entry), NEW e \in Entry, NEW p
  PROVE  AfterLog(S, <<e>> \o log, p) = AfterLog(Run(S, e), log, p)
<1> DEFINE long == <<e>> \o log
<1>1. /\ long \in Seq(Entry) /\ Len(long) = Len(log) + 1
      /\ Len(log) \in Nat
      /\ DOMAIN long = 1 .. Len(log) + 1 /\ DOMAIN log = 1 .. Len(log)
      /\ long[1] = e
      /\ \A i \in 1 .. Len(log) : long[i + 1] = log[i]
  OBVIOUS
<1>2. \A i \in 1 .. Len(log) :
        (i + 1 \in Touching(long, p)) = (i \in Touching(log, p))
  BY <1>1 DEF Touching
<1>3. \A i \in Touching(long, p) :
        i = 1 \/ (i - 1 \in Touching(log, p) /\ i - 1 \in Int)
  <2> TAKE i \in Touching(long, p)
  <2>1. i \in 1 .. Len(log) + 1 /\ p \in long[i].pts
    BY <1>1 DEF Touching
  <2>2. CASE i # 1
    <3>1. i - 1 \in 1 .. Len(log) /\ (i - 1) + 1 = i
      BY <1>1, <2>1, <2>2
    <3> QED BY <1>2, <3>1
  <2> QED BY <2>2
<1>4. /\ Touching(log, p) \subseteq 1 .. Len(log)
      /\ Touching(long, p) \subseteq 1 .. Len(log) + 1
  BY <1>1 DEF Touching
<1>5. CASE Touching(log, p) = {}
  <2>1. Touching(long, p) \subseteq {1}
    BY <1>3, <1>5
  <2>2. (1 \in Touching(long, p)) = (p \in e.pts)
    BY <1>1 DEF Touching
  <2>3. CASE p \in e.pts
    <3>1. Touching(long, p) = {1}
      BY <2>1, <2>2, <2>3
    <3>2. AfterLog(S, long, p) = (long[1].kind = "add")
      <4> HIDE DEF long
      <4>1. 1 \in Touching(long, p) /\ \A j \in Touching(long, p) : j <= 1
        BY <3>1
      <4> QED BY <4>1, <1>1, LastDecides
    <3>3. AfterLog(S, long, p) = (e.kind = "add")
      BY <3>2, <1>1
    <3> QED BY <3>3, <1>5, <2>3, RunMember DEF AfterLog
  <2>4. CASE p \notin e.pts
    <3>1. Touching(long, p) = {}
      BY <2>1, <2>2, <2>4
    <3> QED BY <3>1, <1>5, <2>4, RunMember DEF AfterLog
  <2> QED BY <2>3, <2>4
<1>6. CASE Touching(log, p) # {}
  <2>1. Touching(long, p) # {}
    BY <1>2, <1>4, <1>6
  <2>2. ASSUME NEW i \in Touching(log, p), \A j \in Touching(log, p) : j <= i,
               log[i].kind = "add"
        PROVE  AfterLog(S, long, p)
    <3>1. i \in 1 .. Len(log) /\ i + 1 \in Touching(long, p)
      BY <1>2, <1>4
    <3>2. \A j \in Touching(long, p) : j <= i + 1
      BY <1>1, <1>3, <1>4, <2>2, <3>1
    <3>3. long[i + 1].kind = "add"
      BY <1>1, <2>2, <3>1
    <3> QED BY <3>1, <3>2, <3>3, <2>1 DEF AfterLog
  <2>3. ASSUME NEW i \in Touching(long, p), \A j \in Touching(long, p) : j <= i,
               long[i].kind = "add"
        PROVE  AfterLog(Run(S, e), log, p)
    <3>1. PICK k \in Touching(log, p) : TRUE
      BY <1>6
    <3>2. k + 1 \in Touching(long, p) /\ k \in 1 .. Len(log)
      BY <1>2, <1>4
    <3>3. i # 1
      BY <1>4, <2>3, <3>2
    <3>4. i - 1 \in Touching(log, p) /\ i - 1 \in 1 .. Len(log) /\ (i - 1) + 1 = i
      BY <1>3, <1>4, <3>3
    <3>5. \A j \in Touching(log, p) : j <= i - 1
      <4> TAKE j \in Touching(log, p)
      <4>1. j \in 1 .. Len(log) /\ j + 1 \in Touching(long, p)
        BY <1>2, <1>4
      <4>2. j + 1 <= i
        BY <4>1, <2>3
      <4> QED BY <4>1, <4>2, <3>4
    <3>6. log[i - 1].kind = "add"
      BY <1>1, <2>3, <3>4
    <3> QED BY <3>4, <3>5, <3>6, <1>6 DEF AfterLog
  <2>4. AfterLog(S, long, p) => AfterLog(Run(S, e), log, p)
    BY <2>1, <2>3 DEF AfterLog
  <2>5. AfterLog(Run(S, e), log, p) => AfterLog(S, long, p)
    BY <1>6, <2>2 DEF AfterLog
  <2>6. /\ AfterLog(S, long, p) \in BOOLEAN
        /\ AfterLog(Run(S, e), log, p) \in BOOLEAN
    BY <1>6, <2>1 DEF AfterLog
  <2> QED BY <2>4, <2>5, <2>6
<1> QED BY <1>5, <1>6

\* A log that does not touch p leaves its membership alone.
LEMMA AfterNothing ==
  ASSUME NEW S, NEW p
  PROVE  AfterLog(S, << >>, p) = (p \in S)
BY DEF AfterLog, Touching

-----------------------------------------------------------------------------
(* Each part of the invariant is kept by every step.                       *)

\* The locks and flags stay what the position of the rebuild thread says.
LEMMA FlagStep == IInv /\ [Next]_vars => FlagInv'
<1> SUFFICES ASSUME IInv, [Next]_vars
             PROVE  FlagInv'
  OBVIOUS
<1> USE ConstantsAssumption DEF IInv, FlagInv, Rebuilding, TypeOK, Alive,
     vars, treeVars, flagVars, mainVars, rangeVars
<1>1. ASSUME NEW op \in Operation, DirectOp(op) PROVE FlagInv'
  BY <1>1 DEF DirectOp
<1>2. ASSUME NEW op \in Operation, AwaitLock(op) PROVE FlagInv'
  BY <1>2 DEF AwaitLock
<1>3. CASE LockedOp
  BY <1>3 DEF LockedOp, Logged
<1>4. CASE StartRange
  BY <1>4 DEF StartRange
<1>5. CASE EndRange
  BY <1>5 DEF EndRange
<1>6. CASE StartMatch
  BY <1>6 DEF StartMatch
<1>7. CASE EndMatch
  BY <1>7 DEF EndMatch
<1>8. ASSUME NEW s \in Searchers, TestPtr(s) PROVE FlagInv'
  BY <1>8 DEF TestPtr
<1>9. ASSUME NEW s \in Searchers, EnterSearch(s) PROVE FlagInv'
  BY <1>9 DEF EnterSearch
<1>10. ASSUME NEW s \in Searchers, LeaveSearch(s) PROVE FlagInv'
  BY <1>10 DEF LeaveSearch, Departed
<1>11. CASE TakeRebuildLock
  BY <1>11 DEF TakeRebuildLock
<1>12. CASE NothingToRebuild
  BY <1>12 DEF NothingToRebuild
<1>13. CASE BeginRebuild
  BY <1>13 DEF BeginRebuild
<1>14. CASE BlockForCopy
  BY <1>14 DEF BlockForCopy, BlockSearch
<1>15. CASE Flatten
  BY <1>15 DEF Flatten
<1>16. CASE BuildTree
  BY <1>16 DEF BuildTree
<1>17. CASE Relock
  BY <1>17 DEF Relock
<1>18. CASE PopLogged
  BY <1>18 DEF PopLogged
<1>19. CASE RunLogged
  BY <1>19 DEF RunLogged
<1>20. CASE LoggerDrained
  BY <1>20 DEF LoggerDrained
<1>21. CASE BlockForSwap
  BY <1>21 DEF BlockForSwap, BlockSearch
<1>22. CASE Swap
  BY <1>22 DEF Swap
<1>23. CASE Publish
  BY <1>23 DEF Publish
<1>24. CASE ClearFlag
  BY <1>24 DEF ClearFlag
<1>25. CASE DeleteOld
  BY <1>25 DEF DeleteOld
<1>26. CASE Ended
  BY <1>26 DEF Ended
<1>27. CASE UNCHANGED vars
  BY <1>27
<1> QED
  BY <1>1, <1>2, <1>3, <1>4, <1>5, <1>6, <1>7, <1>8, <1>9, <1>10, <1>11,
       <1>12, <1>13, <1>14, <1>15, <1>16, <1>17, <1>18, <1>19, <1>20, <1>21,
            <1>22, <1>23, <1>24, <1>25, <1>26, <1>27 DEF Next, MainOp,
                 MainStep, SearchStep, RebuildStep

\* Nothing is deleted under a range search.
LEMMA RangeStep == IInv /\ [Next]_vars => RangeInv'
<1> SUFFICES ASSUME IInv, [Next]_vars
             PROVE  RangeInv'
  OBVIOUS
<1> USE ConstantsAssumption DEF IInv, FlagInv, Rebuilding, RangeInv, TypeOK,
     Alive, vars, treeVars, flagVars, mainVars, rangeVars
<1>1. ASSUME NEW op \in Operation, DirectOp(op) PROVE RangeInv'
  BY <1>1 DEF DirectOp
<1>2. ASSUME NEW op \in Operation, AwaitLock(op) PROVE RangeInv'
  BY <1>2 DEF AwaitLock
<1>3. CASE LockedOp
  BY <1>3 DEF LockedOp, Logged
<1>4. CASE StartRange
  BY <1>4 DEF StartRange
<1>5. CASE EndRange
  BY <1>5 DEF EndRange
<1>6. CASE StartMatch
  BY <1>6 DEF StartMatch
<1>7. CASE EndMatch
  BY <1>7 DEF EndMatch
<1>8. ASSUME NEW s \in Searchers, TestPtr(s) PROVE RangeInv'
  BY <1>8 DEF TestPtr
<1>9. ASSUME NEW s \in Searchers, EnterSearch(s) PROVE RangeInv'
  BY <1>9 DEF EnterSearch
<1>10. ASSUME NEW s \in Searchers, LeaveSearch(s) PROVE RangeInv'
  BY <1>10 DEF LeaveSearch, Departed
<1>11. CASE TakeRebuildLock
  BY <1>11 DEF TakeRebuildLock
<1>12. CASE NothingToRebuild
  BY <1>12 DEF NothingToRebuild
<1>13. CASE BeginRebuild
  BY <1>13 DEF BeginRebuild
<1>14. CASE BlockForCopy
  BY <1>14 DEF BlockForCopy, BlockSearch
<1>15. CASE Flatten
  BY <1>15 DEF Flatten
<1>16. CASE BuildTree
  BY <1>16 DEF BuildTree
<1>17. CASE Relock
  BY <1>17 DEF Relock
<1>18. CASE PopLogged
  BY <1>18 DEF PopLogged
<1>19. CASE RunLogged
  BY <1>19 DEF RunLogged
<1>20. CASE LoggerDrained
  BY <1>20 DEF LoggerDrained
<1>21. CASE BlockForSwap
  BY <1>21 DEF BlockForSwap, BlockSearch
<1>22. CASE Swap
  BY <1>22 DEF Swap
<1>23. CASE Publish
  BY <1>23 DEF Publish
<1>24. CASE ClearFlag
  BY <1>24 DEF ClearFlag
<1>25. CASE DeleteOld
  BY <1>25 DEF DeleteOld
<1>26. CASE Ended
  BY <1>26 DEF Ended
<1>27. CASE UNCHANGED vars
  BY <1>27
<1> QED
  BY <1>1, <1>2, <1>3, <1>4, <1>5, <1>6, <1>7, <1>8, <1>9, <1>10, <1>11,
       <1>12, <1>13, <1>14, <1>15, <1>16, <1>17, <1>18, <1>19, <1>20, <1>21,
            <1>22, <1>23, <1>24, <1>25, <1>26, <1>27 DEF Next, MainOp,
                 MainStep, SearchStep, RebuildStep

\* The log is empty outside a rebuild, but for operations that came too late.
LEMMA LogStep == IInv /\ [Next]_vars => LogInv'
<1> SUFFICES ASSUME IInv, [Next]_vars
             PROVE  LogInv'
  OBVIOUS
<1> USE ConstantsAssumption DEF IInv, FlagInv, Rebuilding, LogInv, TypeOK,
     Alive, vars, treeVars, flagVars, mainVars, rangeVars
<1>1. ASSUME NEW op \in Operation, DirectOp(op) PROVE LogInv'
  BY <1>1 DEF DirectOp
<1>2. ASSUME NEW op \in Operation, AwaitLock(op) PROVE LogInv'
  BY <1>2 DEF AwaitLock
<1>3. CASE LockedOp
  BY <1>3 DEF LockedOp, Logged
<1>4. CASE StartRange
  BY <1>4 DEF StartRange
<1>5. CASE EndRange
  BY <1>5 DEF EndRange
<1>6. CASE StartMatch
  BY <1>6 DEF StartMatch
<1>7. CASE EndMatch
  BY <1>7 DEF EndMatch
<1>8. ASSUME NEW s \in Searchers, TestPtr(s) PROVE LogInv'
  BY <1>8 DEF TestPtr
<1>9. ASSUME NEW s \in Searchers, EnterSearch(s) PROVE LogInv'
  BY <1>9 DEF EnterSearch
<1>10. ASSUME NEW s \in Searchers, LeaveSearch(s) PROVE LogInv'
  BY <1>10 DEF LeaveSearch, Departed
<1>11. CASE TakeRebuildLock
  BY <1>11 DEF TakeRebuildLock
<1>12. CASE NothingToRebuild
  BY <1>12 DEF NothingToRebuild
<1>13. CASE BeginRebuild
  BY <1>13 DEF BeginRebuild
<1>14. CASE BlockForCopy
  BY <1>14 DEF BlockForCopy, BlockSearch
<1>15. CASE Flatten
  BY <1>15 DEF Flatten
<1>16. CASE BuildTree
  BY <1>16 DEF BuildTree
<1>17. CASE Relock
  BY <1>17 DEF Relock
<1>18. CASE PopLogged
  BY <1>18 DEF PopLogged
<1>19. CASE RunLogged
  BY <1>19 DEF RunLogged
<1>20. CASE LoggerDrained
  BY <1>20 DEF LoggerDrained
<1>21. CASE BlockForSwap
  BY <1>21 DEF BlockForSwap, BlockSearch
<1>22. CASE Swap
  BY <1>22 DEF Swap
<1>23. CASE Publish
  BY <1>23 DEF Publish
<1>24. CASE ClearFlag
  BY <1>24 DEF ClearFlag
<1>25. CASE DeleteOld
  BY <1>25 DEF DeleteOld
<1>26. CASE Ended
  BY <1>26 DEF Ended
<1>27. CASE UNCHANGED vars
  BY <1>27
<1> QED
  BY <1>1, <1>2, <1>3, <1>4, <1>5, <1>6, <1>7, <1>8, <1>9, <1>10, <1>11,
       <1>12, <1>13, <1>14, <1>15, <1>16, <1>17, <1>18, <1>19, <1>20, <1>21,
            <1>22, <1>23, <1>24, <1>25, <1>26, <1>27 DEF Next, MainOp,
                 MainStep, SearchStep, RebuildStep

\* No operation is empty.
LEMMA OperationNotEmpty ==
  ASSUME NEW op \in Operation
  PROVE  op # << >>
<1>1. CASE \E e \in Entry : op = <<e>>
  BY <1>1
<1>2. CASE \E d, e \in Entry : op = <<d, e>>
  <2>1. PICK d \in Entry, e \in Entry : op = <<d, e>>
    BY <1>2
  <2>2. Len(op) = 2
    BY <2>1
  <2> QED BY <2>2
<1> QED BY <1>1, <1>2, OperationEntries

\* The log grows by whole operations.
LEMMA LogType ==
  ASSUME NEW op \in Operation, logger \in Seq(Entry)
  PROVE  Logged(op) \in Seq(Entry)
<1>1. CASE \E e \in Entry : op = <<e>>
  BY <1>1 DEF Logged
<1>2. CASE \E d, e \in Entry : op = <<d, e>>
  BY <1>2 DEF Logged
<1> QED BY <1>1, <1>2, OperationEntries

\* The searches inside are finitely many, at most all of them.
LEMMA CountedFinite ==
  /\ IsFiniteSet(Counted) /\ Cardinality(Counted) \in Nat
  /\ Cardinality(Counted) <= Cardinality(Searchers)
  /\ Cardinality(Searchers) \in Nat
<1>1. Counted \subseteq Searchers /\ IsFiniteSet(Searchers)
  BY ConstantsAssumption DEF Counted
<1> QED BY <1>1, FS_Subset, FS_CardinalityType

\* An operation is a piece of a log.
LEMMA OperationType ==
  ASSUME NEW op \in Operation
  PROVE  op \in Seq(Entry)
<1>1. CASE \E e \in Entry : op = <<e>>
  BY <1>1
<1>2. CASE \E d, e \in Entry : op = <<d, e>>
  BY <1>2
<1> QED BY <1>1, <1>2, OperationEntries

\* The counter goes on counting the searches inside.
LEMMA CounterStep == IInv /\ [Next]_vars => SearchInv'
<1> SUFFICES ASSUME IInv, [Next]_vars
             PROVE  SearchInv'
  OBVIOUS
<1> USE ConstantsAssumption DEF IInv, FlagInv, Rebuilding, Blocked, TypeOK,
     Alive, vars, treeVars, flagVars, mainVars, rangeVars, SearchInv
<1>1. ASSUME NEW op \in Operation, DirectOp(op) PROVE SearchInv'
  <2>1. Counted' = Counted
    BY <1>1 DEF DirectOp, Counted, TypeOK
  <2> QED BY <1>1, <2>1 DEF DirectOp
<1>2. ASSUME NEW op \in Operation, AwaitLock(op) PROVE SearchInv'
  <2>1. Counted' = Counted
    BY <1>2 DEF AwaitLock, Counted, TypeOK
  <2> QED BY <1>2, <2>1 DEF AwaitLock
<1>3. CASE LockedOp
  <2>1. Counted' = Counted
    BY <1>3 DEF LockedOp, Logged, Counted, TypeOK
  <2> QED BY <1>3, <2>1 DEF LockedOp, Logged
<1>4. CASE StartRange
  <2>1. Counted' = Counted
    BY <1>4 DEF StartRange, Counted, TypeOK
  <2> QED BY <1>4, <2>1 DEF StartRange
<1>5. CASE EndRange
  <2>1. Counted' = Counted
    BY <1>5 DEF EndRange, Counted, TypeOK
  <2> QED BY <1>5, <2>1 DEF EndRange
<1>6. CASE StartMatch
  <2>1. Counted' = {} /\ Counted = {}
    BY <1>6 DEF StartMatch, Counted
  <2> QED BY <1>6, <2>1 DEF StartMatch
<1>7. CASE EndMatch
  <2>1. Counted' = Counted
    BY <1>7 DEF EndMatch, Counted, TypeOK
  <2> QED BY <1>7, <2>1 DEF EndMatch
<1>8. ASSUME NEW s \in Searchers, TestPtr(s) PROVE SearchInv'
  <2>1. Counted' = Counted
    BY <1>8 DEF TestPtr, Counted, TypeOK
  <2> QED BY <1>8, <2>1 DEF TestPtr
<1>9. ASSUME NEW s \in Searchers, EnterSearch(s) PROVE SearchInv'
  <2>1. Counted' = Counted \cup {s} /\ s \notin Counted
    BY <1>9 DEF EnterSearch, Counted
  <2>2. Cardinality(Counted') = Cardinality(Counted) + 1
    BY <2>1, CountedFinite, FS_AddElement
  <2>3. searchCounter' # -1
    BY <1>9, CountedFinite DEF EnterSearch
  <2> QED BY <1>9, <2>2, <2>3 DEF EnterSearch
<1>10. ASSUME NEW s \in Searchers, LeaveSearch(s) PROVE SearchInv'
  <2>1. CASE walk[s] = "counted"
    <3>1. Counted' = Counted \ {s} /\ s \in Counted
      BY <1>10, <2>1 DEF LeaveSearch, Counted
    <3>2. searchCounter # -1 /\ searchCounter = Cardinality(Counted)
      BY <3>1
    <3>3. Cardinality(Counted') = Cardinality(Counted) - 1
      BY <3>1, CountedFinite, FS_RemoveElement
    <3>4. Cardinality(Counted') \in Nat
      BY <3>1, CountedFinite, FS_RemoveElement, FS_CardinalityType
    <3> QED BY <1>10, <2>1, <3>2, <3>3, <3>4 DEF LeaveSearch, Departed
  <2>2. CASE walk[s] = "direct"
    <3>1. Counted' = Counted
      BY <1>10, <2>2 DEF LeaveSearch, Counted
    <3> QED BY <1>10, <2>2, <3>1 DEF LeaveSearch, Departed
  <2> QED BY <1>10, <2>1, <2>2 DEF LeaveSearch
<1>11. CASE TakeRebuildLock
  <2>1. Counted' = Counted
    BY <1>11 DEF TakeRebuildLock, Counted, TypeOK
  <2> QED BY <1>11, <2>1 DEF TakeRebuildLock
<1>12. CASE NothingToRebuild
  <2>1. Counted' = Counted
    BY <1>12 DEF NothingToRebuild, Counted, TypeOK
  <2> QED BY <1>12, <2>1 DEF NothingToRebuild
<1>13. CASE BeginRebuild
  <2>1. Counted' = Counted
    BY <1>13 DEF BeginRebuild, Counted, TypeOK
  <2> QED BY <1>13, <2>1 DEF BeginRebuild
<1>14. CASE BlockForCopy
  <2>1. Counted' = Counted
    BY <1>14 DEF BlockForCopy, BlockSearch, Counted
  <2>2. Counted = {}
    BY <1>14, CountedFinite, FS_EmptySet DEF BlockForCopy, BlockSearch
  <2> QED BY <1>14, <2>1, <2>2 DEF BlockForCopy, BlockSearch
<1>15. CASE Flatten
  <2>1. Counted' = Counted
    BY <1>15 DEF Flatten, Counted
  <2>2. Cardinality(Counted) = 0
    BY <1>15, FS_EmptySet DEF Flatten
  <2> QED BY <1>15, <2>1, <2>2 DEF Flatten
<1>16. CASE BuildTree
  <2>1. Counted' = Counted
    BY <1>16 DEF BuildTree, Counted, TypeOK
  <2> QED BY <1>16, <2>1 DEF BuildTree
<1>17. CASE Relock
  <2>1. Counted' = Counted
    BY <1>17 DEF Relock, Counted, TypeOK
  <2> QED BY <1>17, <2>1 DEF Relock
<1>18. CASE PopLogged
  <2>1. Counted' = Counted
    BY <1>18 DEF PopLogged, Counted, TypeOK
  <2> QED BY <1>18, <2>1 DEF PopLogged
<1>19. CASE RunLogged
  <2>1. Counted' = Counted
    BY <1>19 DEF RunLogged, Counted, TypeOK
  <2> QED BY <1>19, <2>1 DEF RunLogged
<1>20. CASE LoggerDrained
  <2>1. Counted' = Counted
    BY <1>20 DEF LoggerDrained, Counted, TypeOK
  <2> QED BY <1>20, <2>1 DEF LoggerDrained
<1>21. CASE BlockForSwap
  <2>1. Counted' = Counted
    BY <1>21 DEF BlockForSwap, BlockSearch, Counted
  <2>2. Counted = {}
    BY <1>21, CountedFinite, FS_EmptySet DEF BlockForSwap, BlockSearch
  <2> QED BY <1>21, <2>1, <2>2 DEF BlockForSwap, BlockSearch
<1>22. CASE Swap
  <2>1. Counted' = Counted
    BY <1>22 DEF Swap, Counted, TypeOK
  <2> QED BY <1>22, <2>1 DEF Swap
<1>23. CASE Publish
  <2>1. Counted' = Counted
    BY <1>23 DEF Publish, Counted
  <2>2. Cardinality(Counted) = 0
    BY <1>23, FS_EmptySet DEF Publish
  <2> QED BY <1>23, <2>1, <2>2 DEF Publish
<1>24. CASE ClearFlag
  <2>1. Counted' = Counted
    BY <1>24 DEF ClearFlag, Counted, TypeOK
  <2> QED BY <1>24, <2>1 DEF ClearFlag
<1>25. CASE DeleteOld
  <2>1. Counted' = Counted
    BY <1>25 DEF DeleteOld, Counted, TypeOK
  <2> QED BY <1>25, <2>1 DEF DeleteOld
<1>26. CASE Ended
  <2>1. Counted' = Counted
    BY <1>26 DEF Ended, Counted, TypeOK
  <2> QED BY <1>26, <2>1 DEF Ended
<1>27. CASE UNCHANGED vars
  <2>1. Counted' = Counted
    BY <1>27 DEF Counted
  <2> QED BY <1>27, <2>1
<1> QED
  BY <1>1, <1>2, <1>3, <1>4, <1>5, <1>6, <1>7, <1>8, <1>9, <1>10, <1>11,
       <1>12, <1>13, <1>14, <1>15, <1>16, <1>17, <1>18, <1>19, <1>20, <1>21,
            <1>22, <1>23, <1>24, <1>25, <1>26, <1>27 DEF Next, MainOp,
                 MainStep, SearchStep, RebuildStep

\* Every step keeps the variables in their types.
LEMMA TypeStep == IInv /\ [Next]_vars => TypeOK'
<1> SUFFICES ASSUME IInv, [Next]_vars
             PROVE  TypeOK'
  OBVIOUS
<1> USE ConstantsAssumption DEF IInv, FlagInv, Rebuilding, Blocked, TypeOK,
     Alive, vars, treeVars, flagVars, mainVars, rangeVars
<1>1. ASSUME NEW op \in Operation, DirectOp(op) PROVE TypeOK'
  BY <1>1, RunAllType DEF DirectOp
<1>2. ASSUME NEW op \in Operation, AwaitLock(op) PROVE TypeOK'
  <2>1. op # << >>
    BY OperationNotEmpty
  <2> QED BY <1>2, <2>1 DEF AwaitLock
<1>3. CASE LockedOp
  <2>1. mainOp \in Operation
    BY <1>3 DEF LockedOp
  <2>2. live' \in SUBSET Points /\ logger' \in Seq(Entry)
    BY <1>3, <2>1, RunAllType, LogType DEF LockedOp
  <2>3. stale' \in BOOLEAN
    BY <1>3 DEF LockedOp
  <2>4. ops' \in 0 .. MaxOps
    BY <1>3 DEF LockedOp, RangeInv
  <2> QED BY <1>3, <2>2, <2>3, <2>4 DEF LockedOp
<1>4. CASE StartRange
  BY <1>4 DEF StartRange
<1>5. CASE EndRange
  BY <1>5 DEF EndRange
<1>6. CASE StartMatch
  BY <1>6 DEF StartMatch
<1>7. CASE EndMatch
  BY <1>7 DEF EndMatch
<1>8. ASSUME NEW s \in Searchers, TestPtr(s) PROVE TypeOK'
  BY <1>8 DEF TestPtr
<1>9. ASSUME NEW s \in Searchers, EnterSearch(s) PROVE TypeOK'
  <2>1. walk' \in [Searchers -> {"off", "test", "wait", "direct", "counted"}]
    BY <1>9 DEF EnterSearch
  <2>2. searchCounter' \in -1 .. Cardinality(Searchers)
    <3>1. searchCounter = Cardinality(Counted)
      BY <1>9 DEF EnterSearch, SearchInv
    <3>2. Counted' = Counted \cup {s} /\ s \notin Counted
      BY <1>9 DEF EnterSearch, Counted
    <3>3. Counted' \subseteq Searchers
      BY DEF Counted
    <3>4. Cardinality(Counted') = Cardinality(Counted) + 1
      BY <3>2, CountedFinite, FS_AddElement
    <3>5. Cardinality(Counted') <= Cardinality(Searchers)
      BY <3>3, FS_Subset
    <3> QED BY <1>9, <3>1, <3>4, <3>5, CountedFinite DEF EnterSearch
  <2> QED BY <1>9, <2>1, <2>2 DEF EnterSearch
<1>10. ASSUME NEW s \in Searchers, LeaveSearch(s) PROVE TypeOK'
  <2>1. walk' \in [Searchers -> {"off", "test", "wait", "direct", "counted"}]
    BY <1>10 DEF LeaveSearch
  <2>2. searchCounter' \in -1 .. Cardinality(Searchers)
    <3>1. CASE walk[s] = "counted"
      <4>1. s \in Counted
        BY <3>1 DEF Counted
      <4>2. searchCounter = Cardinality(Counted)
        BY <4>1 DEF SearchInv
      <4> QED BY <1>10, <3>1, <4>2, CountedFinite DEF LeaveSearch, Departed
    <3>2. CASE walk[s] # "counted"
      BY <1>10, <3>2 DEF LeaveSearch, Departed
    <3> QED BY <3>1, <3>2
  <2> QED BY <1>10, <2>1, <2>2 DEF LeaveSearch
<1>11. CASE TakeRebuildLock
  BY <1>11 DEF TakeRebuildLock
<1>12. CASE NothingToRebuild
  BY <1>12 DEF NothingToRebuild
<1>13. CASE BeginRebuild
  BY <1>13 DEF BeginRebuild
<1>14. CASE BlockForCopy
  BY <1>14, CountedFinite DEF BlockForCopy, BlockSearch
<1>15. CASE Flatten
  <2>1. 0 \in -1 .. Cardinality(Searchers)
    BY CountedFinite
  <2> QED BY <1>15, <2>1 DEF Flatten
<1>16. CASE BuildTree
  BY <1>16 DEF BuildTree
<1>17. CASE Relock
  BY <1>17 DEF Relock
<1>18. CASE PopLogged
  <2>1. Head(logger) \in Entry /\ Tail(logger) \in Seq(Entry)
    BY <1>18 DEF PopLogged
  <2>2. replaying' \in Seq(Entry) /\ Len(replaying') = 1
    BY <1>18, <2>1 DEF PopLogged
  <2> QED BY <1>18, <2>1, <2>2 DEF PopLogged
<1>19. CASE RunLogged
  <2>1. Len(replaying) = 1 /\ replaying \in Seq(Entry)
    BY <1>19 DEF RunLogged
  <2>2. replaying[1] \in Entry
    <3> HIDE DEF TypeOK, IInv
    <3> QED BY <2>1
  <2>3. fresh' \in SUBSET Points
    BY <1>19, <2>2, RunType DEF RunLogged
  <2>4. Len(replaying') = 0 /\ replaying' \in Seq(Entry)
    BY <1>19 DEF RunLogged
  <2> QED BY <1>19, <2>3, <2>4 DEF RunLogged
<1>20. CASE LoggerDrained
  BY <1>20 DEF LoggerDrained
<1>21. CASE BlockForSwap
  BY <1>21, CountedFinite DEF BlockForSwap, BlockSearch
<1>22. CASE Swap
  BY <1>22 DEF Swap
<1>23. CASE Publish
  <2>1. 0 \in -1 .. Cardinality(Searchers)
    BY CountedFinite
  <2> QED BY <1>23, <2>1 DEF Publish
<1>24. CASE ClearFlag
  BY <1>24 DEF ClearFlag
<1>25. CASE DeleteOld
  BY <1>25 DEF DeleteOld
<1>26. CASE Ended
  BY <1>26 DEF Ended
<1>27. CASE UNCHANGED vars
  BY <1>27
<1> QED
  BY <1>1, <1>2, <1>3, <1>4, <1>5, <1>6, <1>7, <1>8, <1>9, <1>10, <1>11,
       <1>12, <1>13, <1>14, <1>15, <1>16, <1>17, <1>18, <1>19, <1>20, <1>21,
            <1>22, <1>23, <1>24, <1>25, <1>26, <1>27 DEF Next, MainOp,
                 MainStep, SearchStep, RebuildStep

\* One entry run on one and appended to the log of the other.
LEMMA AfterOne ==
  ASSUME NEW S, NEW T, NEW log \in Seq(Entry), NEW e \in Entry, NEW p,
         (p \in T) = AfterLog(S, log, p)
  PROVE  (p \in Run(T, e)) = AfterLog(S, Append(log, e), p)
BY RunMember, AfterAppend

\* An operation run on the subtree in place and appended to the log of the one
\* being built leaves the two in step.
LEMMA AfterOperation ==
  ASSUME NEW S, NEW T, NEW log \in Seq(Entry), NEW op \in Operation, NEW p,
         (p \in T) = AfterLog(S, log, p)
  PROVE  (p \in RunAll(T, op)) = AfterLog(S, log \o op, p)
<1>1. CASE \E e \in Entry : op = <<e>>
  <2>1. PICK e \in Entry : op = <<e>>
    BY <1>1
  <2>2. log \o op = Append(log, e) /\ RunAll(T, op) = Run(T, e)
    BY <2>1 DEF RunAll
  <2> QED BY <2>2, AfterOne
<1>2. CASE \E d, e \in Entry : op = <<d, e>>
  <2>1. PICK d \in Entry, e \in Entry : op = <<d, e>>
    BY <1>2
  <2>2. /\ log \o op = Append(Append(log, d), e)
        /\ Append(log, d) \in Seq(Entry)
        /\ RunAll(T, op) = Run(Run(T, d), e)
    BY <2>1 DEF RunAll
  <2>3. (p \in Run(T, d)) = AfterLog(S, Append(log, d), p)
    BY AfterOne
  <2>4. (p \in Run(Run(T, d), e)) = AfterLog(S, Append(Append(log, d), e), p)
    <3> DEFINE U == Run(T, d)
               first == Append(log, d)
    <3>1. first \in Seq(Entry) /\ (p \in U) = AfterLog(S, first, p)
      BY <2>2, <2>3
    <3> HIDE DEF U, first
    <3>2. (p \in Run(U, e)) = AfterLog(S, Append(first, e), p)
      BY <3>1, AfterOne
    <3> QED BY <3>2 DEF U, first
  <2> QED BY <2>2, <2>4
<1> QED BY <1>1, <1>2, OperationEntries

\* Logs are put together in any order of grouping, and taken apart at the head.
LEMMA LogParts ==
  ASSUME NEW a \in Seq(Entry), NEW b \in Seq(Entry), NEW c \in Seq(Entry)
  PROVE  /\ a \o b \in Seq(Entry)
         /\ a \o (b \o c) = (a \o b) \o c
         /\ << >> \o b = b
         /\ b # << >> => <<Head(b)>> \o Tail(b) = b
         /\ Len(a) = 0 => a = << >>
         /\ Len(a) = 1 => a = <<a[1]>> /\ a[1] \in Entry
OBVIOUS

\* The subtree being built keeps up with the one in place.
LEMMA CatchUpStep == IInv /\ [Next]_vars => ReplayCatchesUp'
<1> SUFFICES ASSUME IInv, [Next]_vars
             PROVE  ReplayCatchesUp'
  OBVIOUS
<1> USE ConstantsAssumption DEF IInv, FlagInv, Rebuilding, TypeOK,
     ReplayCatchesUp, Alive, vars, treeVars, flagVars, mainVars, rangeVars
<1>1. ASSUME NEW op \in Operation, DirectOp(op) PROVE ReplayCatchesUp'
  BY <1>1 DEF DirectOp
<1>2. ASSUME NEW op \in Operation, AwaitLock(op) PROVE ReplayCatchesUp'
  BY <1>2 DEF AwaitLock
<1>3. CASE LockedOp
  <2> SUFFICES ASSUME ~stale', NEW p \in Points,
                      rebPc \in {"build", "relock", "replay", "run", "toSwap",
                           "swap"}
               PROVE  (p \in live') = AfterLog(fresh, replaying \o logger', p)
    BY <1>3 DEF LockedOp
  <2>1. ~stale /\ rebuildFlag /\ mainOp \in Operation
    BY <1>3 DEF LockedOp
  <2>2. mainOp \in Seq(Entry)
    BY <2>1, OperationType
  <2>3. replaying \o logger' = (replaying \o logger) \o mainOp
    <3>1. logger' = logger \o mainOp
      BY <1>3, <2>1 DEF LockedOp, Logged
    <3>2. replaying \in Seq(Entry) /\ logger \in Seq(Entry)
      OBVIOUS
    <3> HIDE DEF IInv, TypeOK, ReplayCatchesUp, FlagInv
    <3> QED BY <2>2, <3>1, <3>2, LogParts
  <2>4. replaying \o logger \in Seq(Entry)
    BY LogParts
  <2>5. (p \in live) = AfterLog(fresh, replaying \o logger, p)
    BY <2>1
  <2> HIDE DEF IInv, TypeOK, ReplayCatchesUp, FlagInv
  <2>6. (p \in RunAll(live, mainOp)) =
          AfterLog(fresh, (replaying \o logger) \o mainOp, p)
    <3> DEFINE log == replaying \o logger
    <3>1. mainOp \in Operation /\ log \in Seq(Entry) /\ (p \in live) =
         AfterLog(fresh, log, p)
      BY <2>1, <2>4, <2>5
    <3> HIDE DEF log
    <3>2. (p \in RunAll(live, mainOp)) = AfterLog(fresh, log \o mainOp, p)
      BY <3>1, AfterOperation
    <3> QED BY <3>2 DEF log
  <2> QED BY <1>3, <2>3, <2>6 DEF LockedOp
<1>4. CASE StartRange
  BY <1>4 DEF StartRange
<1>5. CASE EndRange
  BY <1>5 DEF EndRange
<1>6. CASE StartMatch
  BY <1>6 DEF StartMatch
<1>7. CASE EndMatch
  BY <1>7 DEF EndMatch
<1>8. ASSUME NEW s \in Searchers, TestPtr(s) PROVE ReplayCatchesUp'
  BY <1>8 DEF TestPtr
<1>9. ASSUME NEW s \in Searchers, EnterSearch(s) PROVE ReplayCatchesUp'
  BY <1>9 DEF EnterSearch
<1>10. ASSUME NEW s \in Searchers, LeaveSearch(s) PROVE ReplayCatchesUp'
  BY <1>10 DEF LeaveSearch, Departed
<1>11. CASE TakeRebuildLock
  BY <1>11 DEF TakeRebuildLock
<1>12. CASE NothingToRebuild
  BY <1>12 DEF NothingToRebuild
<1>13. CASE BeginRebuild
  BY <1>13 DEF BeginRebuild
<1>14. CASE BlockForCopy
  BY <1>14 DEF BlockForCopy, BlockSearch
<1>15. CASE Flatten
  <2> SUFFICES ASSUME ~stale, NEW p \in Points
               PROVE  (p \in live) = AfterLog(live, replaying \o logger, p)
    BY <1>15 DEF Flatten
  <2>1. logger = << >> /\ Len(replaying) = 0
    BY <1>15 DEF Flatten, LogInv
  <2>2. replaying \o logger = << >>
    BY <2>1, LogParts
  <2> QED BY <2>2, AfterNothing
<1>16. CASE BuildTree
  BY <1>16 DEF BuildTree
<1>17. CASE Relock
  BY <1>17 DEF Relock
<1>18. CASE PopLogged
  <2>1. Len(replaying) = 0
    BY <1>18 DEF PopLogged
  <2>2. replaying' \o logger' = replaying \o logger
    BY <1>18, <2>1, LogParts DEF PopLogged
  <2> QED BY <1>18, <2>2 DEF PopLogged
<1>19. CASE RunLogged
  <2> SUFFICES ASSUME ~stale, NEW p \in Points
               PROVE  (p \in live) = AfterLog(fresh', replaying' \o logger, p)
    BY <1>19 DEF RunLogged
  <2>1. replaying = <<replaying[1]>> /\ replaying[1] \in Entry
    BY <1>19, LogParts DEF RunLogged
  <2>2. replaying' \o logger = logger
    BY <1>19, LogParts DEF RunLogged
  <2>3. (p \in live) = AfterLog(fresh, replaying \o logger, p)
    BY <1>19 DEF RunLogged
  <2>4. logger \in Seq(Entry)
    OBVIOUS
  <2> HIDE DEF IInv, TypeOK, ReplayCatchesUp, FlagInv
  <2>5. AfterLog(fresh, replaying \o logger, p) =
          AfterLog(Run(fresh, replaying[1]), logger, p)
    BY <2>1, <2>4, AfterHead
  <2> QED BY <1>19, <2>2, <2>3, <2>5 DEF RunLogged
<1>20. CASE LoggerDrained
  BY <1>20 DEF LoggerDrained
<1>21. CASE BlockForSwap
  BY <1>21 DEF BlockForSwap, BlockSearch
<1>22. CASE Swap
  BY <1>22 DEF Swap
<1>23. CASE Publish
  BY <1>23 DEF Publish
<1>24. CASE ClearFlag
  BY <1>24 DEF ClearFlag
<1>25. CASE DeleteOld
  BY <1>25 DEF DeleteOld
<1>26. CASE Ended
  BY <1>26 DEF Ended
<1>27. CASE UNCHANGED vars
  BY <1>27
<1> QED
  BY <1>1, <1>2, <1>3, <1>4, <1>5, <1>6, <1>7, <1>8, <1>9, <1>10, <1>11,
       <1>12, <1>13, <1>14, <1>15, <1>16, <1>17, <1>18, <1>19, <1>20, <1>21,
            <1>22, <1>23, <1>24, <1>25, <1>26, <1>27 DEF Next, MainOp,
                 MainStep, SearchStep, RebuildStep

-----------------------------------------------------------------------------
(* The theorems.                                                           *)

\* The invariant holds when the tree has just been built.
LEMMA InitInv == Init => IInv
<1> SUFFICES ASSUME Init PROVE IInv
  OBVIOUS
<1>1. TypeOK
  <2>1. 0 \in -1 .. Cardinality(Searchers)
    BY CountedFinite
  <2>2. << >> \in Seq(Entry) /\ Len(<< >>) = 0
    OBVIOUS
  <2>3. 0 \in 0 .. MaxOps
    BY ConstantsAssumption
  <2>4. walk \in [Searchers -> {"off", "test", "wait", "direct", "counted"}]
    BY DEF Init
  <2>5. logger \in Seq(Entry) /\ replaying \in Seq(Entry) /\ Len(replaying) = 0
    BY <2>2 DEF Init
  <2>6. searchCounter \in -1 .. Cardinality(Searchers) /\ ops \in 0 .. MaxOps
    BY <2>1, <2>3 DEF Init
  <2>7. live \subseteq Points /\ fresh \subseteq Points
    BY DEF Init
  <2>8. rebPc = "sleep" /\ mainPc = "idle" /\ mainOp = << >>
    BY DEF Init
  <2>9. /\ rebuildPtr \in BOOLEAN /\ rebuildFlag \in BOOLEAN
        /\ stale \in BOOLEAN
        /\ rebuildLock \in BOOLEAN /\ workingLock \in BOOLEAN
        /\ searchLock \in BOOLEAN /\ oldWalk \in BOOLEAN
    BY DEF Init
  <2> QED BY <2>4, <2>5, <2>6, <2>7, <2>8, <2>9 DEF TypeOK
<1>2. SearchInv
  <2>1. Counted = {}
    BY DEF Init, Counted
  <2>2. Cardinality(Counted) = 0
    BY <2>1, FS_EmptySet
  <2> QED BY <2>1, <2>2 DEF Init, SearchInv, Blocked
<1>3. FlagInv /\ RangeInv /\ LogInv /\ ReplayCatchesUp
  BY DEF Init, FlagInv, RangeInv, LogInv, ReplayCatchesUp, Rebuilding
<1> QED BY <1>1, <1>2, <1>3 DEF IInv

\* The inductive invariant holds throughout.
THEOREM Invariance == Spec => []IInv
<1>1. IInv /\ [Next]_vars => IInv'
  BY TypeStep, FlagStep, CounterStep, RangeStep, LogStep, CatchUpStep DEF IInv
<1> QED BY InitInv, <1>1, PTL DEF Spec

\* The variables keep their types: in particular the search counter stays
\* between -1 and the number of searchers.
THEOREM TypeCorrect == Spec => []TypeOK
<1>1. IInv => TypeOK
  BY DEF IInv
<1> QED BY <1>1, Invariance, PTL

\* No search walks a subtree that is being flattened or swapped out
\* (IkdTree.cpp:264-273, 310-318), and no range search is left in one whose
\* nodes are deleted next (IkdTree.cpp:345-352).
THEOREM Exclusion == Spec => []SearchesKeptOut
<1>1. IInv => SearchExclusion
  <2> SUFFICES ASSUME IInv, rebPc \in Blocked, NEW s \in Searchers
               PROVE  walk[s] \notin {"direct", "counted"}
    BY DEF SearchExclusion, Blocked
  <2>1. searchCounter = -1 /\ Counted = {} /\ rebuildPtr
    BY DEF IInv, SearchInv, FlagInv, Blocked, Rebuilding
  <2>2. walk[s] # "counted"
    BY <2>1 DEF Counted
  <2>3. walk[s] # "direct"
    BY <2>1 DEF IInv, SearchInv
  <2> QED BY <2>2, <2>3
<1>2. IInv => OldTreeUnwatched
  BY DEF IInv, RangeInv, OldTreeUnwatched
<1>3. IInv => SearchesKeptOut
  BY <1>1, <1>2 DEF SearchesKeptOut
<1> QED BY <1>3, Invariance, PTL

\* The subtree being built starts from a clean log and catches up with the one
\* in place, unless an operation came too late (IkdTree.cpp:248-251, 281-307).
THEOREM CatchesUp == Spec => []ReplayExact
<1>1. IInv => ReplayCatchesUp
  BY DEF IInv
<1>2. IInv => CleanStart
  BY DEF IInv, LogInv, CleanStart
<1>3. IInv => ReplayExact
  BY <1>1, <1>2 DEF ReplayExact
<1> QED BY <1>3, Invariance, PTL

\* At the swap the subtree built holds the points of the one in place.
LEMMA SwapKeeps ==
  ASSUME IInv, ~stale, Swap
  PROVE  live' = live
<1>1. /\ rebPc = "swap" /\ live' = fresh
      /\ live \subseteq Points /\ fresh \subseteq Points
  BY DEF Swap, IInv, TypeOK
<1>2. logger = << >>
  BY <1>1 DEF IInv, LogInv
<1>3. replaying \o logger = << >>
  <2>1. Len(replaying) = 0 /\ replaying \in Seq(Entry)
    BY <1>1 DEF IInv, TypeOK
  <2> QED BY <1>2, <2>1, LogParts
<1>4. \A p \in Points : (p \in live) = AfterLog(fresh, << >>, p)
  BY <1>1, <1>3 DEF IInv, ReplayCatchesUp
<1>5. \A p \in Points : p \in live <=> p \in fresh
  BY <1>4, AfterNothing
<1> QED BY <1>1, <1>5

\* What an operation does to the subtree in place is a change of the store.
LEMMA OperationChanges ==
  ASSUME NEW op \in Operation, live' = RunAll(live, op), ~stale,
         live \subseteq Points, stale' \in BOOLEAN
  PROVE  Store!StoreNext
<1> USE DEF Store!StoreNext, Store!Change
<1>1. CASE op \in {<<Add(p)>> : p \in Points}
  <2>1. PICK p \in Points : op = <<Add(p)>>
    BY <1>1
  <2>2. live' = live \cup {p}
    BY <2>1 DEF RunAll, Run, Add
  <2> QED BY <2>2 DEF Store!AddPoint
<1>2. CASE op \in {<<Delete(b)>> : b \in Boxes}
  <2>1. PICK b \in Boxes : op = <<Delete(b)>>
    BY <1>2
  <2>2. live' = live \ b
    BY <2>1 DEF RunAll, Run, Delete
  <2> QED BY <2>2 DEF Store!DeleteBox
<1>3. CASE op = <<PushDown>>
  <2>1. live' = {}
    BY <1>3 DEF RunAll, Run, PushDown, Delete
  <2> QED BY <2>1 DEF Store!DeleteAll
<1>4. CASE op \in UNION {{<<Delete(b), Add(p)>> : p \in b} : b \in Boxes}
  <2>1. PICK b \in Boxes : op \in {<<Delete(b), Add(p)>> : p \in b}
    BY <1>4
  <2>2. PICK p \in b : op = <<Delete(b), Add(p)>>
    BY <2>1
  <2>3. live' = (live \ b) \cup {p}
    BY <2>2 DEF RunAll, Run, Delete, Add
  <2> QED BY <2>3 DEF Store!ReplaceBox
<1> QED BY <1>1, <1>2, <1>3, <1>4 DEF Operation

\* The tree implements the point store: rebuilds are invisible, whatever the
\* interleaving, until an operation is logged after the end of its rebuild.
THEOREM Implements == Spec => ImplementsStore
<1>1. Init => Store!StoreInit
  BY DEF Init, Store!StoreInit
<1>2. ASSUME IInv, IInv', [Next]_vars
      PROVE  [Store!StoreNext]_(Store!vars)
  <2> USE DEF vars, treeVars, flagVars, mainVars, rangeVars, Store!vars
  <2>1. live \subseteq Points /\ live' \subseteq Points
        /\ stale \in BOOLEAN /\ stale' \in BOOLEAN
    BY <1>2 DEF IInv, TypeOK
  <2>2. CASE stale
    <3>1. stale'
      BY <1>2, <2>2 DEF Next, MainOp, MainStep, SearchStep, RebuildStep,
        DirectOp, AwaitLock, LockedOp, StartRange, EndRange, StartMatch,
        EndMatch, TestPtr, EnterSearch, LeaveSearch, TakeRebuildLock,
        NothingToRebuild, BeginRebuild, BlockForCopy, BlockForSwap,
        BlockSearch, Flatten, BuildTree, Relock, PopLogged, RunLogged,
        LoggerDrained, Swap, Publish, ClearFlag, DeleteOld, Ended
    <3> QED BY <2>1, <2>2, <3>1 DEF Store!StoreNext, Store!Lapsed
  <2>3. CASE ~stale
    <3>1. ASSUME NEW op \in Operation, DirectOp(op) PROVE Store!StoreNext
      BY <2>1, <2>3, <3>1, OperationChanges DEF DirectOp
    <3>2. CASE LockedOp
      <4>1. mainOp \in Operation
        BY <1>2, <3>2 DEF LockedOp, IInv, TypeOK
      <4> QED BY <2>1, <2>3, <3>2, <4>1, OperationChanges DEF LockedOp
    <3>3. CASE Swap
      BY <1>2, <2>3, <3>3, SwapKeeps DEF Swap
    <3>4. CASE ~(\E op \in Operation : DirectOp(op)) /\ ~LockedOp /\ ~Swap
      BY <1>2, <3>4 DEF Next, MainOp, MainStep, SearchStep, RebuildStep,
        AwaitLock, StartRange, EndRange, StartMatch, EndMatch, TestPtr,
        EnterSearch, LeaveSearch, TakeRebuildLock, NothingToRebuild,
        BeginRebuild, BlockForCopy, BlockForSwap, BlockSearch, Flatten,
        BuildTree, Relock, PopLogged, RunLogged, LoggerDrained, Publish,
        ClearFlag, DeleteOld, Ended
    <3> QED BY <3>1, <3>2, <3>3, <3>4
  <2> QED BY <2>1, <2>2, <2>3
<1> QED
  BY <1>1, <1>2, Invariance, PTL DEF Spec, ImplementsStore, Store!StoreSpec
==============================================================================
