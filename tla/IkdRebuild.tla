----------------------------- MODULE IkdRebuild -----------------------------
(***************************************************************************)
(* The background rebuild of the ikd-Tree (class KD_TREE): one subtree     *)
(* below the root, the one Rebuild_Ptr may point to, and its threads.      *)
(*                                                                         *)
(*   main      adds and deletes points, lists the points of a box, and     *)
(*             starts the parallel search                                  *)
(*   Searchers the OpenMP threads of one matching pass: Nearest_Search     *)
(*   rebuild   multi_thread_rebuild: copies the subtree, builds a balanced *)
(*             one from the copy, replays the operations main logged       *)
(*             meanwhile, and swaps the new subtree in                     *)
(*                                                                         *)
(* A tree is the set of its valid points.  Its shape, sizes and ranges,    *)
(* the lazy deletion flags and the ancestors' bookkeeping are left out;    *)
(* when a subtree is due for a rebuild is left open.  A test of            *)
(* Rebuild_Ptr is one step: the code reads it twice without a lock.        *)
(***************************************************************************)
EXTENDS Integers, Sequences, FiniteSets

CONSTANTS Points,      \* the points the subtree may hold
          Boxes,       \* the deletion boxes, each the set of the points inside
          Searchers,   \* the threads of the parallel search
          MaxOps       \* bound: operations main makes

ASSUME ConstantsAssumption ==
  /\ IsFiniteSet(Searchers)
  /\ Boxes \subseteq SUBSET Points
  /\ MaxOps \in Nat

VARIABLES
  live,            \* valid points of the subtree in place
  fresh,           \* valid points of the subtree being built (or copied)
  logger,          \* Rebuild_Logger
  replaying,       \* the logged operation popped and not yet run, at most one
  rebuildPtr,      \* Rebuild_Ptr points to the subtree
  rebuildFlag,     \* rebuild_flag
  rebuildLock,     \* the rebuild thread holds rebuild_ptr_mutex_lock
  workingLock,     \* the rebuild thread holds working_flag_mutex
  searchCounter,   \* search_mutex_counter: searches inside, or -1
  rebPc,           \* where the rebuild thread is
  mainPc,          \* where the main thread is
  mainOp,          \* the operation main is waiting to make
  walk,            \* where each searcher is
  searchLock,      \* main holds search_flag_mutex for its range search
  oldWalk,         \* history: main's range search is in the subtree swapped out
  ops,             \* operations made
  stale            \* history: main logged an operation after the rebuild's end

treeVars == <<live, fresh, logger, replaying>>
rangeVars == <<searchLock, oldWalk>>
flagVars == <<rebuildPtr, rebuildFlag, rebuildLock, workingLock, searchCounter>>
mainVars == <<mainPc, mainOp, ops>>
vars == <<treeVars, flagVars, rebPc, mainVars, walk, rangeVars, stale>>

-----------------------------------------------------------------------------
(* Operations on a subtree, as the logger records them.                    *)

Add(p) == [kind |-> "add", pts |-> {p}]
Delete(b) == [kind |-> "delete", pts |-> b]

\* The lazy deletion of an ancestor, pushed down to this subtree.
PushDown == Delete(Points)

Entry ==
  {Add(p) : p \in Points} \cup {Delete(b) : b \in Boxes} \cup {PushDown}

\* run_operation, and the same operation called by main.
Run(S, e) == IF e.kind = "add" THEN S \cup e.pts ELSE S \ e.pts

\* What main asks for at once: an insertion, the deletion of a box, a deletion
\* pushed down from an ancestor, or the down-sampling insertion, which empties a
\* box and puts one point back.
Operation ==
  {<<Add(p)>> : p \in Points} \cup {<<Delete(b)>> : b \in Boxes} \cup
  {<<PushDown>>} \cup UNION {{<<Delete(b), Add(p)>> : p \in b} : b \in Boxes}

RunAll(S, op) ==
  IF Len(op) = 1 THEN Run(S, op[1]) ELSE Run(Run(S, op[1]), op[2])

Init ==
  /\ live \in SUBSET Points
  /\ fresh = {} /\ logger = << >> /\ replaying = << >>
  /\ rebuildPtr = FALSE /\ rebuildFlag = FALSE
  /\ rebuildLock = FALSE /\ workingLock = FALSE
  /\ searchCounter = 0
  /\ rebPc = "sleep" /\ mainPc = "idle" /\ mainOp = << >>
  /\ walk = [s \in Searchers |-> "off"]
  /\ searchLock = FALSE /\ oldWalk = FALSE
  /\ ops = 0 /\ stale = FALSE

Alive == rebPc # "crashed"
-----------------------------------------------------------------------------
(* The main thread.                                                        *)

\* Rebuild_Ptr does not point here: the operation runs without a lock and may
\* leave the subtree unbalanced, which asks for a rebuild unless the rebuild
\* thread holds the lock of Rebuild_Ptr (pthread_mutex_trylock).
DirectOp(op) ==
  /\ Alive /\ mainPc = "idle" /\ ops < MaxOps
  /\ ~rebuildPtr
  /\ live' = RunAll(live, op)
  /\ \E due \in BOOLEAN : rebuildPtr' = (due /\ ~rebuildLock)
  /\ ops' = ops + 1
  /\ UNCHANGED <<fresh, logger, replaying, rebuildFlag, rebuildLock,
                 workingLock, searchCounter, rebPc, mainPc, mainOp, walk,
                 rangeVars, stale>>

\* Rebuild_Ptr points here: wait for working_flag_mutex.
AwaitLock(op) ==
  /\ Alive /\ mainPc = "idle" /\ ops < MaxOps
  /\ rebuildPtr
  /\ mainPc' = "lock" /\ mainOp' = op
  /\ UNCHANGED <<treeVars, flagVars, rebPc, ops, walk, rangeVars, stale>>

LoggedNever(op) == logger
Logged(op) == IF rebuildFlag THEN logger \o op ELSE logger

\* Under working_flag_mutex: make the change in the subtree in place and, when a
\* rebuild runs, log it for the subtree being built.
LockedOp ==
  /\ Alive /\ mainPc = "lock" /\ ~workingLock
  /\ live' = RunAll(live, mainOp)
  /\ logger' = Logged(mainOp)
  /\ stale' = (stale \/ (rebuildFlag /\ ~rebuildPtr))
  /\ mainPc' = "idle" /\ mainOp' = << >> /\ ops' = ops + 1
  /\ UNCHANGED <<fresh, replaying, flagVars, rebPc, walk, rangeVars>>

\* Search_by_range, the first step of the down-sampling insertion: a walk of the
\* subtree under search_flag_mutex, whatever the counter, when Rebuild_Ptr
\* points here, and without a lock when it does not.
StartRange ==
  /\ Alive /\ mainPc = "idle" /\ ops < MaxOps
  /\ mainPc' = "range" /\ searchLock' = rebuildPtr
  /\ UNCHANGED <<treeVars, flagVars, rebPc, mainOp, ops, walk, oldWalk, stale>>

EndRange ==
  /\ Alive /\ mainPc = "range"
  /\ mainPc' = "idle" /\ searchLock' = FALSE /\ oldWalk' = FALSE
  /\ UNCHANGED <<treeVars, flagVars, rebPc, mainOp, ops, walk, stale>>

\* A matching pass: every thread searches once, main waits for all of them.
StartMatch ==
  /\ Alive /\ mainPc = "idle"
  /\ mainPc' = "match"
  /\ walk' = [s \in Searchers |-> "test"]
  /\ UNCHANGED <<treeVars, flagVars, rebPc, mainOp, ops, rangeVars, stale>>

EndMatch ==
  /\ Alive /\ mainPc = "match"
  /\ \A s \in Searchers : walk[s] = "off"
  /\ mainPc' = "idle"
  /\ UNCHANGED <<treeVars, flagVars, rebPc, mainOp, ops, walk, rangeVars,
                 stale>>
-----------------------------------------------------------------------------
(* The searchers.                                                          *)

TestPtr(s) ==
  /\ Alive /\ walk[s] = "test"
  /\ walk' = [walk EXCEPT ![s] = IF rebuildPtr THEN "wait" ELSE "direct"]
  /\ UNCHANGED <<treeVars, flagVars, rebPc, mainVars, rangeVars, stale>>

EnterSearch(s) ==
  /\ Alive /\ walk[s] = "wait"
  /\ searchCounter # -1
  /\ searchCounter' = searchCounter + 1
  /\ walk' = [walk EXCEPT ![s] = "counted"]
  /\ UNCHANGED <<treeVars, rebuildPtr, rebuildFlag, rebuildLock, workingLock,
                 rebPc, mainVars, rangeVars, stale>>

DepartedAlways(s) == searchCounter - 1
Departed(s) == IF walk[s] = "counted" THEN searchCounter - 1 ELSE searchCounter

LeaveSearch(s) ==
  /\ Alive /\ walk[s] \in {"direct", "counted"}
  /\ searchCounter' = Departed(s)
  /\ walk' = [walk EXCEPT ![s] = "off"]
  /\ UNCHANGED <<treeVars, rebuildPtr, rebuildFlag, rebuildLock, workingLock,
                 rebPc, mainVars, rangeVars, stale>>
-----------------------------------------------------------------------------
(* The rebuild thread, multi_thread_rebuild.                               *)

TakeRebuildLock ==
  /\ rebPc = "sleep"
  /\ rebuildLock' = TRUE /\ rebPc' = "entered"
  /\ UNCHANGED <<treeVars, rebuildPtr, rebuildFlag, workingLock, searchCounter,
                 mainVars, walk, rangeVars, stale>>

NothingToRebuild ==
  /\ rebPc = "entered" /\ ~workingLock /\ ~rebuildPtr
  /\ rebuildLock' = FALSE /\ rebPc' = "sleep"
  /\ UNCHANGED <<treeVars, rebuildPtr, rebuildFlag, workingLock, searchCounter,
                 mainVars, walk, rangeVars, stale>>

\* From here main's operations are logged.
BeginRebuild ==
  /\ rebPc = "entered" /\ ~workingLock /\ rebuildPtr
  /\ workingLock' = TRUE /\ rebuildFlag' = TRUE
  /\ rebPc' = "toFlatten"
  /\ UNCHANGED <<treeVars, rebuildPtr, rebuildLock, searchCounter, mainVars,
                 walk, rangeVars, stale>>

\* Wait until no search is inside, then keep the next ones out.
BlockSearch(from, to) ==
  /\ rebPc = from
  /\ searchCounter = 0 /\ ~searchLock
  /\ searchCounter' = -1 /\ rebPc' = to
  /\ UNCHANGED <<treeVars, rebuildPtr, rebuildFlag, rebuildLock, workingLock,
                 mainVars, walk, rangeVars, stale>>

\* Copy the valid points, let searches and operations in again.
FlattenKeepsSearchOut ==
  /\ rebPc = "flatten"
  /\ fresh' = live
  /\ workingLock' = FALSE
  /\ rebPc' = "build"
  /\ UNCHANGED <<live, logger, replaying, rebuildPtr, rebuildFlag, rebuildLock,
                 searchCounter, mainVars, walk, rangeVars, stale>>
Flatten ==
  /\ rebPc = "flatten" /\ ~searchLock
  /\ fresh' = live
  /\ searchCounter' = 0 /\ workingLock' = FALSE
  /\ rebPc' = "build"
  /\ UNCHANGED <<live, logger, replaying, rebuildPtr, rebuildFlag, rebuildLock,
                 mainVars, walk, rangeVars, stale>>

\* Build a balanced subtree of the copied points.  When there are none the
\* subtree stays a null pointer, which the code goes on to read: it crashes.
BuildTree ==
  /\ rebPc = "build"
  /\ rebPc' = IF fresh = {} THEN "crashed" ELSE "relock"
  /\ UNCHANGED <<treeVars, flagVars, mainVars, walk, rangeVars, stale>>

Relock ==
  /\ rebPc = "relock" /\ ~workingLock
  /\ workingLock' = TRUE /\ rebPc' = "replay"
  /\ UNCHANGED <<treeVars, rebuildPtr, rebuildFlag, rebuildLock, searchCounter,
                 mainVars, walk, rangeVars, stale>>

\* Replay one logged operation: popped under the locks, run without them.
PopLogged ==
  /\ rebPc = "replay" /\ logger # << >>
  /\ replaying' = <<Head(logger)>> /\ logger' = Tail(logger)
  /\ workingLock' = FALSE /\ rebPc' = "run"
  /\ UNCHANGED <<live, fresh, rebuildPtr, rebuildFlag, rebuildLock,
                 searchCounter, mainVars, walk, rangeVars, stale>>

RunLogged ==
  /\ rebPc = "run"
  /\ fresh' = Run(fresh, replaying[1]) /\ replaying' = << >>
  /\ rebPc' = "relock"
  /\ UNCHANGED <<live, logger, flagVars, mainVars, walk, rangeVars, stale>>

\* The logger is empty, working_flag_mutex stays locked until the swap is done.
LoggerDrainedOnce ==
  /\ rebPc = "replay"
  /\ rebPc' = "toSwap"
  /\ UNCHANGED <<treeVars, flagVars, mainVars, walk, rangeVars, stale>>
LoggerDrained ==
  /\ rebPc = "replay" /\ logger = << >>
  /\ rebPc' = "toSwap"
  /\ UNCHANGED <<treeVars, flagVars, mainVars, walk, rangeVars, stale>>

\* Put the new subtree in place, with searches and operations kept out.
Swap ==
  /\ rebPc = "swap"
  /\ live' = fresh
  /\ oldWalk' = (mainPc = "range")
  /\ rebPc' = "swapped"
  /\ UNCHANGED <<fresh, logger, replaying, flagVars, mainVars, walk, searchLock,
                 stale>>

\* Let searches in, give up Rebuild_Ptr and working_flag_mutex.
PublishAtOnce ==
  /\ rebPc = "swapped"
  /\ searchCounter' = 0 /\ rebuildPtr' = FALSE /\ workingLock' = FALSE
  /\ rebPc' = "published"
  /\ UNCHANGED <<treeVars, rebuildFlag, rebuildLock, mainVars, walk,
                 rangeVars, stale>>
Publish ==
  /\ rebPc = "swapped" /\ ~searchLock
  /\ searchCounter' = 0 /\ rebuildPtr' = FALSE /\ workingLock' = FALSE
  /\ rebPc' = "published"
  /\ UNCHANGED <<treeVars, rebuildFlag, rebuildLock, mainVars, walk,
                 rangeVars, stale>>

\* Only now is the flag cleared, without the lock main reads it under.
ClearFlag ==
  /\ rebPc = "published"
  /\ rebuildFlag' = FALSE /\ rebPc' = "cleared"
  /\ UNCHANGED <<treeVars, rebuildPtr, rebuildLock, workingLock, searchCounter,
                 mainVars, walk, rangeVars, stale>>

\* Delete the old nodes, give up the lock of Rebuild_Ptr.
DeleteOld ==
  /\ rebPc = "cleared"
  /\ fresh' = {} /\ rebuildLock' = FALSE /\ rebPc' = "sleep"
  /\ UNCHANGED <<live, logger, replaying, rebuildPtr, rebuildFlag, workingLock,
                 searchCounter, mainVars, walk, rangeVars, stale>>
-----------------------------------------------------------------------------
\* The process has ended.
Ended == ~Alive /\ UNCHANGED vars

BlockForCopy == BlockSearch("toFlatten", "flatten")
BlockForSwap == BlockSearch("toSwap", "swap")

MainOp == \E op \in Operation : DirectOp(op) \/ AwaitLock(op)
MainStep == LockedOp \/ EndRange \/ EndMatch
SearchStep(s) == TestPtr(s) \/ EnterSearch(s) \/ LeaveSearch(s)
RebuildStep ==
  \/ TakeRebuildLock \/ NothingToRebuild \/ BeginRebuild \/ BlockForCopy
  \/ Flatten \/ BuildTree \/ Relock \/ PopLogged \/ RunLogged \/ LoggerDrained
  \/ BlockForSwap \/ Swap \/ Publish \/ ClearFlag \/ DeleteOld

Next ==
  \/ MainOp \/ MainStep \/ StartRange \/ StartMatch
  \/ \E s \in Searchers : SearchStep(s)
  \/ RebuildStep
  \/ Ended

\* Every thread keeps running.  The rebuild thread polls the search counter
\* every microsecond and waits for mutexes main holds for one search or one operation
\* at a time, with long stretches in between: it gets its turn.
Fairness ==
  /\ WF_vars(MainStep)
  /\ \A s \in Searchers : WF_vars(SearchStep(s))
  /\ SF_vars(RebuildStep)

Spec == Init /\ [][Next]_vars /\ Fairness
-----------------------------------------------------------------------------
(* Properties.                                                             *)

\* The types of the variables.
TypeOK ==
  /\ live \subseteq Points /\ fresh \subseteq Points
  /\ logger \in Seq(Entry) /\ replaying \in Seq(Entry)
  /\ Len(replaying) = (IF rebPc = "run" THEN 1 ELSE 0)
  /\ rebuildPtr \in BOOLEAN /\ rebuildFlag \in BOOLEAN
  /\ rebuildLock \in BOOLEAN /\ workingLock \in BOOLEAN
  /\ searchCounter \in -1 .. Cardinality(Searchers)
  /\ rebPc \in {"sleep", "entered", "toFlatten", "flatten", "build", "relock",
                "replay", "run", "toSwap", "swap", "swapped", "published",
                "cleared", "crashed"}
  /\ mainPc \in {"idle", "lock", "range", "match"}
  /\ mainOp \in Operation \cup {<< >>}
  /\ mainPc = "lock" <=> mainOp # << >>
  /\ walk \in [Searchers -> {"off", "test", "wait", "direct", "counted"}]
  /\ searchLock \in BOOLEAN /\ oldWalk \in BOOLEAN
  /\ ops \in 0 .. MaxOps
  /\ stale \in BOOLEAN

\* No search walks the subtree while the rebuild thread flattens it (which
\* pushes flags down) or replaces it (its old nodes are deleted next): the
\* counter of IkdTree.cpp:264-272 and 310-318 keeps the two apart, also from
\* the searches that did not count themselves.
SearchExclusion ==
  rebPc \in {"flatten", "swap", "swapped"} =>
    \A s \in Searchers : walk[s] \notin {"direct", "counted"}

\* A range search takes search_flag_mutex but not the counter, so it may still
\* walk the subtree when that is swapped out; the nodes are not deleted before
\* it has left, because resetting the counter takes the same mutex
\* (IkdTree.cpp:1207-1212, 345-352).
OldTreeUnwatched == rebPc \in {"published", "cleared"} => ~oldWalk

\* No nearest search, counted or not, is in the subtree while the rebuild thread
\* copies or replaces it, and no range search when its old nodes are deleted.
SearchesKeptOut == SearchExclusion /\ OldTreeUnwatched

\* The membership of p in S once the operations of log have run: the last one
\* that touches p decides.
Touching(log, p) == {i \in DOMAIN log : p \in log[i].pts}
AfterLog(S, log, p) ==
  IF Touching(log, p) = {} THEN p \in S
  ELSE \E i \in Touching(log, p) :
         /\ \A j \in Touching(log, p) : j <= i
         /\ log[i].kind = "add"

\* The subtree being built, once the operation being replayed and the logged
\* ones have run on it, holds what the subtree in place holds: nothing main did
\* since the copy is lost or done twice (IkdTree.cpp:289-307).
ReplayCatchesUp ==
  rebPc \in {"build", "relock", "replay", "run", "toSwap", "swap"} /\ ~stale =>
    \A p \in Points : (p \in live) = AfterLog(fresh, replaying \o logger, p)

\* A rebuild starts with an empty log unless an operation was logged after the
\* rebuild it was meant for had ended.
CleanStart ==
  rebPc \in {"toFlatten", "flatten"} /\ ~stale => logger = << >>

\* Every operation reaches the subtree being built once and in order: from a
\* clean log, through the copy, to the swap (IkdTree.cpp:248-309).
ReplayExact == CleanStart /\ ReplayCatchesUp

\* "if (!Rebuild_Logger.empty()) printf(... ERROR!!! ...)": the log is empty
\* whenever a rebuild starts (IkdTree.cpp:248-251).
LoggerEmptyAtStart == rebPc \in {"toFlatten", "flatten"} => logger = << >>

\* The tree is a set of points changed by one operation at a time, and its
\* rebuilds are invisible, until an operation is logged too late.
Store == INSTANCE PointStore WITH points <- live, exact <- ~stale
ImplementsStore == Store!StoreSpec

\* A requested rebuild is carried through, unless the process has ended: the
\* waits of the threads for the two locks and the counter never form a cycle.
RebuildEnds == rebuildPtr ~> (~rebuildPtr \/ ~Alive)
=============================================================================
