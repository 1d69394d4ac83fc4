--------------------------- MODULE ExecutorProofs ---------------------------
(***************************************************************************)
(* The safety of Executor for any number of threads, tasks and calls, and  *)
(* that it implements TaskLifecycle: every step of the threads on the two  *)
(* lists is a step of the life cycle of one task, or none.                 *)
(***************************************************************************)
EXTENDS Executor, TLAPS

-----------------------------------------------------------------------------
(* The inductive invariant: the safety properties, and what they rest on.   *)

\* pending.lock is held by the worker whose program counter says so
LockHolder == \A w \in Workers : lock = w <=> wpc[w] \in LockPcs

\* a worker owns a task exactly at the program points that use it
TaskHolder == \A w \in Workers : wtask[w] # NoTask <=> wpc[w] \in HoldPcs

\* a call that is past its first step, but for a push, is about a task
CallTask == \A c \in Callers : cpc[c] \notin {"idle", "push"} => carg[c] # NoTask

\* a pending task has had no finalizer call, a held one has when its worker
\* is in that call, and a task submitted and freed has had exactly one
Accepted == issued \cup {carg[c] : c \in {d \in Callers : cpc[d] = "signal"}}
FinalizerCalls ==
    /\ \A a \in Accepted \ alloc : Len(results[a]) = 1
    /\ \A a \in Elems(pending) : results[a] = <<>>
    /\ \A w \in Workers :
          /\ wpc[w] \in HoldPcs \ {"finalizing"} => results[wtask[w]] = <<>>
          /\ wpc[w] = "finalizing" => Len(results[wtask[w]]) = 1

\* a worker that began an action after the flag was set begins no other, as
\* it cannot pass the test of the flag again
LateStarts ==
    \A w \in Workers :
        /\ late[w] \in {0, 1}
        /\ late[w] = 1 => Destroyed /\ wpc[w] # "start"
        /\ late[w] = 1 /\ wpc[w] = "finalizing" => results[wtask[w]] = <<"ECANCELED">>

\* a task found pending by a cancel is marked, and stays so until it is freed
Doomed == \A a \in doomed : cancelled[a]

\* workers leave their loop only once the flag is set
ExitOnlyDestroyed ==
    \A w \in Workers : wpc[w] \in {"clear", "clearing", "exited"} => Destroyed

\* a worker calls only from its callbacks, the owner only before it destroys
CallsFromCallbacks ==
    \A c \in Callers : cpc[c] # "idle" =>
        /\ c \in Workers => wpc[c] \in {"running", "finalizing"}
        /\ c = Owner => ~Destroyed

\* joined means that every thread has left
JoinedAllExited == dpc \in {"joined", "freed"} => \A w \in Workers : wpc[w] = "exited"

\* the last thread to leave has cleared the list, and nobody can fill it
\* again if only the owner and the workers make calls
ClosedCallers == Callers \subseteq Workers \cup {Owner}
ExitedNonePending ==
    ClosedCallers /\ (\A w \in Workers : wpc[w] = "exited") => pending = <<>>

IInv == /\ TypeOK /\ LockHolder /\ TaskHolder /\ CallTask /\ Ownership
        /\ FinalizerCalls /\ LateStarts
        /\ Doomed /\ CancelledPendingNeverRuns
        /\ ExitOnlyDestroyed /\ CallsFromCallbacks
        /\ JoinedAllExited /\ ExitedNonePending

-----------------------------------------------------------------------------
(* Lists                                                                    *)

\* Taking the head of a list without repetitions removes it from the list.
LEMMA HeadTail ==
    ASSUME NEW S, NEW s \in Seq(S), s # <<>>
    PROVE  /\ Head(s) \in S /\ Tail(s) \in Seq(S)
           /\ Elems(s) = {Head(s)} \cup Elems(Tail(s))
           /\ Distinct(s) => Distinct(Tail(s)) /\ Head(s) \notin Elems(Tail(s))
<1>1. Head(s) \in S /\ Tail(s) \in Seq(S)
  OBVIOUS
<1>2. /\ DOMAIN s = 1..Len(s) /\ Len(s) \in Nat \ {0} /\ Head(s) = s[1]
      /\ DOMAIN Tail(s) = 1..(Len(s) - 1)
      /\ \A i \in 1..(Len(s) - 1) : Tail(s)[i] = s[i + 1]
  OBVIOUS
<1>3. Elems(s) = {Head(s)} \cup Elems(Tail(s))
  <2>1. ASSUME NEW i \in 1..Len(s), i # 1
        PROVE  i - 1 \in 1..(Len(s) - 1) /\ Tail(s)[i - 1] = s[i]
    BY <1>2, <2>1
  <2>2. ASSUME NEW i \in 1..(Len(s) - 1)
        PROVE  i + 1 \in 1..Len(s) /\ Tail(s)[i] = s[i + 1]
    BY <1>2
  <2>3. 1 \in 1..Len(s)
    BY <1>2
  <2>4. \A x \in Elems(s) : x = Head(s) \/ x \in Elems(Tail(s))
    <3>1. SUFFICES ASSUME NEW i \in 1..Len(s), i # 1
                   PROVE  s[i] \in Elems(Tail(s))
      BY <1>2 DEF Elems
    <3>. QED  BY <1>2, <2>1, <3>1 DEF Elems
  <2>5. \A x \in Elems(Tail(s)) : x \in Elems(s)
    BY <1>2, <2>2 DEF Elems
  <2>6. Head(s) \in Elems(s)
    BY <1>2, <2>3 DEF Elems
  <2>. QED  BY <2>4, <2>5, <2>6
<1>4. ASSUME Distinct(s)
      PROVE  Distinct(Tail(s)) /\ Head(s) \notin Elems(Tail(s))
  BY <1>2, <1>4 DEF Distinct, Elems
<1>. QED  BY <1>1, <1>3, <1>4

\* Appending adds one element, and no repetition if it is new.
LEMMA AppendNew ==
    ASSUME NEW S, NEW s \in Seq(S), NEW a \in S
    PROVE  /\ Append(s, a) \in Seq(S)
           /\ Elems(Append(s, a)) = Elems(s) \cup {a}
           /\ Distinct(s) /\ a \notin Elems(s) => Distinct(Append(s, a))
<1>1. Append(s, a) \in Seq(S)
  OBVIOUS
<1>2. /\ DOMAIN s = 1..Len(s) /\ Len(s) \in Nat
      /\ DOMAIN Append(s, a) = 1..(Len(s) + 1)
      /\ Append(s, a)[Len(s) + 1] = a
      /\ \A i \in 1..Len(s) : Append(s, a)[i] = s[i]
  OBVIOUS
<1>3. \A i \in 1..(Len(s) + 1) : i \in 1..Len(s) \/ i = Len(s) + 1
  BY <1>2
<1>4. Elems(Append(s, a)) = Elems(s) \cup {a}
  BY <1>2, <1>3 DEF Elems
<1>5. ASSUME Distinct(s), a \notin Elems(s)
      PROVE  Distinct(Append(s, a))
  BY <1>2, <1>3, <1>5 DEF Distinct, Elems
<1>. QED  BY <1>1, <1>4, <1>5

-----------------------------------------------------------------------------
(* The steps: each part of the invariant is kept by every action.           *)

\* The first finalizer call of a task is the only one in its history.
LEMMA FirstCall ==
    /\ \A r \in Results : Append(<<>>, r) = <<r>> /\ Len(<<r>>) = 1
    /\ \A s \in Seq(Results) : Len(s) = 0 => s = <<>>
  BY DEF Results

\* Every variable keeps its type.
LEMMA TypeStep ==
    TypeOK /\ TaskHolder /\ CallTask /\ [Next]_vars => TypeOK'
<1>a. SUFFICES ASSUME TypeOK, TaskHolder, CallTask, [Next]_vars PROVE TypeOK'
  OBVIOUS
<1>1. ASSUME NEW w \in Workers, Drop(w) PROVE TypeOK'
  <2>1. wtask[w] \in Addr
    BY <1>a, <1>1 DEF TypeOK, TaskHolder, HoldPcs, ActivePcs, Drop
  <2>. QED  BY <1>a, <1>1, <2>1 DEF Drop, Goto, CallFinalizer, FinalResult, heapVars,
               queueVars, callVars, TypeOK, WorkerPcs, HoldPcs, ActivePcs, LockPcs,
               CallPcs, Results, Destroyed
<1>2. ASSUME NEW w \in Workers, Activate(w) PROVE TypeOK'
  <2>1. wtask[w] \in Addr
    BY <1>a, <1>2 DEF TypeOK, TaskHolder, HoldPcs, ActivePcs, Activate
  <2>. QED  BY <1>a, <1>2, <2>1 DEF Activate, Goto, CallFinalizer, FinalResult, heapVars,
               queueVars, callVars, TypeOK, WorkerPcs, HoldPcs, ActivePcs, LockPcs,
               CallPcs, Results, Destroyed
<1>3. ASSUME NEW w \in Workers, Skip(w) PROVE TypeOK'
  <2>1. wtask[w] \in Addr
    BY <1>a, <1>3 DEF TypeOK, TaskHolder, HoldPcs, ActivePcs, Skip
  <2>. QED  BY <1>a, <1>3, <2>1 DEF Skip, Goto, CallFinalizer, FinalResult, heapVars,
               queueVars, callVars, TypeOK, WorkerPcs, HoldPcs, ActivePcs, LockPcs,
               CallPcs, Results, Destroyed
<1>4. ASSUME NEW w \in Workers, Finish(w) PROVE TypeOK'
  <2>1. wtask[w] \in Addr
    BY <1>a, <1>4 DEF TypeOK, TaskHolder, HoldPcs, ActivePcs, Finish
  <2>. QED  BY <1>a, <1>4, <2>1 DEF Finish, Goto, CallFinalizer, FinalResult, heapVars,
               queueVars, callVars, TypeOK, WorkerPcs, HoldPcs, ActivePcs, LockPcs,
               CallPcs, Results, Destroyed
<1>5. ASSUME NEW c \in Callers, SubmitSignal(c) PROVE TypeOK'
  <2>1. carg[c] \in Addr
    BY <1>a, <1>5 DEF TypeOK, CallTask, SubmitSignal, InCall
  <2>. QED  BY <1>a, <1>5, <2>1 DEF SubmitSignal, GoOn, Waiting, CondSignal, heapVars,
               queueVars, callVars, TypeOK, WorkerPcs, HoldPcs, ActivePcs, LockPcs,
               CallPcs, Results, Destroyed
<1>6. ASSUME NEW c \in Callers, CancelPending(c) PROVE TypeOK'
  <2>1. carg[c] \in Addr
    BY <1>a, <1>6 DEF TypeOK, CallTask, CancelPending, InCall
  <2>. QED  BY <1>a, <1>6, <2>1 DEF CancelPending, GoOn, heapVars, queueVars, callVars,
               TypeOK, WorkerPcs, HoldPcs, ActivePcs, LockPcs, CallPcs, Results, Destroyed
<1>. USE DEF TypeOK, WorkerPcs, HoldPcs, ActivePcs, LockPcs, CallPcs, Results, Destroyed,
             heapVars, queueVars, callVars, workerVars, vars
<1>7. ASSUME NEW w \in Workers, PollTask(w) PROVE TypeOK'
  BY <1>a, BoundsAssumption, <1>7 DEF PollTask, Goto
<1>8. ASSUME NEW w \in Workers, PollEmpty(w) PROVE TypeOK'
  BY <1>a, BoundsAssumption, <1>8 DEF PollEmpty, Goto
<1>9. ASSUME NEW w \in Workers, PollCheck(w) PROVE TypeOK'
  BY <1>a, BoundsAssumption, <1>9 DEF PollCheck, Goto
<1>10. ASSUME NEW w \in Workers, CondWait(w) PROVE TypeOK'
  BY <1>a, BoundsAssumption, <1>10 DEF CondWait, Goto
<1>11. ASSUME NEW w \in Workers, Start(w) PROVE TypeOK'
  BY <1>a, BoundsAssumption, <1>11 DEF Start, Goto, Skips
<1>12. ASSUME NEW w \in Workers, Retire(w) PROVE TypeOK'
  BY <1>a, BoundsAssumption, <1>12 DEF Retire, Goto, ListRemove
<1>13. ASSUME NEW w \in Workers, ClearBegin(w) PROVE TypeOK'
  BY <1>a, BoundsAssumption, <1>13 DEF ClearBegin, Goto
<1>14. ASSUME NEW w \in Workers, ClearTask(w) PROVE TypeOK'
  BY <1>a, BoundsAssumption, <1>14 DEF ClearTask, Goto, CallFinalizer
<1>15. ASSUME NEW w \in Workers, ClearEnd(w) PROVE TypeOK'
  BY <1>a, BoundsAssumption, <1>15 DEF ClearEnd, Goto
<1>16. ASSUME NEW w \in Workers, SpuriousWake(w) PROVE TypeOK'
  BY <1>a, BoundsAssumption, <1>16 DEF SpuriousWake
<1>17. ASSUME NEW c \in Callers, Submit(c) PROVE TypeOK'
  BY <1>a, BoundsAssumption, <1>17 DEF Submit, GoOn, MayCall
<1>18. ASSUME NEW c \in Callers, SubmitPush(c) PROVE TypeOK'
  BY <1>a, BoundsAssumption, <1>18 DEF SubmitPush, GoOn, InCall, ListAppend
<1>19. ASSUME NEW c \in Callers, NEW a \in issued, Cancel(c, a) PROVE TypeOK'
  BY <1>a, BoundsAssumption, <1>19 DEF Cancel, GoOn, MayCall
<1>20. ASSUME NEW c \in Callers, CancelActive(c) PROVE TypeOK'
  BY <1>a, BoundsAssumption, <1>20 DEF CancelActive, GoOn, InCall
<1>21. CASE DestroyBegin
  BY <1>a, BoundsAssumption, <1>21 DEF DestroyBegin, DestroyGoto
<1>22. CASE Broadcast
  BY <1>a, BoundsAssumption, <1>22 DEF Broadcast, DestroyGoto, Waiting
<1>23. CASE Join
  BY <1>a, BoundsAssumption, <1>23 DEF Join, DestroyGoto
<1>24. CASE DestroyEnd
  BY <1>a, BoundsAssumption, <1>24 DEF DestroyEnd, DestroyGoto
<1>25. CASE UNCHANGED vars
  BY <1>a, BoundsAssumption, <1>25
<1>. QED  BY <1>a, <1>1, <1>2, <1>3, <1>4, <1>5, <1>6, <1>7, <1>8, <1>9, <1>10, <1>11,
             <1>12, <1>13, <1>14, <1>15, <1>16, <1>17, <1>18, <1>19, <1>20, <1>21, <1>22,
             <1>23, <1>24, <1>25 DEF Next, WorkerStep, Call, CallStep, DestroyStep

\* pending.lock: the worker that took it is the one that releases it.
LEMMA LockStep ==
    TypeOK /\ LockHolder /\ [Next]_vars => LockHolder'
<1>a. SUFFICES ASSUME TypeOK, LockHolder, [Next]_vars PROVE LockHolder'
  OBVIOUS
<1>. USE DEF TypeOK, LockHolder, LockPcs, heapVars, queueVars, callVars, workerVars, vars
<1>1. ASSUME NEW w \in Workers, WorkerStep(w) PROVE LockHolder'
  BY <1>a, ThreadsAssumption, <1>1 DEF WorkerStep, PollTask, PollEmpty, PollCheck,
     CondWait, Drop, Activate, Start, Skip, Finish, Retire, ClearBegin, ClearTask,
     ClearEnd, Goto, CallFinalizer, Skips, FinalResult, ListRemove
<1>2. ASSUME NEW w \in Workers, SpuriousWake(w) PROVE LockHolder'
  BY <1>a, ThreadsAssumption, <1>2 DEF SpuriousWake
<1>3. ASSUME NEW c \in Callers, Call(c) PROVE LockHolder'
  BY <1>a, ThreadsAssumption, <1>3 DEF Call, Submit, Cancel, GoOn, MayCall
<1>4. ASSUME NEW c \in Callers, CallStep(c) PROVE LockHolder'
  BY <1>a, ThreadsAssumption, <1>4 DEF CallStep, SubmitPush, SubmitSignal, CancelActive,
     CancelPending, ListAppend, GoOn, InCall, Waiting, CondSignal
<1>5. CASE DestroyBegin
  BY <1>a, ThreadsAssumption, <1>5 DEF DestroyBegin, DestroyGoto
<1>6. CASE DestroyStep
  BY <1>a, ThreadsAssumption, <1>6 DEF DestroyStep, Broadcast, Join, DestroyEnd,
     DestroyGoto, Waiting
<1>7. CASE UNCHANGED vars
  BY <1>a, ThreadsAssumption, <1>7
<1>. QED  BY <1>a, <1>1, <1>2, <1>3, <1>4, <1>5, <1>6, <1>7 DEF Next

\* A worker's task comes and goes with its program counter.
LEMMA TaskStep ==
    TypeOK /\ TaskHolder /\ [Next]_vars => TaskHolder'
<1>a. SUFFICES ASSUME TypeOK, TaskHolder, [Next]_vars PROVE TaskHolder'
  OBVIOUS
<1>. USE DEF TypeOK, TaskHolder, HoldPcs, ActivePcs, heapVars, queueVars, callVars,
             workerVars, vars
<1>1. ASSUME NEW w \in Workers, WorkerStep(w) PROVE TaskHolder'
  BY <1>a, TasksAssumption, <1>1 DEF WorkerStep, PollTask, PollEmpty, PollCheck, CondWait,
     Drop, Activate, Start, Skip, Finish, Retire, ClearBegin, ClearTask, ClearEnd, Goto,
     CallFinalizer, Skips, FinalResult, ListRemove
<1>2. ASSUME NEW w \in Workers, SpuriousWake(w) PROVE TaskHolder'
  BY <1>a, TasksAssumption, <1>2 DEF SpuriousWake
<1>3. ASSUME NEW c \in Callers, Call(c) PROVE TaskHolder'
  BY <1>a, TasksAssumption, <1>3 DEF Call, Submit, Cancel, GoOn, MayCall
<1>4. ASSUME NEW c \in Callers, CallStep(c) PROVE TaskHolder'
  BY <1>a, TasksAssumption, <1>4 DEF CallStep, SubmitPush, SubmitSignal, CancelActive,
     CancelPending, ListAppend, GoOn, InCall, Waiting, CondSignal
<1>5. CASE DestroyBegin
  BY <1>a, TasksAssumption, <1>5 DEF DestroyBegin, DestroyGoto
<1>6. CASE DestroyStep
  BY <1>a, TasksAssumption, <1>6 DEF DestroyStep, Broadcast, Join, DestroyEnd,
     DestroyGoto, Waiting
<1>7. CASE UNCHANGED vars
  BY <1>a, TasksAssumption, <1>7
<1>. QED  BY <1>a, <1>1, <1>2, <1>3, <1>4, <1>5, <1>6, <1>7 DEF Next

\* A call past the append is about a task.
LEMMA CallTaskStep ==
    TypeOK /\ CallTask /\ [Next]_vars => CallTask'
<1>a. SUFFICES ASSUME TypeOK, CallTask, [Next]_vars PROVE CallTask'
  OBVIOUS
<1>. USE DEF TypeOK, CallTask, heapVars, queueVars, callVars, workerVars, vars
<1>1. ASSUME NEW w \in Workers, WorkerStep(w) PROVE CallTask'
  BY <1>a, TasksAssumption, <1>1 DEF WorkerStep, PollTask, PollEmpty, PollCheck, CondWait,
     Drop, Activate, Start, Skip, Finish, Retire, ClearBegin, ClearTask, ClearEnd, Goto,
     CallFinalizer, Skips, FinalResult, ListRemove
<1>2. ASSUME NEW w \in Workers, SpuriousWake(w) PROVE CallTask'
  BY <1>a, TasksAssumption, <1>2 DEF SpuriousWake
<1>3. ASSUME NEW c \in Callers, Call(c) PROVE CallTask'
  BY <1>a, TasksAssumption, <1>3 DEF Call, Submit, Cancel, GoOn, MayCall
<1>4. ASSUME NEW c \in Callers, CallStep(c) PROVE CallTask'
  <2>1. CASE SubmitPush(c)
    BY <1>a, TasksAssumption, <2>1 DEF SubmitPush, GoOn, InCall
  <2>2. CASE SubmitSignal(c)
    BY <1>a, TasksAssumption, <2>2 DEF SubmitSignal, GoOn, InCall, Waiting, CondSignal
  <2>3. CASE CancelActive(c)
    BY <1>a, TasksAssumption, <2>3 DEF CancelActive, GoOn, InCall
  <2>4. CASE CancelPending(c)
    BY <1>a, TasksAssumption, <2>4 DEF CancelPending, GoOn, InCall
  <2>. QED  BY <1>4, <2>1, <2>2, <2>3, <2>4 DEF CallStep
<1>5. CASE DestroyBegin
  BY <1>a, TasksAssumption, <1>5 DEF DestroyBegin, DestroyGoto
<1>6. CASE DestroyStep
  BY <1>a, TasksAssumption, <1>6 DEF DestroyStep, Broadcast, Join, DestroyEnd,
     DestroyGoto, Waiting
<1>7. CASE UNCHANGED vars
  BY <1>a, TasksAssumption, <1>7
<1>. QED  BY <1>a, <1>1, <1>2, <1>3, <1>4, <1>5, <1>6, <1>7 DEF Next

\* A task moves from place to place and is never copied or lost.
LEMMA OwnershipStep ==
    TypeOK /\ TaskHolder /\ Ownership /\ [Next]_vars => Ownership'
<1>a. SUFFICES ASSUME TypeOK, TaskHolder, Ownership, [Next]_vars PROVE Ownership'
  OBVIOUS
<1>1. ASSUME NEW w \in Workers, PollTask(w) PROVE Ownership'
  <2>1. /\ Elems(pending) = {Head(pending)} \cup Elems(pending')
        /\ Head(pending) \in Addr /\ Head(pending) \notin Elems(pending')
        /\ Distinct(pending')
    BY <1>a, <1>1, HeadTail DEF TypeOK, Ownership, PollTask
  <2>2. /\ wtask' = [wtask EXCEPT ![w] = Head(pending)] /\ wtask[w] = NoTask
        /\ wpc[w] = "poll" /\ wpc' = [wpc EXCEPT ![w] = "polled"]
        /\ UNCHANGED <<active, alloc>>
    BY <1>a, <1>1 DEF PollTask, Goto, heapVars, TaskHolder, HoldPcs, ActivePcs
  <2>3. Held' = Held \cup {Head(pending)}
    BY <1>a, <2>1, <2>2, TasksAssumption DEF TypeOK, Held
  <2>4. Head(pending) \notin Held
    BY <1>a, <2>1 DEF Ownership
  <2>5. \A u, v \in Workers : wtask'[u] = wtask'[v] /\ wtask'[u] # NoTask => u = v
    BY <1>a, <2>1, <2>2, <2>4 DEF TypeOK, Ownership, Held
  <2>6. active' = {wtask'[u] : u \in {v \in Workers : wpc'[v] \in ActivePcs}}
    BY <1>a, <2>2 DEF TypeOK, Ownership, ActivePcs
  <2>. QED  BY <1>a, <2>1, <2>2, <2>3, <2>4, <2>5, <2>6 DEF Ownership
<1>2. ASSUME NEW w \in Workers, ClearTask(w) PROVE Ownership'
  <2>1. /\ Elems(pending) = {Head(pending)} \cup Elems(pending')
        /\ Head(pending) \in Addr /\ Head(pending) \notin Elems(pending')
        /\ Distinct(pending')
    BY <1>a, <1>2, HeadTail DEF TypeOK, Ownership, ClearTask
  <2>2. /\ alloc' = alloc \ {Head(pending)} /\ UNCHANGED <<active, wtask>>
        /\ wpc' = [wpc EXCEPT ![w] = "clearing"] /\ wpc[w] = "clearing"
    BY <1>2 DEF ClearTask, Goto
  <2>3. Head(pending) \notin Held
    BY <1>a, <2>1 DEF Ownership
  <2>. QED  BY <1>a, <2>1, <2>2, <2>3 DEF TypeOK, Ownership, Held, ActivePcs
<1>3. ASSUME NEW c \in Callers, SubmitPush(c) PROVE Ownership'
  <2>1. PICK a \in Addr \ alloc :
            /\ pending' = Append(pending, a) /\ alloc' = alloc \cup {a}
            /\ cancelled' = [cancelled EXCEPT ![a] = FALSE]
            /\ results' = [results EXCEPT ![a] = <<>>]
            /\ cpc' = [cpc EXCEPT ![c] = "signal"] /\ carg' = [carg EXCEPT ![c] = a]
    BY <1>3 DEF SubmitPush, GoOn, ListAppend
  <2>2. /\ Elems(pending') = Elems(pending) \cup {a}
        /\ a \notin Elems(pending) /\ a \notin Held
        /\ Distinct(pending')
    BY <1>a, <2>1, AppendNew DEF TypeOK, Ownership
  <2>3. UNCHANGED <<wpc, wtask, active, issued, late>>
    BY <1>3 DEF SubmitPush, GoOn
  <2>. QED  BY <1>a, <2>1, <2>2, <2>3 DEF Ownership, Held
<1>4. CASE Broadcast
  <2>1. /\ UNCHANGED <<heapVars, queueVars, wtask>>
        /\ \A v \in Workers : wpc'[v] \in ActivePcs <=> wpc[v] \in ActivePcs
    BY <1>a, <1>4 DEF Broadcast, DestroyGoto, Waiting, TypeOK, ActivePcs
  <2>2. {v \in Workers : wpc'[v] \in ActivePcs} = {v \in Workers : wpc[v] \in ActivePcs}
    BY <2>1
  <2>. QED  BY <1>a, <2>1, <2>2 DEF Ownership, Held, heapVars, queueVars
<1>. USE DEF TypeOK, TaskHolder, HoldPcs, ActivePcs, Ownership, Held, heapVars, queueVars,
             callVars, workerVars, vars
<1>5. ASSUME NEW w \in Workers, PollEmpty(w) PROVE Ownership'
  BY <1>a, TasksAssumption, <1>5 DEF PollEmpty, Goto
<1>6. ASSUME NEW w \in Workers, PollCheck(w) PROVE Ownership'
  BY <1>a, TasksAssumption, <1>6 DEF PollCheck, Goto
<1>7. ASSUME NEW w \in Workers, CondWait(w) PROVE Ownership'
  BY <1>a, TasksAssumption, <1>7 DEF CondWait, Goto
<1>8. ASSUME NEW w \in Workers, Drop(w) PROVE Ownership'
  BY <1>a, TasksAssumption, <1>8 DEF Drop, Goto, CallFinalizer
<1>9. ASSUME NEW w \in Workers, Activate(w) PROVE Ownership'
  BY <1>a, TasksAssumption, <1>9 DEF Activate, Goto
<1>10. ASSUME NEW w \in Workers, Start(w) PROVE Ownership'
  BY <1>a, TasksAssumption, <1>10 DEF Start, Goto, Skips
<1>11. ASSUME NEW w \in Workers, Skip(w) PROVE Ownership'
  BY <1>a, TasksAssumption, <1>11 DEF Skip, Goto, CallFinalizer, Skips
<1>12. ASSUME NEW w \in Workers, Finish(w) PROVE Ownership'
  BY <1>a, TasksAssumption, <1>12 DEF Finish, Goto, CallFinalizer, FinalResult
<1>13. ASSUME NEW w \in Workers, Retire(w) PROVE Ownership'
  BY <1>a, TasksAssumption, <1>13 DEF Retire, Goto, ListRemove
<1>14. ASSUME NEW w \in Workers, ClearBegin(w) PROVE Ownership'
  BY <1>a, TasksAssumption, <1>14 DEF ClearBegin, Goto
<1>15. ASSUME NEW w \in Workers, ClearEnd(w) PROVE Ownership'
  BY <1>a, TasksAssumption, <1>15 DEF ClearEnd, Goto
<1>16. ASSUME NEW w \in Workers, SpuriousWake(w) PROVE Ownership'
  BY <1>a, TasksAssumption, <1>16 DEF SpuriousWake
<1>17. ASSUME NEW c \in Callers, Submit(c) PROVE Ownership'
  BY <1>a, TasksAssumption, <1>17 DEF Submit, GoOn, MayCall
<1>18. ASSUME NEW c \in Callers, SubmitSignal(c) PROVE Ownership'
  BY <1>a, TasksAssumption, <1>18 DEF SubmitSignal, GoOn, InCall, Waiting, CondSignal
<1>19. ASSUME NEW c \in Callers, NEW a \in issued, Cancel(c, a) PROVE Ownership'
  BY <1>a, TasksAssumption, <1>19 DEF Cancel, GoOn, MayCall
<1>20. ASSUME NEW c \in Callers, CancelActive(c) PROVE Ownership'
  BY <1>a, TasksAssumption, <1>20 DEF CancelActive, GoOn, InCall
<1>21. ASSUME NEW c \in Callers, CancelPending(c) PROVE Ownership'
  BY <1>a, TasksAssumption, <1>21 DEF CancelPending, GoOn, InCall
<1>22. CASE DestroyBegin
  BY <1>a, TasksAssumption, <1>22 DEF DestroyBegin, DestroyGoto
<1>23. CASE Join
  BY <1>a, TasksAssumption, <1>23 DEF Join, DestroyGoto
<1>24. CASE DestroyEnd
  BY <1>a, TasksAssumption, <1>24 DEF DestroyEnd, DestroyGoto
<1>25. CASE UNCHANGED vars
  BY <1>a, TasksAssumption, <1>25
<1>. QED  BY <1>a, <1>1, <1>2, <1>3, <1>4, <1>5, <1>6, <1>7, <1>8, <1>9, <1>10, <1>11,
             <1>12, <1>13, <1>14, <1>15, <1>16, <1>17, <1>18, <1>19, <1>20, <1>21, <1>22,
             <1>23, <1>24, <1>25 DEF Next, WorkerStep, Call, CallStep, DestroyStep

\* A finalizer call is made for a task that has had none, and the task is
\* freed only after it.
LEMMA FinalizerStep ==
    TypeOK /\ TaskHolder /\ CallTask /\ Ownership /\ FinalizerCalls /\ [Next]_vars => FinalizerCalls'
<1>a. SUFFICES ASSUME TypeOK, TaskHolder, CallTask, Ownership, FinalizerCalls, [Next]_vars PROVE FinalizerCalls'
  OBVIOUS
<1>1. ASSUME NEW w \in Workers, PollTask(w) PROVE FinalizerCalls'
  <2>1. /\ Elems(pending) = {Head(pending)} \cup Elems(pending')
        /\ Head(pending) \in Addr /\ Head(pending) \notin Elems(pending')
        /\ Distinct(pending')
    BY <1>a, <1>1, HeadTail DEF TypeOK, Ownership, PollTask
  <2>2. /\ wtask' = [wtask EXCEPT ![w] = Head(pending)]
        /\ wpc' = [wpc EXCEPT ![w] = "polled"]
        /\ UNCHANGED <<alloc, results, issued, carg, cpc>>
    BY <1>1 DEF PollTask, Goto, heapVars, callVars
  <2>3. results[Head(pending)] = <<>>
    BY <1>a, <2>1 DEF FinalizerCalls
  <2>. QED  BY <1>a, <2>1, <2>2, <2>3 DEF TypeOK, FinalizerCalls, Accepted, HoldPcs,
               ActivePcs
<1>2. ASSUME NEW w \in Workers, Retire(w) PROVE FinalizerCalls'
  <2>1. /\ wtask' = [wtask EXCEPT ![w] = NoTask] /\ alloc' = alloc \ {wtask[w]}
        /\ wpc' = [wpc EXCEPT ![w] = "poll"] /\ wpc[w] = "finalizing"
        /\ UNCHANGED <<pending, results, issued, carg, cpc>>
    BY <1>2 DEF Retire, Goto, callVars
  <2>2. Len(results[wtask[w]]) = 1
    BY <1>a, <2>1 DEF FinalizerCalls, HoldPcs, ActivePcs
  <2>. QED  BY <1>a, <2>1, <2>2 DEF TypeOK, FinalizerCalls, Accepted, HoldPcs, ActivePcs
<1>3. ASSUME NEW w \in Workers, ClearTask(w) PROVE FinalizerCalls'
  <2>1. /\ Elems(pending) = {Head(pending)} \cup Elems(pending')
        /\ Head(pending) \in Addr /\ Head(pending) \notin Elems(pending')
        /\ Distinct(pending')
    BY <1>a, <1>3, HeadTail DEF TypeOK, Ownership, ClearTask
  <2>0. results[Head(pending)] = <<>>
    BY <1>a, <2>1 DEF FinalizerCalls
  <2>2. /\ results' = [results EXCEPT ![Head(pending)] = <<"ECANCELED">>]
        /\ alloc' = alloc \ {Head(pending)} /\ UNCHANGED <<wtask, issued, carg, cpc>>
        /\ wpc' = [wpc EXCEPT ![w] = "clearing"] /\ wpc[w] = "clearing"
    BY <1>a, <2>0, <2>1, <1>3, FirstCall DEF ClearTask, Goto, CallFinalizer, callVars,
       TypeOK, Results
  <2>3. Head(pending) \notin Held
    BY <1>a, <2>1 DEF Ownership
  <2>. QED  BY <1>a, <2>1, <2>2, <2>3, TasksAssumption DEF TypeOK, TaskHolder, CallTask,
               Ownership, Held, HoldPcs, ActivePcs, FinalizerCalls, Accepted
<1>4. ASSUME NEW c \in Callers, SubmitPush(c) PROVE FinalizerCalls'
  <2>1. PICK a \in Addr \ alloc :
            /\ pending' = Append(pending, a) /\ alloc' = alloc \cup {a}
            /\ cancelled' = [cancelled EXCEPT ![a] = FALSE]
            /\ results' = [results EXCEPT ![a] = <<>>]
            /\ cpc' = [cpc EXCEPT ![c] = "signal"] /\ carg' = [carg EXCEPT ![c] = a]
    BY <1>4 DEF SubmitPush, GoOn, ListAppend
  <2>2. /\ Elems(pending') = Elems(pending) \cup {a}
        /\ a \notin Elems(pending) /\ a \notin Held
        /\ Distinct(pending')
    BY <1>a, <2>1, AppendNew DEF TypeOK, Ownership
  <2>3. UNCHANGED <<wpc, wtask, active, issued, late>>
    BY <1>4 DEF SubmitPush, GoOn
  <2>4. Accepted' \subseteq Accepted \cup {a}
    BY <1>a, <2>1, <2>3 DEF Accepted, TypeOK
  <2>5. \A v \in Workers : wpc[v] \in HoldPcs => wtask[v] # a
    BY <1>a, <2>2 DEF TaskHolder, Held
  <2>6. \A x \in Accepted' \ alloc' : Len(results'[x]) = 1
    BY <1>a, <2>1, <2>4 DEF TypeOK, FinalizerCalls
  <2>7. \A x \in Elems(pending') : results'[x] = <<>>
    BY <1>a, <2>1, <2>2 DEF TypeOK, FinalizerCalls
  <2>8. ASSUME NEW v \in Workers
        PROVE  /\ wpc[v] \in HoldPcs \ {"finalizing"} => results'[wtask[v]] = <<>>
               /\ wpc[v] = "finalizing" => Len(results'[wtask[v]]) = 1
    BY <1>a, <2>1, <2>5 DEF TypeOK, FinalizerCalls, HoldPcs, ActivePcs
  <2>. QED  BY <2>3, <2>6, <2>7, <2>8 DEF FinalizerCalls
<1>5. ASSUME NEW c \in Callers, SubmitSignal(c) PROVE FinalizerCalls'
  <2>1. /\ UNCHANGED <<pending, alloc, results, wtask>> /\ cpc[c] = "signal"
        /\ issued' = issued \cup {carg[c]}
        /\ cpc' = [cpc EXCEPT ![c] = "idle"] /\ carg' = [carg EXCEPT ![c] = NoTask]
    BY <1>5 DEF SubmitSignal, InCall, GoOn, heapVars, queueVars
  <2>2. \A v \in Workers : /\ wpc'[v] \in HoldPcs <=> wpc[v] \in HoldPcs
                           /\ wpc'[v] = "finalizing" <=> wpc[v] = "finalizing"
    BY <1>a, <1>5 DEF SubmitSignal, Waiting, CondSignal, TypeOK, HoldPcs, ActivePcs
  <2>3. Accepted' \subseteq Accepted
    BY <1>a, <2>1 DEF Accepted, TypeOK
  <2>4. \A x \in Accepted' \ alloc' : Len(results'[x]) = 1
    BY <1>a, <2>1, <2>3 DEF FinalizerCalls
  <2>5. \A x \in Elems(pending') : results'[x] = <<>>
    BY <1>a, <2>1 DEF FinalizerCalls
  <2>6. ASSUME NEW v \in Workers
        PROVE  /\ wpc'[v] \in HoldPcs \ {"finalizing"} => results'[wtask'[v]] = <<>>
               /\ wpc'[v] = "finalizing" => Len(results'[wtask'[v]]) = 1
    BY <1>a, <2>1, <2>2 DEF FinalizerCalls
  <2>. QED  BY <2>4, <2>5, <2>6 DEF FinalizerCalls
<1>6. ASSUME NEW c \in Callers, CancelActive(c) PROVE FinalizerCalls'
  <2>1. /\ UNCHANGED <<pending, alloc, results, wpc, wtask, issued>>
        /\ cpc[c] = "cancelActive" /\ cpc'[c] # "signal"
        /\ \E pc : cpc' = [cpc EXCEPT ![c] = pc]
        /\ \E a : carg' = [carg EXCEPT ![c] = a]
    BY <1>a, <1>6 DEF CancelActive, InCall, GoOn, queueVars, TypeOK
  <2>2. Accepted' = Accepted
    BY <1>a, <2>1 DEF Accepted, TypeOK
  <2>. QED  BY <1>a, <2>1, <2>2 DEF FinalizerCalls
<1>. USE DEF TypeOK, TaskHolder, CallTask, Ownership, Held, HoldPcs, ActivePcs,
             FinalizerCalls, Accepted, heapVars, queueVars, callVars, workerVars, vars
<1>7. ASSUME NEW w \in Workers, PollEmpty(w) PROVE FinalizerCalls'
  BY <1>a, TasksAssumption, <1>7 DEF PollEmpty, Goto
<1>8. ASSUME NEW w \in Workers, PollCheck(w) PROVE FinalizerCalls'
  BY <1>a, TasksAssumption, <1>8 DEF PollCheck, Goto
<1>9. ASSUME NEW w \in Workers, CondWait(w) PROVE FinalizerCalls'
  BY <1>a, TasksAssumption, <1>9 DEF CondWait, Goto
<1>10. ASSUME NEW w \in Workers, Drop(w) PROVE FinalizerCalls'
  BY <1>a, TasksAssumption, <1>10 DEF Drop, Goto, CallFinalizer
<1>11. ASSUME NEW w \in Workers, Activate(w) PROVE FinalizerCalls'
  BY <1>a, TasksAssumption, <1>11 DEF Activate, Goto
<1>12. ASSUME NEW w \in Workers, Start(w) PROVE FinalizerCalls'
  BY <1>a, TasksAssumption, <1>12 DEF Start, Goto, Skips
<1>13. ASSUME NEW w \in Workers, Skip(w) PROVE FinalizerCalls'
  BY <1>a, TasksAssumption, <1>13 DEF Skip, Goto, CallFinalizer, Skips
<1>14. ASSUME NEW w \in Workers, Finish(w) PROVE FinalizerCalls'
  BY <1>a, TasksAssumption, <1>14 DEF Finish, Goto, CallFinalizer, FinalResult
<1>15. ASSUME NEW w \in Workers, ClearBegin(w) PROVE FinalizerCalls'
  BY <1>a, TasksAssumption, <1>15 DEF ClearBegin, Goto
<1>16. ASSUME NEW w \in Workers, ClearEnd(w) PROVE FinalizerCalls'
  BY <1>a, TasksAssumption, <1>16 DEF ClearEnd, Goto
<1>17. ASSUME NEW w \in Workers, SpuriousWake(w) PROVE FinalizerCalls'
  BY <1>a, TasksAssumption, <1>17 DEF SpuriousWake
<1>18. ASSUME NEW c \in Callers, Submit(c) PROVE FinalizerCalls'
  BY <1>a, TasksAssumption, <1>18 DEF Submit, GoOn, MayCall
<1>19. ASSUME NEW c \in Callers, NEW a \in issued, Cancel(c, a) PROVE FinalizerCalls'
  BY <1>a, TasksAssumption, <1>19 DEF Cancel, GoOn, MayCall
<1>20. ASSUME NEW c \in Callers, CancelPending(c) PROVE FinalizerCalls'
  BY <1>a, TasksAssumption, <1>20 DEF CancelPending, GoOn, InCall
<1>21. CASE DestroyBegin
  BY <1>a, TasksAssumption, <1>21 DEF DestroyBegin, DestroyGoto
<1>22. CASE Broadcast
  BY <1>a, TasksAssumption, <1>22 DEF Broadcast, DestroyGoto, Waiting
<1>23. CASE Join
  BY <1>a, TasksAssumption, <1>23 DEF Join, DestroyGoto
<1>24. CASE DestroyEnd
  BY <1>a, TasksAssumption, <1>24 DEF DestroyEnd, DestroyGoto
<1>25. CASE UNCHANGED vars
  BY <1>a, TasksAssumption, <1>25
<1>. QED  BY <1>a, <1>1, <1>2, <1>3, <1>4, <1>5, <1>6, <1>7, <1>8, <1>9, <1>10, <1>11,
             <1>12, <1>13, <1>14, <1>15, <1>16, <1>17, <1>18, <1>19, <1>20, <1>21, <1>22,
             <1>23, <1>24, <1>25 DEF Next, WorkerStep, Call, CallStep, DestroyStep

\* The test of the flag in the loop lets no second late action through.
LEMMA LateStep ==
    TypeOK /\ TaskHolder /\ Ownership /\ FinalizerCalls /\ LateStarts /\ [Next]_vars => LateStarts'
<1>a. SUFFICES ASSUME TypeOK, TaskHolder, Ownership, FinalizerCalls, LateStarts, [Next]_vars PROVE LateStarts'
  OBVIOUS
<1>1. ASSUME NEW w \in Workers, Finish(w) PROVE LateStarts'
  <2>1. /\ wpc' = [wpc EXCEPT ![w] = "finalizing"] /\ wpc[w] = "running"
        /\ UNCHANGED <<wtask, late, dpc>>
    BY <1>1 DEF Finish, Goto
  <2>2. wtask[w] \in Addr /\ results[wtask[w]] = <<>>
    <3>1. wtask[w] \in Addr /\ Len(results[wtask[w]]) = 0
      BY <1>a, <2>1 DEF TypeOK, TaskHolder, FinalizerCalls, HoldPcs, ActivePcs
    <3>. QED  BY <1>a, <3>1, FirstCall DEF TypeOK
  <2>3. Destroyed => results' = [results EXCEPT ![wtask[w]] = <<"ECANCELED">>]
    BY <1>a, <1>1, <2>2, FirstCall DEF Finish, FinalResult, CallFinalizer, TypeOK, Results
  <2>4. \E r : results' = [results EXCEPT ![wtask[w]] = r]
    BY <1>1 DEF Finish, CallFinalizer
  <2>5. \A v \in Workers : v # w /\ wpc[v] = "finalizing" => wtask[v] # wtask[w]
    BY <1>a, <2>2, TasksAssumption DEF Ownership
  <2>. QED  BY <1>a, <2>1, <2>2, <2>3, <2>4, <2>5 DEF TypeOK, LateStarts, Destroyed
<1>2. ASSUME NEW w \in Workers, ClearTask(w) PROVE LateStarts'
  <2>1. /\ Elems(pending) = {Head(pending)} \cup Elems(pending')
        /\ Head(pending) \in Addr /\ Head(pending) \notin Elems(pending')
        /\ Distinct(pending')
    BY <1>a, <1>2, HeadTail DEF TypeOK, Ownership, ClearTask
  <2>0. results[Head(pending)] = <<>>
    BY <1>a, <2>1 DEF FinalizerCalls
  <2>2. /\ results' = [results EXCEPT ![Head(pending)] = <<"ECANCELED">>]
        /\ alloc' = alloc \ {Head(pending)} /\ UNCHANGED <<wtask, late, dpc>>
        /\ wpc' = [wpc EXCEPT ![w] = "clearing"] /\ wpc[w] = "clearing"
    BY <1>a, <2>0, <2>1, <1>2, FirstCall DEF ClearTask, Goto, CallFinalizer, TypeOK, Results
  <2>3. Head(pending) \notin Held
    BY <1>a, <2>1 DEF Ownership
  <2>4. \A v \in Workers : wpc[v] = "finalizing" => wtask[v] # Head(pending)
    BY <1>a, <2>3 DEF TaskHolder, Held, HoldPcs, ActivePcs
  <2>. QED  BY <1>a, <2>1, <2>2, <2>4 DEF TypeOK, LateStarts, Destroyed
<1>. USE DEF TypeOK, TaskHolder, Ownership, Held, HoldPcs, ActivePcs, FinalizerCalls,
             LateStarts, Destroyed, heapVars, queueVars, callVars, workerVars, vars
<1>3. ASSUME NEW w \in Workers, PollTask(w) PROVE LateStarts'
  BY <1>a, TasksAssumption, <1>3 DEF PollTask, Goto
<1>4. ASSUME NEW w \in Workers, PollEmpty(w) PROVE LateStarts'
  BY <1>a, TasksAssumption, <1>4 DEF PollEmpty, Goto
<1>5. ASSUME NEW w \in Workers, PollCheck(w) PROVE LateStarts'
  BY <1>a, TasksAssumption, <1>5 DEF PollCheck, Goto
<1>6. ASSUME NEW w \in Workers, CondWait(w) PROVE LateStarts'
  BY <1>a, TasksAssumption, <1>6 DEF CondWait, Goto
<1>7. ASSUME NEW w \in Workers, Drop(w) PROVE LateStarts'
  BY <1>a, TasksAssumption, <1>7 DEF Drop, Goto, CallFinalizer
<1>8. ASSUME NEW w \in Workers, Activate(w) PROVE LateStarts'
  BY <1>a, TasksAssumption, <1>8 DEF Activate, Goto
<1>9. ASSUME NEW w \in Workers, Start(w) PROVE LateStarts'
  BY <1>a, TasksAssumption, <1>9 DEF Start, Goto, Skips
<1>10. ASSUME NEW w \in Workers, Skip(w) PROVE LateStarts'
  BY <1>a, TasksAssumption, <1>10 DEF Skip, Goto, CallFinalizer, Skips
<1>11. ASSUME NEW w \in Workers, Retire(w) PROVE LateStarts'
  BY <1>a, TasksAssumption, <1>11 DEF Retire, Goto, ListRemove
<1>12. ASSUME NEW w \in Workers, ClearBegin(w) PROVE LateStarts'
  BY <1>a, TasksAssumption, <1>12 DEF ClearBegin, Goto
<1>13. ASSUME NEW w \in Workers, ClearEnd(w) PROVE LateStarts'
  BY <1>a, TasksAssumption, <1>13 DEF ClearEnd, Goto
<1>14. ASSUME NEW w \in Workers, SpuriousWake(w) PROVE LateStarts'
  BY <1>a, TasksAssumption, <1>14 DEF SpuriousWake
<1>15. ASSUME NEW c \in Callers, Submit(c) PROVE LateStarts'
  BY <1>a, TasksAssumption, <1>15 DEF Submit, GoOn, MayCall
<1>16. ASSUME NEW c \in Callers, SubmitPush(c) PROVE LateStarts'
  BY <1>a, TasksAssumption, <1>16 DEF SubmitPush, GoOn, InCall, ListAppend
<1>17. ASSUME NEW c \in Callers, SubmitSignal(c) PROVE LateStarts'
  BY <1>a, TasksAssumption, <1>17 DEF SubmitSignal, GoOn, InCall, Waiting, CondSignal
<1>18. ASSUME NEW c \in Callers, NEW a \in issued, Cancel(c, a) PROVE LateStarts'
  BY <1>a, TasksAssumption, <1>18 DEF Cancel, GoOn, MayCall
<1>19. ASSUME NEW c \in Callers, CancelActive(c) PROVE LateStarts'
  BY <1>a, TasksAssumption, <1>19 DEF CancelActive, GoOn, InCall
<1>20. ASSUME NEW c \in Callers, CancelPending(c) PROVE LateStarts'
  BY <1>a, TasksAssumption, <1>20 DEF CancelPending, GoOn, InCall
<1>21. CASE DestroyBegin
  BY <1>a, TasksAssumption, <1>21 DEF DestroyBegin, DestroyGoto
<1>22. CASE Broadcast
  BY <1>a, TasksAssumption, <1>22 DEF Broadcast, DestroyGoto, Waiting
<1>23. CASE Join
  BY <1>a, TasksAssumption, <1>23 DEF Join, DestroyGoto
<1>24. CASE DestroyEnd
  BY <1>a, TasksAssumption, <1>24 DEF DestroyEnd, DestroyGoto
<1>25. CASE UNCHANGED vars
  BY <1>a, TasksAssumption, <1>25
<1>. QED  BY <1>a, <1>1, <1>2, <1>3, <1>4, <1>5, <1>6, <1>7, <1>8, <1>9, <1>10, <1>11,
             <1>12, <1>13, <1>14, <1>15, <1>16, <1>17, <1>18, <1>19, <1>20, <1>21, <1>22,
             <1>23, <1>24, <1>25 DEF Next, WorkerStep, Call, CallStep, DestroyStep

\* The mark of a cancelled task is never cleared while the task lives.
LEMMA DoomedStep ==
    TypeOK /\ CallTask /\ Doomed /\ [Next]_vars => Doomed'
<1>a. SUFFICES ASSUME TypeOK, CallTask, Doomed, [Next]_vars PROVE Doomed'
  OBVIOUS
<1>. USE DEF TypeOK, CallTask, Doomed, heapVars, queueVars, callVars, workerVars, vars
<1>1. ASSUME NEW w \in Workers, WorkerStep(w) PROVE Doomed'
  BY <1>a, <1>1 DEF WorkerStep, PollTask, PollEmpty, PollCheck, CondWait, Drop, Activate,
     Start, Skip, Finish, Retire, ClearBegin, ClearTask, ClearEnd, Goto, CallFinalizer,
     Skips, FinalResult, ListRemove
<1>2. ASSUME NEW w \in Workers, SpuriousWake(w) PROVE Doomed'
  BY <1>a, <1>2 DEF SpuriousWake
<1>3. ASSUME NEW c \in Callers, Call(c) PROVE Doomed'
  BY <1>a, <1>3 DEF Call, Submit, Cancel, GoOn, MayCall
<1>4. ASSUME NEW c \in Callers, CallStep(c) PROVE Doomed'
  BY <1>a, <1>4 DEF CallStep, SubmitPush, SubmitSignal, CancelActive, CancelPending,
     ListAppend, GoOn, InCall, Waiting, CondSignal
<1>5. CASE DestroyBegin
  BY <1>a, <1>5 DEF DestroyBegin, DestroyGoto
<1>6. CASE DestroyStep
  BY <1>a, <1>6 DEF DestroyStep, Broadcast, Join, DestroyEnd, DestroyGoto, Waiting
<1>7. CASE UNCHANGED vars
  BY <1>a, <1>7
<1>. QED  BY <1>a, <1>1, <1>2, <1>3, <1>4, <1>5, <1>6, <1>7 DEF Next

\* A cancel finds pending only tasks that no worker is running.
LEMMA CancelStep ==
    TypeOK /\ TaskHolder /\ Ownership /\ Doomed /\ CancelledPendingNeverRuns /\ [Next]_vars => CancelledPendingNeverRuns'
<1>a. SUFFICES ASSUME TypeOK, TaskHolder, Ownership, Doomed, CancelledPendingNeverRuns, [Next]_vars PROVE CancelledPendingNeverRuns'
  OBVIOUS
<1>. USE DEF TypeOK, TaskHolder, Ownership, Held, HoldPcs, ActivePcs, Doomed,
             CancelledPendingNeverRuns, heapVars, queueVars, callVars, workerVars, vars
<1>1. ASSUME NEW w \in Workers, WorkerStep(w) PROVE CancelledPendingNeverRuns'
  BY <1>a, <1>1 DEF WorkerStep, PollTask, PollEmpty, PollCheck, CondWait, Drop, Activate,
     Start, Skip, Finish, Retire, ClearBegin, ClearTask, ClearEnd, Goto, CallFinalizer,
     Skips, FinalResult, ListRemove
<1>2. ASSUME NEW w \in Workers, SpuriousWake(w) PROVE CancelledPendingNeverRuns'
  BY <1>a, <1>2 DEF SpuriousWake
<1>3. ASSUME NEW c \in Callers, Call(c) PROVE CancelledPendingNeverRuns'
  BY <1>a, <1>3 DEF Call, Submit, Cancel, GoOn, MayCall
<1>4. ASSUME NEW c \in Callers, CallStep(c) PROVE CancelledPendingNeverRuns'
  BY <1>a, <1>4 DEF CallStep, SubmitPush, SubmitSignal, CancelActive, CancelPending,
     ListAppend, GoOn, InCall, Waiting, CondSignal
<1>5. CASE DestroyBegin
  BY <1>a, <1>5 DEF DestroyBegin, DestroyGoto
<1>6. CASE DestroyStep
  BY <1>a, <1>6 DEF DestroyStep, Broadcast, Join, DestroyEnd, DestroyGoto, Waiting
<1>7. CASE UNCHANGED vars
  BY <1>a, <1>7
<1>. QED  BY <1>a, <1>1, <1>2, <1>3, <1>4, <1>5, <1>6, <1>7 DEF Next

\* A worker leaves only after reading the flag set.
LEMMA ExitStep ==
    TypeOK /\ ExitOnlyDestroyed /\ [Next]_vars => ExitOnlyDestroyed'
<1>a. SUFFICES ASSUME TypeOK, ExitOnlyDestroyed, [Next]_vars PROVE ExitOnlyDestroyed'
  OBVIOUS
<1>. USE DEF TypeOK, ExitOnlyDestroyed, Destroyed, heapVars, queueVars, callVars,
             workerVars, vars
<1>1. ASSUME NEW w \in Workers, WorkerStep(w) PROVE ExitOnlyDestroyed'
  BY <1>a, <1>1 DEF WorkerStep, PollTask, PollEmpty, PollCheck, CondWait, Drop, Activate,
     Start, Skip, Finish, Retire, ClearBegin, ClearTask, ClearEnd, Goto, CallFinalizer,
     Skips, FinalResult, ListRemove
<1>2. ASSUME NEW w \in Workers, SpuriousWake(w) PROVE ExitOnlyDestroyed'
  BY <1>a, <1>2 DEF SpuriousWake
<1>3. ASSUME NEW c \in Callers, Call(c) PROVE ExitOnlyDestroyed'
  BY <1>a, <1>3 DEF Call, Submit, Cancel, GoOn, MayCall
<1>4. ASSUME NEW c \in Callers, CallStep(c) PROVE ExitOnlyDestroyed'
  BY <1>a, <1>4 DEF CallStep, SubmitPush, SubmitSignal, CancelActive, CancelPending,
     ListAppend, GoOn, InCall, Waiting, CondSignal
<1>5. CASE DestroyBegin
  BY <1>a, <1>5 DEF DestroyBegin, DestroyGoto
<1>6. CASE DestroyStep
  BY <1>a, <1>6 DEF DestroyStep, Broadcast, Join, DestroyEnd, DestroyGoto, Waiting
<1>7. CASE UNCHANGED vars
  BY <1>a, <1>7
<1>. QED  BY <1>a, <1>1, <1>2, <1>3, <1>4, <1>5, <1>6, <1>7 DEF Next

\* Callbacks wait for the calls they make, and so does executor_destroy.
LEMMA CallsStep ==
    TypeOK /\ CallsFromCallbacks /\ [Next]_vars => CallsFromCallbacks'
<1>a. SUFFICES ASSUME TypeOK, CallsFromCallbacks, [Next]_vars PROVE CallsFromCallbacks'
  OBVIOUS
<1>. USE DEF TypeOK, CallsFromCallbacks, Destroyed, CallbackReturns, MayCall, heapVars,
             queueVars, callVars, workerVars, vars
<1>1. ASSUME NEW w \in Workers, WorkerStep(w) PROVE CallsFromCallbacks'
  BY <1>a, ThreadsAssumption, <1>1 DEF WorkerStep, PollTask, PollEmpty, PollCheck,
     CondWait, Drop, Activate, Start, Skip, Finish, Retire, ClearBegin, ClearTask,
     ClearEnd, Goto, CallFinalizer, Skips, FinalResult, ListRemove
<1>2. ASSUME NEW w \in Workers, SpuriousWake(w) PROVE CallsFromCallbacks'
  BY <1>a, ThreadsAssumption, <1>2 DEF SpuriousWake
<1>3. ASSUME NEW c \in Callers, Call(c) PROVE CallsFromCallbacks'
  BY <1>a, ThreadsAssumption, <1>3 DEF Call, Submit, Cancel, GoOn, MayCall
<1>4. ASSUME NEW c \in Callers, CallStep(c) PROVE CallsFromCallbacks'
  BY <1>a, ThreadsAssumption, <1>4 DEF CallStep, SubmitPush, SubmitSignal, CancelActive,
     CancelPending, ListAppend, GoOn, InCall, Waiting, CondSignal
<1>5. CASE DestroyBegin
  BY <1>a, ThreadsAssumption, <1>5 DEF DestroyBegin, DestroyGoto
<1>6. CASE DestroyStep
  BY <1>a, ThreadsAssumption, <1>6 DEF DestroyStep, Broadcast, Join, DestroyEnd,
     DestroyGoto, Waiting
<1>7. CASE UNCHANGED vars
  BY <1>a, ThreadsAssumption, <1>7
<1>. QED  BY <1>a, <1>1, <1>2, <1>3, <1>4, <1>5, <1>6, <1>7 DEF Next

\* The join waits for every thread.
LEMMA JoinStep ==
    TypeOK /\ ExitOnlyDestroyed /\ JoinedAllExited /\ [Next]_vars => JoinedAllExited'
<1>a. SUFFICES ASSUME TypeOK, ExitOnlyDestroyed, JoinedAllExited, [Next]_vars PROVE JoinedAllExited'
  OBVIOUS
<1>. USE DEF TypeOK, ExitOnlyDestroyed, JoinedAllExited, Destroyed, heapVars, queueVars,
             callVars, workerVars, vars
<1>1. ASSUME NEW w \in Workers, WorkerStep(w) PROVE JoinedAllExited'
  BY <1>a, <1>1 DEF WorkerStep, PollTask, PollEmpty, PollCheck, CondWait, Drop, Activate,
     Start, Skip, Finish, Retire, ClearBegin, ClearTask, ClearEnd, Goto, CallFinalizer,
     Skips, FinalResult, ListRemove
<1>2. ASSUME NEW w \in Workers, SpuriousWake(w) PROVE JoinedAllExited'
  BY <1>a, <1>2 DEF SpuriousWake
<1>3. ASSUME NEW c \in Callers, Call(c) PROVE JoinedAllExited'
  BY <1>a, <1>3 DEF Call, Submit, Cancel, GoOn, MayCall
<1>4. ASSUME NEW c \in Callers, CallStep(c) PROVE JoinedAllExited'
  BY <1>a, <1>4 DEF CallStep, SubmitPush, SubmitSignal, CancelActive, CancelPending,
     ListAppend, GoOn, InCall, Waiting, CondSignal
<1>5. CASE DestroyBegin
  BY <1>a, <1>5 DEF DestroyBegin, DestroyGoto
<1>6. CASE DestroyStep
  BY <1>a, <1>6 DEF DestroyStep, Broadcast, Join, DestroyEnd, DestroyGoto, Waiting
<1>7. CASE UNCHANGED vars
  BY <1>a, <1>7
<1>. QED  BY <1>a, <1>1, <1>2, <1>3, <1>4, <1>5, <1>6, <1>7 DEF Next

\* Whoever could still append is a worker that has not left yet.
LEMMA ExitedStep ==
    TypeOK /\ ExitOnlyDestroyed /\ CallsFromCallbacks /\ ExitedNonePending /\ [Next]_vars => ExitedNonePending'
<1>a. SUFFICES ASSUME TypeOK, ExitOnlyDestroyed, CallsFromCallbacks, ExitedNonePending, [Next]_vars PROVE ExitedNonePending'
  OBVIOUS
<1>. USE DEF TypeOK, ExitOnlyDestroyed, CallsFromCallbacks, ExitedNonePending,
             ClosedCallers, Destroyed, heapVars, queueVars, callVars, workerVars, vars
<1>1. ASSUME NEW w \in Workers, WorkerStep(w) PROVE ExitedNonePending'
  BY <1>a, ThreadsAssumption, <1>1 DEF WorkerStep, PollTask, PollEmpty, PollCheck,
     CondWait, Drop, Activate, Start, Skip, Finish, Retire, ClearBegin, ClearTask,
     ClearEnd, Goto, CallFinalizer, Skips, FinalResult, ListRemove
<1>2. ASSUME NEW w \in Workers, SpuriousWake(w) PROVE ExitedNonePending'
  BY <1>a, ThreadsAssumption, <1>2 DEF SpuriousWake
<1>3. ASSUME NEW c \in Callers, Call(c) PROVE ExitedNonePending'
  BY <1>a, ThreadsAssumption, <1>3 DEF Call, Submit, Cancel, GoOn, MayCall
<1>4. ASSUME NEW c \in Callers, CallStep(c) PROVE ExitedNonePending'
  BY <1>a, ThreadsAssumption, <1>4 DEF CallStep, SubmitPush, SubmitSignal, CancelActive,
     CancelPending, ListAppend, GoOn, InCall, Waiting, CondSignal
<1>5. CASE DestroyBegin
  BY <1>a, ThreadsAssumption, <1>5 DEF DestroyBegin, DestroyGoto
<1>6. CASE DestroyStep
  BY <1>a, ThreadsAssumption, <1>6 DEF DestroyStep, Broadcast, Join, DestroyEnd,
     DestroyGoto, Waiting
<1>7. CASE UNCHANGED vars
  BY <1>a, ThreadsAssumption, <1>7
<1>. QED  BY <1>a, <1>1, <1>2, <1>3, <1>4, <1>5, <1>6, <1>7 DEF Next
-----------------------------------------------------------------------------
(* The theorems                                                             *)

\* executor_create establishes the invariant.
LEMMA InitInv == Init => IInv
<1>1. SUFFICES ASSUME Init PROVE IInv
  OBVIOUS
<1>2. TypeOK
  BY <1>1, BoundsAssumption DEF Init, TypeOK, WorkerPcs, CallPcs, Results
<1>3. LockHolder /\ TaskHolder /\ CallTask
  BY <1>1, ThreadsAssumption DEF Init, LockHolder, LockPcs, TaskHolder, HoldPcs,
     ActivePcs, CallTask
<1>4. Elems(pending) = {} /\ Held = {} /\ Distinct(pending)
  BY <1>1 DEF Init, Elems, Held, Distinct
<1>5. Ownership
  BY <1>1, <1>4 DEF Init, Ownership, ActivePcs
<1>6. FinalizerCalls
  BY <1>1, <1>4 DEF Init, FinalizerCalls, Accepted, HoldPcs, ActivePcs
<1>7. LateStarts /\ Doomed /\ CancelledPendingNeverRuns
  BY <1>1 DEF Init, LateStarts, Doomed, CancelledPendingNeverRuns
<1>8. /\ ExitOnlyDestroyed /\ CallsFromCallbacks
      /\ JoinedAllExited /\ ExitedNonePending
  BY <1>1 DEF Init, ExitOnlyDestroyed, CallsFromCallbacks, JoinedAllExited,
     ExitedNonePending
<1>. QED  BY <1>2, <1>3, <1>5, <1>6, <1>7, <1>8 DEF IInv

\* The invariant is inductive, so it always holds.
THEOREM Invariance == Spec => []IInv
<1>1. IInv /\ [Next]_vars => IInv'
  BY TypeStep, LockStep, TaskStep, CallTaskStep, OwnershipStep, FinalizerStep, LateStep,
     DoomedStep, CancelStep, ExitStep, CallsStep, JoinStep, ExitedStep DEF IInv
<1>. QED  BY InitInv, <1>1, PTL DEF Spec

\* Every variable keeps its type, whatever the number of threads and tasks.
THEOREM TypeCorrect == Spec => []TypeOK
<1>1. IInv => TypeOK
  BY DEF IInv
<1>. QED  BY Invariance, <1>1, PTL

\* No task is ever in two places, or live and in none (executor.c:180-195).
THEOREM OwnershipSafe == Spec => []Ownership
<1>1. IInv => Ownership
  BY DEF IInv
<1>. QED  BY Invariance, <1>1, PTL

\* Every task is finalized exactly once before it is freed (executor.h:30).
THEOREM FinalizedOnceSafe == Spec => []FinalizedOnce
<1>1. ASSUME IInv PROVE FinalizedOnce
  <2>1. \A a \in issued \ alloc : Len(results[a]) = 1
    BY <1>1 DEF IInv, FinalizerCalls, Accepted
  <2>2. \A a \in Elems(pending) : results[a] = <<>>
    BY <1>1 DEF IInv, FinalizerCalls
  <2>3. ASSUME NEW w \in Workers, wpc[w] \in HoldPcs
        PROVE  Len(results[wtask[w]]) = IF wpc[w] = "finalizing" THEN 1 ELSE 0
    <3>1. CASE wpc[w] = "finalizing"
      BY <1>1, <2>3, <3>1 DEF IInv, FinalizerCalls
    <3>2. CASE wpc[w] # "finalizing"
      <4>1. results[wtask[w]] = <<>>
        BY <1>1, <2>3, <3>2 DEF IInv, FinalizerCalls
      <4>. QED  BY <3>2, <4>1
    <3>. QED  BY <3>1, <3>2
  <2>. QED  BY <2>1, <2>2, <2>3 DEF FinalizedOnce
<1>. QED  BY Invariance, <1>1, PTL

\* At most one action per worker begins after the executor is destroyed, and
\* its task is finalized as cancelled (executor.c:181-190).
THEOREM LateStartBoundedSafe == Spec => []LateStartBounded
<1>1. IInv => LateStartBounded
  BY DEF IInv, LateStarts, LateStartBounded
<1>. QED  BY Invariance, <1>1, PTL

\* A task that a cancel found pending does not run (executor.c:187).
THEOREM CancelledPendingSafe == Spec => []CancelledPendingNeverRuns
<1>1. IInv => CancelledPendingNeverRuns
  BY DEF IInv
<1>. QED  BY Invariance, <1>1, PTL

\* No task outlives the join (executor.h:22), on the condition under which that
\* is true: nobody but the owner and the workers makes calls.
THEOREM AllFinalizedSafe ==
    ASSUME ClosedCallers PROVE Spec => []AllFinalizedAtJoin
<1>1. ASSUME IInv PROVE AllFinalizedAtJoin
  <2>1. SUFFICES ASSUME dpc \in {"joined", "freed"}
                 PROVE  alloc = {} /\ pending = <<>>
    BY DEF AllFinalizedAtJoin
  <2>2. \A w \in Workers : wpc[w] = "exited"
    BY <1>1, <2>1 DEF IInv, JoinedAllExited
  <2>3. pending = <<>>
    BY ClosedCallers, <1>1, <2>2 DEF IInv, ExitedNonePending
  <2>4. Held = {}
    BY <1>1, <2>2 DEF IInv, TaskHolder, HoldPcs, ActivePcs, Held
  <2>5. Elems(pending) = {}
    BY <2>3 DEF Elems
  <2>. QED  BY <1>1, <2>3, <2>4, <2>5 DEF IInv, Ownership
<1>. QED  BY Invariance, <1>1, PTL

-----------------------------------------------------------------------------
(* Where a task is in its life                                              *)

\* the phase of a task in the hands of a worker
Progress(pc) == IF pc \in {"polled", "start"} THEN "taken" ELSE pc

\* phaseBar, without the choice of the worker
PhasesRight ==
    /\ phaseBar = [a \in Addr |-> phaseBar[a]]
    /\ \A a \in Elems(pending) : phaseBar[a] = "queued"
    /\ \A w \in Workers : wtask[w] # NoTask => phaseBar[wtask[w]] = Progress(wpc[w])
    /\ \A a \in Addr \ alloc : phaseBar[a] = "absent"

\* A held task has one holder, so the choice is no choice.
LEMMA PhaseIs == IInv => PhasesRight
<1>. SUFFICES ASSUME IInv PROVE PhasesRight
  OBVIOUS
<1>. USE DEF IInv, TypeOK, Ownership
<1>1. Elems(pending) \subseteq Addr
  BY DEF Elems
<1>2. \A a \in Elems(pending) : phaseBar[a] = "queued"
  BY <1>1 DEF phaseBar
<1>3. ASSUME NEW w \in Workers, wtask[w] # NoTask
      PROVE  phaseBar[wtask[w]] = Progress(wpc[w])
  <2>1. wtask[w] \in Addr /\ wtask[w] \notin Elems(pending)
    BY <1>3 DEF Held
  <2>2. (CHOOSE v \in Workers : wtask[v] = wtask[w]) = w
    BY <1>3
  <2>. QED  BY <2>1, <2>2 DEF phaseBar, Progress
<1>4. ASSUME NEW a \in Addr \ alloc PROVE phaseBar[a] = "absent"
  <2>1. a \notin Elems(pending) /\ \A w \in Workers : wtask[w] # a
    BY <1>4, TasksAssumption DEF Held
  <2>. QED  BY <1>4, <2>1 DEF phaseBar
<1>. QED  BY <1>2, <1>3, <1>4 DEF PhasesRight, phaseBar

LEMMA PhaseIsNext == IInv' => PhasesRight'
  BY PhaseIs, PTL

\* A task that stays in its place stays in its phase.
LEMMA Unmoved ==
    ASSUME IInv, IInv', NEW a \in Addr,
           a \in Elems(pending') <=> a \in Elems(pending),
           \A w \in Workers : /\ wtask'[w] = a <=> wtask[w] = a
                              /\ wtask[w] = a => Progress(wpc'[w]) = Progress(wpc[w])
    PROVE  phaseBar'[a] = phaseBar[a]
<1>. USE PhaseIs, PhaseIsNext DEF PhasesRight
<1>1. CASE a \in Elems(pending)
  BY <1>1
<1>2. CASE \E w \in Workers : wtask[w] = a
  <2>1. PICK w \in Workers : wtask[w] = a
    BY <1>2
  <2>. QED  BY <2>1, TasksAssumption
<1>3. CASE a \notin Elems(pending) /\ \A w \in Workers : wtask[w] # a
  <2>1. a \notin alloc /\ a \notin alloc'
    BY <1>3 DEF IInv, Ownership, Held
  <2>. QED  BY <2>1
<1>. QED  BY <1>1, <1>2, <1>3

\* One task moves.
LEMMA OneMoves ==
    ASSUME IInv, IInv', NEW a \in Addr, NEW to, phaseBar'[a] = to,
           \A b \in Addr \ {a} :
              /\ b \in Elems(pending') <=> b \in Elems(pending)
              /\ \A w \in Workers : /\ wtask'[w] = b <=> wtask[w] = b
                                    /\ wtask[w] = b => Progress(wpc'[w]) = Progress(wpc[w])
    PROVE  phaseBar' = [phaseBar EXCEPT ![a] = to]
<1>1. \A b \in Addr \ {a} : phaseBar'[b] = phaseBar[b]
  BY Unmoved
<1>. QED  BY <1>1, PhaseIs, PhaseIsNext DEF PhasesRight

\* None does.
LEMMA NoneMoves ==
    ASSUME IInv, IInv', pending' = pending, wtask' = wtask,
           \A w \in Workers : wtask[w] # NoTask => Progress(wpc'[w]) = Progress(wpc[w])
    PROVE  phaseBar' = phaseBar
<1>1. \A b \in Addr : phaseBar'[b] = phaseBar[b]
  BY Unmoved, TasksAssumption
<1>. QED  BY <1>1, PhaseIs, PhaseIsNext DEF PhasesRight

-----------------------------------------------------------------------------
(* The steps of the workers                                                 *)

\* queue_poll takes the task at the head.
LEMMA PollTaskRefines ==
    ASSUME IInv, IInv', NEW w \in Workers, PollTask(w)
    PROVE  Lifecycle!Take(Head(pending))
<1>. DEFINE a == Head(pending)
<1>1. /\ a \in Addr /\ a \in Elems(pending) /\ Elems(pending) = {a} \cup Elems(pending')
      /\ a \notin Elems(pending')
  BY HeadTail DEF PollTask, IInv, TypeOK, Ownership
<1>2. /\ wtask' = [wtask EXCEPT ![w] = a] /\ wpc' = [wpc EXCEPT ![w] = "polled"]
      /\ wtask[w] = NoTask /\ UNCHANGED <<dpc, results>>
  BY DEF PollTask, Goto, heapVars, IInv, TaskHolder, HoldPcs, ActivePcs
<1>3. wtask'[w] = a /\ wpc'[w] = "polled" /\ a # NoTask
  BY <1>1, <1>2, TasksAssumption DEF IInv, TypeOK
<1>4. phaseBar[a] = "queued" /\ phaseBar'[a] = "taken"
  BY <1>1, <1>3, PhaseIs, PhaseIsNext DEF PhasesRight, Progress
<1>5. ASSUME NEW b \in Addr \ {a}, NEW v \in Workers
      PROVE  /\ wtask'[v] = b <=> wtask[v] = b
             /\ wtask[v] = b => wpc'[v] = wpc[v]
  BY <1>2, TasksAssumption DEF IInv, TypeOK
<1>6. phaseBar' = [phaseBar EXCEPT ![a] = "taken"]
  BY <1>1, <1>4, <1>5, OneMoves
<1>7. stageBar' = stageBar
  BY <1>2 DEF stageBar
<1>. QED  BY <1>1, <1>2, <1>4, <1>6, <1>7 DEF Lifecycle!Take, Lifecycle!Move, PollTask

\* A worker's steps between two phases of its task change nothing else.
LEMMA HeldMoves ==
    ASSUME IInv, IInv', NEW w \in Workers, wtask[w] # NoTask,
           UNCHANGED <<pending, wtask, dpc>>,
           NEW pc \in HoldPcs, wpc' = [wpc EXCEPT ![w] = pc]
    PROVE  /\ wtask[w] \in Addr
           /\ phaseBar[wtask[w]] = Progress(wpc[w])
           /\ phaseBar' = [phaseBar EXCEPT ![wtask[w]] = Progress(pc)]
           /\ stageBar' = stageBar
<1>1. wtask[w] \in Addr /\ wtask'[w] = wtask[w] /\ wpc'[w] = pc
  BY DEF IInv, TypeOK
<1>2. phaseBar[wtask[w]] = Progress(wpc[w]) /\ phaseBar'[wtask[w]] = Progress(pc)
  BY <1>1, PhaseIs, PhaseIsNext DEF PhasesRight
<1>3. \A v \in Workers : v # w => wpc'[v] = wpc[v]
  BY DEF IInv, TypeOK
<1>4. phaseBar' = [phaseBar EXCEPT ![wtask[w]] = Progress(pc)]
  BY <1>1, <1>2, <1>3, OneMoves
<1>5. stageBar' = stageBar
  BY DEF stageBar
<1>. QED  BY <1>1, <1>2, <1>4, <1>5

\* Its steps without a task change no phase.
LEMMA EmptyHanded ==
    ASSUME IInv, IInv', NEW w \in Workers, wtask[w] = NoTask,
           UNCHANGED <<pending, wtask, dpc>>, NEW pc, wpc' = [wpc EXCEPT ![w] = pc]
    PROVE  phaseBar' = phaseBar /\ stageBar' = stageBar
<1>1. \A v \in Workers : v # w => wpc'[v] = wpc[v]
  BY DEF IInv, TypeOK
<1>. QED  BY <1>1, NoneMoves DEF stageBar

\* The look at the flag, the wait, and the lock before and after a clear.
LEMMA IdleRefines ==
    ASSUME IInv, IInv', NEW w \in Workers,
           \/ PollEmpty(w) \/ PollCheck(w) \/ CondWait(w)
           \/ ClearBegin(w) \/ ClearEnd(w) \/ SpuriousWake(w)
    PROVE  UNCHANGED Lifecycle!vars
<1>1. wtask[w] = NoTask /\ UNCHANGED <<pending, wtask, dpc, results>>
  BY DEF PollEmpty, PollCheck, CondWait, ClearBegin, ClearEnd, SpuriousWake, Goto, heapVars,
         queueVars, IInv, TaskHolder, HoldPcs, ActivePcs
<1>2. \E pc : wpc' = [wpc EXCEPT ![w] = pc]
  BY DEF PollEmpty, PollCheck, CondWait, ClearBegin, ClearEnd, SpuriousWake, Goto
<1>. QED  BY <1>1, <1>2, EmptyHanded DEF Lifecycle!vars

\* A task taken too late is finalized and freed at once.
LEMMA DropRefines ==
    ASSUME IInv, IInv', NEW w \in Workers, Drop(w)
    PROVE  Lifecycle!Reject(wtask[w])
<1>. DEFINE a == wtask[w]
<1>1. /\ a # NoTask /\ a \in Addr /\ wpc[w] = "polled"
      /\ wtask' = [wtask EXCEPT ![w] = NoTask] /\ alloc' = alloc \ {a}
      /\ wpc' = [wpc EXCEPT ![w] = "clear"]
      /\ results' = [results EXCEPT ![a] = Append(@, "ECANCELED")]
      /\ UNCHANGED <<pending, dpc>> /\ Destroyed
  BY DEF Drop, CallFinalizer, Goto, queueVars, IInv, TypeOK, TaskHolder, HoldPcs, ActivePcs
<1>2. phaseBar[a] = "taken" /\ phaseBar'[a] = "absent"
  BY <1>1, PhaseIs, PhaseIsNext DEF PhasesRight, Progress
<1>3. ASSUME NEW b \in Addr \ {a}, NEW v \in Workers
      PROVE  /\ wtask'[v] = b <=> wtask[v] = b
             /\ wtask[v] = b => wpc'[v] = wpc[v]
  BY <1>1, TasksAssumption DEF IInv, TypeOK
<1>4. phaseBar' = [phaseBar EXCEPT ![a] = "absent"]
  BY <1>1, <1>2, <1>3, OneMoves
<1>5. stageBar = "closing" /\ stageBar' = stageBar
  BY <1>1 DEF stageBar, Destroyed, IInv, TypeOK, JoinedAllExited
<1>. QED  BY <1>1, <1>2, <1>4, <1>5 DEF Lifecycle!Reject, Lifecycle!Move

\* On the active list and before its turn a task is taken all the same.
LEMMA ActivateRefines ==
    ASSUME IInv, IInv', NEW w \in Workers, Activate(w)
    PROVE  UNCHANGED Lifecycle!vars
<1>1. /\ wtask[w] # NoTask /\ wpc[w] = "polled" /\ UNCHANGED <<pending, wtask, dpc, results>>
      /\ wpc' = [wpc EXCEPT ![w] = "start"] /\ "start" \in HoldPcs
  BY DEF Activate, Goto, heapVars, IInv, TaskHolder, HoldPcs, ActivePcs
<1>2. /\ wtask[w] \in Addr /\ phaseBar[wtask[w]] = "taken" /\ stageBar' = stageBar
      /\ phaseBar' = [phaseBar EXCEPT ![wtask[w]] = "taken"]
  BY <1>1, HeldMoves DEF Progress
<1>3. phaseBar' = phaseBar
  BY <1>2, PhaseIs DEF PhasesRight
<1>. QED  BY <1>1, <1>2, <1>3 DEF Lifecycle!vars

\* The action begins.
LEMMA StartRefines ==
    ASSUME IInv, IInv', NEW w \in Workers, Start(w)
    PROVE  Lifecycle!Run(wtask[w])
<1>1. /\ wtask[w] # NoTask /\ wpc[w] = "start" /\ UNCHANGED <<pending, wtask, dpc, results>>
      /\ wpc' = [wpc EXCEPT ![w] = "running"] /\ "running" \in HoldPcs
  BY DEF Start, Goto, heapVars, queueVars, IInv, TaskHolder, HoldPcs, ActivePcs
<1>. QED  BY <1>1, HeldMoves DEF Progress, Lifecycle!Run, Lifecycle!Move

\* The finalizer is called, with success only after the action and before the close.
LEMMA FinalizeRefines ==
    ASSUME IInv, IInv', NEW w \in Workers, Skip(w) \/ Finish(w)
    PROVE  \E r \in {"ok", "ECANCELED"} : Lifecycle!Finalize(wtask[w], r)
<1>. DEFINE r == IF Skip(w) THEN "ECANCELED" ELSE FinalResult
<1>1. /\ wtask[w] # NoTask /\ wpc[w] \in {"start", "running"} /\ UNCHANGED <<pending, wtask, dpc>>
      /\ wpc' = [wpc EXCEPT ![w] = "finalizing"] /\ "finalizing" \in HoldPcs
      /\ results' = [results EXCEPT ![wtask[w]] = Append(@, r)]
  BY DEF Skip, Finish, CallFinalizer, Goto, queueVars, IInv, TaskHolder, HoldPcs, ActivePcs
<1>2. r \in {"ok", "ECANCELED"}
  BY DEF FinalResult
<1>3. r = "ok" => wpc[w] = "running" /\ stageBar = "open"
  BY DEF Skip, Finish, FinalResult, Destroyed, stageBar
<1>4. /\ phaseBar[wtask[w]] = Progress(wpc[w]) /\ stageBar' = stageBar
      /\ phaseBar' = [phaseBar EXCEPT ![wtask[w]] = "finalizing"]
  BY <1>1, HeldMoves DEF Progress
<1>5. Lifecycle!Finalize(wtask[w], r)
  BY <1>1, <1>3, <1>4 DEF Progress, Lifecycle!Finalize, Lifecycle!Move
<1>. QED  BY <1>2, <1>5

\* The task is freed.
LEMMA RetireRefines ==
    ASSUME IInv, IInv', NEW w \in Workers, Retire(w)
    PROVE  Lifecycle!Release(wtask[w])
<1>. DEFINE a == wtask[w]
<1>1. /\ a # NoTask /\ a \in Addr /\ wpc[w] = "finalizing"
      /\ wtask' = [wtask EXCEPT ![w] = NoTask] /\ alloc' = alloc \ {a}
      /\ wpc' = [wpc EXCEPT ![w] = "poll"] /\ UNCHANGED <<pending, dpc, results>>
  BY DEF Retire, Goto, IInv, TypeOK, TaskHolder, HoldPcs, ActivePcs
<1>2. phaseBar[a] = "finalizing" /\ phaseBar'[a] = "absent"
  BY <1>1, PhaseIs, PhaseIsNext DEF PhasesRight, Progress
<1>3. ASSUME NEW b \in Addr \ {a}, NEW v \in Workers
      PROVE  /\ wtask'[v] = b <=> wtask[v] = b
             /\ wtask[v] = b => wpc'[v] = wpc[v]
  BY <1>1, TasksAssumption DEF IInv, TypeOK
<1>4. phaseBar' = [phaseBar EXCEPT ![a] = "absent"]
  BY <1>1, <1>2, <1>3, OneMoves
<1>5. stageBar' = stageBar
  BY <1>1 DEF stageBar
<1>. QED  BY <1>1, <1>2, <1>4, <1>5 DEF Lifecycle!Release, Lifecycle!Move

\* queue_clear finalizes and frees the head.
LEMMA ClearTaskRefines ==
    ASSUME IInv, IInv', NEW w \in Workers, ClearTask(w)
    PROVE  Lifecycle!Reject(Head(pending))
<1>. DEFINE a == Head(pending)
<1>1. /\ a \in Addr /\ a \in Elems(pending) /\ Elems(pending) = {a} \cup Elems(pending')
      /\ a \notin Elems(pending')
  BY HeadTail DEF ClearTask, IInv, TypeOK, Ownership
<1>2. /\ wpc[w] = "clearing" /\ UNCHANGED <<wtask, dpc>> /\ alloc' = alloc \ {a}
      /\ wpc' = [wpc EXCEPT ![w] = "clearing"] /\ wpc' = wpc
      /\ results' = [results EXCEPT ![a] = Append(@, "ECANCELED")]
  BY DEF ClearTask, CallFinalizer, Goto, IInv, TypeOK
<1>3. phaseBar[a] = "queued" /\ phaseBar'[a] = "absent"
  BY <1>1, <1>2, PhaseIs, PhaseIsNext DEF PhasesRight
<1>4. phaseBar' = [phaseBar EXCEPT ![a] = "absent"]
  BY <1>1, <1>2, <1>3, OneMoves
<1>5. stageBar = "closing" /\ stageBar' = stageBar
  BY <1>2 DEF stageBar, Destroyed, IInv, TypeOK, JoinedAllExited, ExitOnlyDestroyed
<1>6. pending # <<>> /\ pending' = Tail(pending)
  BY DEF ClearTask
<1>7. Lifecycle!Move(a, {"taken", "queued"}, "absent")
  BY <1>3, <1>4, <1>5 DEF Lifecycle!Move
<1>. QED  BY <1>2, <1>5, <1>6, <1>7 DEF Lifecycle!Reject

-----------------------------------------------------------------------------
(* The steps of the calls and of the owner                                  *)

\* The flags, the lock of a list, and who waits are no part of the promise.
LEMMA CallRefines ==
    ASSUME IInv, IInv', NEW c \in Callers,
           Call(c) \/ SubmitSignal(c) \/ CancelActive(c) \/ CancelPending(c)
    PROVE  UNCHANGED Lifecycle!vars
<1>1. UNCHANGED <<pending, wtask, dpc, results>>
  BY DEF Call, Submit, Cancel, SubmitSignal, CancelActive, CancelPending, GoOn, heapVars, queueVars
<1>2. wpc' = wpc \/ \E v \in Waiting : wpc' = [wpc EXCEPT ![v] = "poll"]
  BY DEF Call, Submit, Cancel, SubmitSignal, CancelActive, CancelPending, CondSignal
<1>3. ASSUME NEW w \in Workers, wtask[w] # NoTask PROVE wpc'[w] = wpc[w]
  BY <1>2, <1>3 DEF Waiting, IInv, TypeOK, TaskHolder, HoldPcs, ActivePcs
<1>4. phaseBar' = phaseBar
  BY <1>1, <1>3, NoneMoves
<1>. QED  BY <1>1, <1>4 DEF Lifecycle!vars, stageBar

\* A task is accepted, even by a call that passed the test of the flag before it
\* was set: its worker has not been joined.
LEMMA SubmitPushRefines ==
    ASSUME ClosedCallers, IInv, IInv', NEW c \in Callers, SubmitPush(c)
    PROVE  \E a \in Addr : Lifecycle!Submit(a)
<1>1. PICK a \in Addr \ alloc :
        /\ alloc' = alloc \cup {a} /\ pending' = Append(pending, a)
        /\ results' = [results EXCEPT ![a] = <<>>]
        /\ UNCHANGED <<wtask, wpc, dpc>>
  BY DEF SubmitPush, ListAppend, GoOn
<1>2. Elems(pending') = Elems(pending) \cup {a}
  BY <1>1, AppendNew DEF IInv, TypeOK
<1>3. \A w \in Workers : wtask[w] # a
  BY <1>1, TasksAssumption DEF IInv, Ownership, Held
<1>4. phaseBar[a] = "absent" /\ phaseBar'[a] = "queued"
  BY <1>1, <1>2, PhaseIs, PhaseIsNext DEF PhasesRight
<1>5. phaseBar' = [phaseBar EXCEPT ![a] = "queued"]
  BY <1>1, <1>2, <1>4, OneMoves
<1>6. stageBar # "closed" /\ stageBar' = stageBar
  <2>1. c \in Workers => wpc[c] # "exited"
    BY DEF SubmitPush, InCall, IInv, CallsFromCallbacks
  <2>2. c = Owner => dpc = "live"
    BY DEF SubmitPush, InCall, IInv, CallsFromCallbacks, Destroyed
  <2>3. dpc \notin {"joined", "freed"}
    BY <2>1, <2>2 DEF ClosedCallers, IInv, JoinedAllExited
  <2>. QED  BY <1>1, <2>3 DEF stageBar
<1>7. Lifecycle!Submit(a)
  BY <1>1, <1>4, <1>5, <1>6 DEF Lifecycle!Submit, Lifecycle!Move
<1>. QED  BY <1>1, <1>7

\* executor_destroy closes, wakes, and ends when every task is gone.
LEMMA DestroyRefines ==
    ASSUME ClosedCallers, IInv, IInv', DestroyBegin \/ DestroyStep
    PROVE  Lifecycle!Close \/ Lifecycle!End \/ UNCHANGED Lifecycle!vars
<1>1. UNCHANGED <<pending, wtask, results>>
  BY DEF DestroyBegin, DestroyStep, Broadcast, Join, DestroyEnd, DestroyGoto, heapVars, queueVars
<1>2. ASSUME NEW w \in Workers, wtask[w] # NoTask PROVE wpc'[w] = wpc[w]
  BY <1>2 DEF DestroyBegin, DestroyStep, Broadcast, Join, DestroyEnd, Waiting, IInv, TypeOK,
              TaskHolder, HoldPcs, ActivePcs
<1>3. phaseBar' = phaseBar
  BY <1>1, <1>2, NoneMoves
<1>4. CASE DestroyBegin
  BY <1>1, <1>3, <1>4 DEF DestroyBegin, DestroyGoto, stageBar, Lifecycle!Close
<1>5. CASE Broadcast
  BY <1>1, <1>3, <1>5 DEF Broadcast, DestroyGoto, stageBar, Lifecycle!vars
<1>6. CASE Join
  <2>1. alloc = {}
    <3>1. pending = <<>>
      BY <1>6 DEF Join, ClosedCallers, IInv, ExitedNonePending
    <3>2. Elems(pending) = {}
      BY <3>1 DEF Elems
    <3>3. Held = {}
      BY <1>6 DEF Join, Held, IInv, TaskHolder, HoldPcs, ActivePcs
    <3>. QED  BY <3>2, <3>3 DEF IInv, Ownership
  <2>2. \A a \in Addr : phaseBar[a] = "absent"
    BY <2>1, PhaseIs DEF PhasesRight
  <2>. QED  BY <1>1, <1>3, <1>6, <2>2 DEF Join, DestroyGoto, stageBar, Lifecycle!End
<1>7. CASE DestroyEnd
  BY <1>1, <1>3, <1>7 DEF DestroyEnd, DestroyGoto, stageBar, Lifecycle!vars
<1>. QED  BY <1>4, <1>5, <1>6, <1>7 DEF DestroyStep

-----------------------------------------------------------------------------
(* The refinement                                                           *)

\* Every step is one of the life cycle, or none.
LEMMA StepRefines ==
    ASSUME ClosedCallers, IInv, IInv', [Next]_vars
    PROVE  [Lifecycle!Next]_(Lifecycle!vars)
<1>1. ASSUME NEW w \in Workers, WorkerStep(w)
      PROVE  [Lifecycle!Next]_(Lifecycle!vars)
  <2>1. wtask[w] \in Addr \/ wpc[w] \notin HoldPcs
    BY DEF IInv, TypeOK, TaskHolder
  <2>2. pending # <<>> => Head(pending) \in Addr
    BY HeadTail DEF IInv, TypeOK
  <2>3. CASE PollTask(w)
    BY <2>2, <2>3, PollTaskRefines DEF PollTask, Lifecycle!Next
  <2>4. CASE PollEmpty(w) \/ PollCheck(w) \/ CondWait(w) \/ ClearBegin(w) \/ ClearEnd(w)
    BY <2>4, IdleRefines
  <2>5. CASE Drop(w)
    BY <2>1, <2>5, DropRefines DEF Drop, HoldPcs, Lifecycle!Next
  <2>6. CASE Activate(w)
    BY <2>6, ActivateRefines
  <2>7. CASE Start(w)
    BY <2>1, <2>7, StartRefines DEF Start, HoldPcs, ActivePcs, Lifecycle!Next
  <2>8. CASE Skip(w) \/ Finish(w)
    BY <2>1, <2>8, FinalizeRefines DEF Skip, Finish, HoldPcs, ActivePcs, Lifecycle!Next
  <2>9. CASE Retire(w)
    BY <2>1, <2>9, RetireRefines DEF Retire, HoldPcs, ActivePcs, Lifecycle!Next
  <2>10. CASE ClearTask(w)
    BY <2>2, <2>10, ClearTaskRefines DEF ClearTask, Lifecycle!Next
  <2>. QED  BY <1>1, <2>3, <2>4, <2>5, <2>6, <2>7, <2>8, <2>9, <2>10 DEF WorkerStep
<1>2. ASSUME NEW w \in Workers, SpuriousWake(w)
      PROVE  [Lifecycle!Next]_(Lifecycle!vars)
  BY <1>2, IdleRefines
<1>3. ASSUME NEW c \in Callers, Call(c) \/ CallStep(c)
      PROVE  [Lifecycle!Next]_(Lifecycle!vars)
  BY <1>3, CallRefines, SubmitPushRefines DEF CallStep, Lifecycle!Next
<1>4. CASE DestroyBegin \/ DestroyStep
  BY <1>4, DestroyRefines DEF Lifecycle!Next
<1>5. CASE UNCHANGED vars
  <2>1. UNCHANGED <<pending, wtask, wpc, dpc, results>>
    BY <1>5 DEF vars, heapVars, queueVars, workerVars
  <2>2. phaseBar' = phaseBar /\ stageBar' = stageBar
    BY <2>1, NoneMoves DEF stageBar
  <2>. QED  BY <2>1, <2>2 DEF Lifecycle!vars
<1>. QED  BY <1>1, <1>2, <1>3, <1>4, <1>5 DEF Next

\* A new executor has no tasks and is open.
LEMMA InitRefines == Init => Lifecycle!Init
<1>. SUFFICES ASSUME Init PROVE Lifecycle!Init
  OBVIOUS
<1>1. Elems(pending) = {} /\ \A w \in Workers : wtask[w] = NoTask
  BY DEF Init, Elems
<1>2. phaseBar = [a \in Addr |-> "absent"]
  BY <1>1, TasksAssumption DEF phaseBar
<1>. QED  BY <1>2 DEF Init, stageBar, Lifecycle!Init

\* The threads, locks and lists of executor.c do what executor.h promises of
\* tasks, when nobody but the owner and the workers makes calls: each is taken
\* in its turn, runs at most once, is finalized once and released, with success
\* only if it ran before the close, and the executor ends with none left.
THEOREM LifecycleImplemented ==
    ASSUME ClosedCallers PROVE Spec => ImplementsLifecycle
<1>1. IInv /\ IInv' /\ [Next]_vars => [Lifecycle!Next]_(Lifecycle!vars)
  BY StepRefines, ClosedCallers
<1>. QED  BY Invariance, InitRefines, <1>1, PTL DEF Spec, ImplementsLifecycle, Lifecycle!Spec

=============================================================================
