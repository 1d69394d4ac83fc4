------------------------------ MODULE Executor ------------------------------
(***************************************************************************)
(* util/executor/executor.c: worker threads take tasks from one pending    *)
(* queue, run the action, call the finalizer and free the task; the owner  *)
(* destroys the pool by setting a flag, waking the sleepers and joining.   *)
(*                                                                         *)
(* A step is one critical section, with the thread-local code next to it.  *)
(* executor->lock guards only the flag, active.lock one list operation at  *)
(* a time. pending.lock is a variable: queue_poll holds it while it reads  *)
(* the flag, queue_clear while it calls finalizers. Nobody waits on        *)
(* active.cond. A task is the address calloc returned, reused once freed.  *)
(***************************************************************************)
EXTENDS Naturals, Sequences, FiniteSets

CONSTANTS
    Workers,     \* the threads executor_create starts
    Owner,       \* the thread that calls executor_destroy
    Callers,     \* the threads that submit and cancel: workers from a callback,
                 \* the owner until it destroys, any other at any time
    Addr,        \* addresses calloc can return for a task
    NoTask,      \* the null task
    NoThread,    \* nobody holds pending.lock
    MaxSubmit,   \* bound: accepted executor_submit calls
    MaxSpurious  \* bound: spurious wakeups of SDL_CondWait

ASSUME ThreadsAssumption == /\ IsFiniteSet(Workers) /\ Workers # {}
                            /\ Owner \notin Workers
                            /\ NoThread \notin Workers
ASSUME TasksAssumption == NoTask \notin Addr
ASSUME BoundsAssumption == MaxSubmit \in Nat /\ MaxSpurious \in Nat

VARIABLES
    pending,    \* the pending list, head first
    lock,       \* holder of pending.lock across steps
    active,     \* the active list; nothing depends on its order
    alloc,      \* addresses of tasks created and not yet freed
    cancelled,  \* task->cancelled
    wpc,        \* where a worker is in thread_worker
    wtask,      \* its local variable task
    dpc,        \* where the owner is in executor_destroy
    cpc,        \* where a caller is in executor_submit or executor_cancel
    carg,       \* the task that call is about
    issued,     \* task pointers executor_submit has returned so far
    submitted,  \* counts accepted submit calls, up to MaxSubmit
    spurious,   \* counts spurious wakeups, up to MaxSpurious
    results,    \* history: finalizer calls of the task last at an address
    late,       \* history: actions a worker began after the flag was set
    doomed      \* history: tasks whose cancel found them still pending

heapVars   == <<alloc, cancelled, results, doomed>>
queueVars  == <<pending, lock, active>>
workerVars == <<wpc, wtask, late>>
callVars   == <<cpc, carg, issued, submitted>>
vars == <<heapVars, queueVars, workerVars, callVars, dpc, spurious>>

Elems(s) == {s[i] : i \in DOMAIN s}

\* executor_is_destroyed: the first step of executor_destroy sets the flag
Destroyed == dpc # "live"

Waiting == {w \in Workers : wpc[w] = "waiting"}

ActivePcs == {"start", "running", "finalizing"}     \* task on the active list
HoldPcs   == ActivePcs \cup {"polled"}              \* worker owns a task
LockPcs   == {"empty", "sleep", "clearing"}         \* holds pending.lock
WorkerPcs == HoldPcs \cup LockPcs \cup {"poll", "waiting", "clear", "exited"}
CallPcs   == {"idle", "push", "signal", "cancelActive", "cancelPending"}

\* linked_list.h: append; remove, on a list whose order does not matter
\* mutant: the new element becomes the head
ListPrepend(s, a) == <<a>> \o s
ListAppend(s, a) == Append(s, a)

\* mutant: the element is not unlinked
ListKeep(S, a) == S
ListRemove(S, a) == S \ {a}

-----------------------------------------------------------------------------
\* executor_create: empty queues, all the threads started
Init == /\ pending = <<>>
        /\ lock = NoThread
        /\ active = {}
        /\ alloc = {}
        /\ cancelled = [a \in Addr |-> FALSE]
        /\ wpc = [w \in Workers |-> "poll"]
        /\ wtask = [w \in Workers |-> NoTask]
        /\ dpc = "live"
        /\ cpc = [c \in Callers |-> "idle"]
        /\ carg = [c \in Callers |-> NoTask]
        /\ issued = {}
        /\ submitted = 0
        /\ spurious = 0
        /\ results = [a \in Addr |-> <<>>]
        /\ late = [w \in Workers |-> 0]
        /\ doomed = {}

-----------------------------------------------------------------------------
(* thread_worker                                                            *)

Goto(w, pc) == /\ wpc' = [wpc EXCEPT ![w] = pc]
               /\ UNCHANGED <<callVars, dpc, spurious>>

\* mutant: the task goes without a finalizer call
NoFinalizer(a, result) == UNCHANGED results
CallFinalizer(a, result) == results' = [results EXCEPT ![a] = Append(@, result)]

\* the action is not run if task->cancelled; its result is overridden if the
\* executor was destroyed meanwhile
\* mutant: task->cancelled is not looked at
NeverSkips(w) == FALSE
Skips(w) == cancelled[wtask[w]]

FinalResult == IF Destroyed THEN "ECANCELED" ELSE "ok"

\* a callback that makes calls of its own returns once they have returned
CallbackReturns(w) == w \in Callers => cpc[w] = "idle"

\* mutant: "if" for "while", the list is not tested again after the wait
PollUntested(w) == /\ wpc[w] = "poll" /\ lock = NoThread
                   /\ wtask' = [wtask EXCEPT ![w] = IF pending = <<>> THEN NoTask ELSE Head(pending)]
                   /\ pending' = IF pending = <<>> THEN <<>> ELSE Tail(pending)
                   /\ Goto(w, "polled")
                   /\ UNCHANGED <<lock, active, late, heapVars>>

\* queue_poll: the head is taken, or the queue is empty and the lock is kept
PollTask(w) == /\ wpc[w] = "poll" /\ lock = NoThread /\ pending # <<>>
               /\ wtask' = [wtask EXCEPT ![w] = Head(pending)]
               /\ pending' = Tail(pending)
               /\ Goto(w, "polled")
               /\ UNCHANGED <<lock, active, late, heapVars>>

PollEmpty(w) == /\ wpc[w] = "poll" /\ lock = NoThread /\ pending = <<>>
                /\ lock' = w
                /\ Goto(w, "empty")
                /\ UNCHANGED <<pending, active, wtask, late, heapVars>>

\* mutant: the early return leaves pending.lock locked
PollKeepsLock(w) == /\ wpc[w] = "empty"
                    /\ Goto(w, IF Destroyed THEN "clear" ELSE "sleep")
                    /\ UNCHANGED <<queueVars, wtask, late, heapVars>>

\* the flag is read under pending.lock: give up, or go on to SDL_CondWait
PollCheck(w) == /\ wpc[w] = "empty"
                /\ \/ Destroyed /\ lock' = NoThread /\ Goto(w, "clear")
                   \/ ~Destroyed /\ UNCHANGED lock /\ Goto(w, "sleep")
                /\ UNCHANGED <<pending, active, wtask, late, heapVars>>

\* SDL_CondWait unlocks and sleeps in one step; once woken the worker takes
\* the lock and tests the head again, as in "poll"
CondWait(w) == /\ wpc[w] = "sleep"
               /\ lock' = NoThread
               /\ Goto(w, "waiting")
               /\ UNCHANGED <<pending, active, wtask, late, heapVars>>

\* destroyed since the poll: finalize and free the task, leave the loop
\* mutant: leave the loop with the task in hand
DropLeaves(w) == /\ wpc[w] = "polled" /\ Destroyed
                 /\ wtask' = [wtask EXCEPT ![w] = NoTask]
                 /\ Goto(w, "clear")
                 /\ UNCHANGED <<queueVars, late, heapVars>>
Drop(w) == /\ wpc[w] = "polled" /\ Destroyed
           /\ CallFinalizer(wtask[w], "ECANCELED")
           /\ alloc' = alloc \ {wtask[w]}
           /\ wtask' = [wtask EXCEPT ![w] = NoTask]
           /\ Goto(w, "clear")
           /\ UNCHANGED <<queueVars, late, cancelled, doomed>>

\* mutant: the flag is not tested again after the poll
ActivateUntested(w) == /\ wpc[w] = "polled"
                       /\ active' = active \cup {wtask[w]}
                       /\ Goto(w, "start")
                       /\ UNCHANGED <<pending, lock, wtask, late, heapVars>>

\* queue_push(&executor->active, task)
Activate(w) == /\ wpc[w] = "polled" /\ ~Destroyed
               /\ active' = active \cup {wtask[w]}
               /\ Goto(w, "start")
               /\ UNCHANGED <<pending, lock, wtask, late, heapVars>>

\* task->cancelled is read: run the action, or skip it
Start(w) == /\ wpc[w] = "start" /\ ~Skips(w)
            /\ late' = IF Destroyed THEN [late EXCEPT ![w] = @ + 1] ELSE late
            /\ Goto(w, "running")
            /\ UNCHANGED <<queueVars, wtask, heapVars>>

Skip(w) == /\ wpc[w] = "start" /\ Skips(w)
           /\ CallFinalizer(wtask[w], "ECANCELED")
           /\ Goto(w, "finalizing")
           /\ UNCHANGED <<queueVars, wtask, late, alloc, cancelled, doomed>>

\* the action returns; the flag, read again, overrides its result
Finish(w) == /\ wpc[w] = "running" /\ CallbackReturns(w)
             /\ CallFinalizer(wtask[w], FinalResult)
             /\ Goto(w, "finalizing")
             /\ UNCHANGED <<queueVars, wtask, late, alloc, cancelled, doomed>>

\* the finalizer returns: queue_remove(&executor->active, task), task_destroy
Retire(w) == /\ wpc[w] = "finalizing" /\ CallbackReturns(w)
             /\ active' = ListRemove(active, wtask[w])
             /\ alloc' = alloc \ {wtask[w]}
             /\ wtask' = [wtask EXCEPT ![w] = NoTask]
             /\ Goto(w, "poll")
             /\ UNCHANGED <<pending, lock, late, cancelled, results, doomed>>

\* queue_clear: finalize and free what is left, all under pending.lock
ClearBegin(w) == /\ wpc[w] = "clear" /\ lock = NoThread
                 /\ lock' = w
                 /\ Goto(w, "clearing")
                 /\ UNCHANGED <<pending, active, wtask, late, heapVars>>

ClearTask(w) == /\ wpc[w] = "clearing" /\ pending # <<>>
                /\ CallFinalizer(Head(pending), "ECANCELED")
                /\ alloc' = alloc \ {Head(pending)}
                /\ pending' = Tail(pending)
                /\ Goto(w, "clearing")
                /\ UNCHANGED <<lock, active, wtask, late, cancelled, doomed>>

ClearEnd(w) == /\ wpc[w] = "clearing" /\ pending = <<>>
               /\ lock' = NoThread
               /\ Goto(w, "exited")
               /\ UNCHANGED <<pending, active, wtask, late, heapVars>>

WorkerStep(w) == \/ PollTask(w) \/ PollEmpty(w) \/ PollCheck(w) \/ CondWait(w)
                 \/ Drop(w) \/ Activate(w) \/ Start(w) \/ Skip(w)
                 \/ Finish(w) \/ Retire(w)
                 \/ ClearBegin(w) \/ ClearTask(w) \/ ClearEnd(w)

SpuriousWake(w) == /\ wpc[w] = "waiting" /\ spurious < MaxSpurious
                   /\ wpc' = [wpc EXCEPT ![w] = "poll"]
                   /\ spurious' = spurious + 1
                   /\ UNCHANGED <<heapVars, queueVars, wtask, late, callVars, dpc>>

-----------------------------------------------------------------------------
(* The calls. One made after the flag is set returns at once and changes    *)
(* nothing, so only calls that pass that test are steps. A caller must not  *)
(* be inside a call when the executor is freed.                             *)

MayCall(c) == /\ cpc[c] = "idle" /\ ~Destroyed
              /\ c \in Workers => wpc[c] \in {"running", "finalizing"}

InCall(c, pc) == cpc[c] = pc /\ dpc # "freed"

GoOn(c, pc, a) == /\ cpc' = [cpc EXCEPT ![c] = pc]
                  /\ carg' = [carg EXCEPT ![c] = a]
                  /\ UNCHANGED <<wtask, late, dpc, spurious>>

\* mutant: nobody is woken
NoSignal == UNCHANGED wpc
CondSignal == \/ Waiting = {} /\ UNCHANGED wpc
              \/ \E w \in Waiting : wpc' = [wpc EXCEPT ![w] = "poll"]

\* executor_submit: the flag is tested, and its lock released ...
Submit(c) == /\ MayCall(c) /\ submitted < MaxSubmit
             /\ submitted' = submitted + 1
             /\ GoOn(c, "push", NoTask)
             /\ UNCHANGED <<issued, heapVars, queueVars, wpc>>

\* ... then task_create and the append of queue_push ...
SubmitPush(c) == /\ InCall(c, "push") /\ lock = NoThread
                 /\ \E a \in Addr \ alloc :
                      /\ alloc' = alloc \cup {a}
                      /\ cancelled' = [cancelled EXCEPT ![a] = FALSE]
                      /\ results' = [results EXCEPT ![a] = <<>>]
                      /\ doomed' = doomed \ {a}
                      /\ pending' = ListAppend(pending, a)
                      /\ GoOn(c, "signal", a)
                 /\ UNCHANGED <<lock, active, wpc, issued, submitted>>

\* ... then SDL_CondSignal, after the unlock, wakes one waiter if there is one
SubmitSignal(c) == /\ InCall(c, "signal")
                   /\ CondSignal
                   /\ issued' = issued \cup {carg[c]}
                   /\ GoOn(c, "idle", NoTask)
                   /\ UNCHANGED <<submitted, heapVars, queueVars>>

\* executor_cancel looks in the active list, then in the pending list
Cancel(c, a) == /\ MayCall(c) /\ a \in issued
                /\ GoOn(c, "cancelActive", a)
                /\ UNCHANGED <<issued, submitted, heapVars, queueVars, wpc>>

CancelActive(c) == /\ InCall(c, "cancelActive")
                   /\ \/ /\ carg[c] \in active
                         /\ cancelled' = [cancelled EXCEPT ![carg[c]] = TRUE]
                         /\ GoOn(c, "idle", NoTask)
                      \/ /\ carg[c] \notin active
                         /\ GoOn(c, "cancelPending", carg[c])
                         /\ UNCHANGED cancelled
                   /\ UNCHANGED <<issued, submitted, alloc, results, doomed, queueVars, wpc>>

\* mutant: the first task of the list is taken for the one looked for
CancelFirst(c) == /\ InCall(c, "cancelPending") /\ lock = NoThread
                  /\ \/ /\ pending # <<>>
                        /\ cancelled' = [cancelled EXCEPT ![Head(pending)] = TRUE]
                        /\ doomed' = doomed \cup {Head(pending)}
                     \/ /\ pending = <<>>
                        /\ UNCHANGED <<cancelled, doomed>>
                  /\ GoOn(c, "idle", NoTask)
                  /\ UNCHANGED <<issued, submitted, alloc, results, queueVars, wpc>>
CancelPending(c) == /\ InCall(c, "cancelPending") /\ lock = NoThread
                    /\ \/ /\ carg[c] \in Elems(pending)
                          /\ cancelled' = [cancelled EXCEPT ![carg[c]] = TRUE]
                          /\ doomed' = doomed \cup {carg[c]}
                       \/ /\ carg[c] \notin Elems(pending)
                          /\ UNCHANGED <<cancelled, doomed>>
                    /\ GoOn(c, "idle", NoTask)
                    /\ UNCHANGED <<issued, submitted, alloc, results, queueVars, wpc>>

Call(c) == Submit(c) \/ \E a \in issued : Cancel(c, a)

CallStep(c) == \/ SubmitPush(c) \/ SubmitSignal(c)
               \/ CancelActive(c) \/ CancelPending(c)

-----------------------------------------------------------------------------
(* executor_destroy, which the owner calls between its own calls            *)

DestroyGoto(pc) == /\ dpc' = pc
                   /\ UNCHANGED <<heapVars, queueVars, wtask, late, callVars, spurious>>

DestroyBegin == /\ dpc = "live"
                /\ Owner \in Callers => cpc[Owner] = "idle"
                /\ DestroyGoto("broadcast")
                /\ UNCHANGED wpc

\* queue_unlock(&executor->pending), without pending.lock
\* mutant: SDL_CondSignal, one sleeper is woken
BroadcastToOne == dpc = "broadcast" /\ CondSignal /\ DestroyGoto("join")
Broadcast == /\ dpc = "broadcast"
             /\ wpc' = [w \in Workers |-> IF w \in Waiting THEN "poll" ELSE wpc[w]]
             /\ DestroyGoto("join")

Join == /\ dpc = "join" /\ \A w \in Workers : wpc[w] = "exited"
        /\ DestroyGoto("joined")
        /\ UNCHANGED wpc

DestroyEnd == /\ dpc = "joined"
              /\ DestroyGoto("freed")
              /\ UNCHANGED wpc

DestroyStep == Broadcast \/ Join \/ DestroyEnd

-----------------------------------------------------------------------------
Next == \/ \E w \in Workers : WorkerStep(w) \/ SpuriousWake(w)
        \/ \E c \in Callers : Call(c) \/ CallStep(c)
        \/ DestroyBegin
        \/ DestroyStep

Spec == Init /\ [][Next]_vars

(* Threads are scheduled and a call that began goes on. Callbacks return:    *)
(* strong fairness, as one may be busy with calls of its own now and then.  *)
(* Nothing makes a caller call, the owner destroy or a sleeper wake alone.  *)
Fairness == /\ \A w \in Workers : /\ WF_vars(WorkerStep(w))
                                  /\ SF_vars(Finish(w) \/ Retire(w))
            /\ \A c \in Callers : WF_vars(CallStep(c))
            /\ WF_vars(DestroyStep)

FairSpec == Spec /\ Fairness

-----------------------------------------------------------------------------
(* Properties                                                               *)

Results == {"ok", "ECANCELED"}
Held == {wtask[w] : w \in Workers} \ {NoTask}

TypeOK == /\ pending \in Seq(Addr)
          /\ lock \in Workers \cup {NoThread}
          /\ active \subseteq Addr
          /\ alloc \subseteq Addr
          /\ cancelled \in [Addr -> BOOLEAN]
          /\ wpc \in [Workers -> WorkerPcs]
          /\ wtask \in [Workers -> Addr \cup {NoTask}]
          /\ dpc \in {"live", "broadcast", "join", "joined", "freed"}
          /\ cpc \in [Callers -> CallPcs]
          /\ carg \in [Callers -> Addr \cup {NoTask}]
          /\ issued \subseteq Addr
          /\ submitted \in 0..MaxSubmit
          /\ spurious \in 0..MaxSpurious
          /\ results \in [Addr -> Seq(Results)]
          /\ late \in [Workers -> Nat]
          /\ doomed \subseteq Addr

\* A live task is in exactly one place: once in the pending list or in the
\* hands of one worker, across poll, push, remove and clear under two locks.
Distinct(s) == \A i, j \in DOMAIN s : s[i] = s[j] => i = j

Ownership == /\ Distinct(pending)
             /\ \A v, w \in Workers : wtask[v] = wtask[w] /\ wtask[v] # NoTask => v = w
             /\ Elems(pending) \cap Held = {}
             /\ alloc = Elems(pending) \cup Held
             /\ active = {wtask[w] : w \in {v \in Workers : wpc[v] \in ActivePcs}}

\* The finalizer of a task is called exactly once before the task is freed,
\* and not before the task has left the pending list (executor.h:30).
FinalizedOnce ==
    /\ \A a \in issued \ alloc : Len(results[a]) = 1
    /\ \A a \in Elems(pending) : results[a] = <<>>
    /\ \A w \in Workers : wpc[w] \in HoldPcs =>
          Len(results[wtask[w]]) = IF wpc[w] = "finalizing" THEN 1 ELSE 0

\* After the flag is set a worker begins at most one action, because it had
\* passed the test of the flag, and that task is finalized as cancelled.
LateStartBounded ==
    \A w \in Workers :
        /\ late[w] <= 1
        /\ late[w] = 1 /\ wpc[w] = "finalizing" => results[wtask[w]] = <<"ECANCELED">>

\* A task whose cancellation found it in the pending list never runs
\* (executor.h:30, "the action won't be invoked").
CancelledPendingNeverRuns ==
    \A w \in Workers : wpc[w] = "running" => wtask[w] \notin doomed

\* When the threads have been joined every task has been finalized and freed
\* (executor.h:22). This holds if only the owner and the workers make calls; a
\* submit by another thread that passed the test of the flag appends to a list
\* that nobody will clear again.
AllFinalizedAtJoin == dpc \in {"joined", "freed"} => alloc = {} /\ pending = <<>>

\* executor_destroy returns (executor.h:22, "All threads created will be joined").
ShutdownCompletes == dpc = "broadcast" ~> dpc = "freed"

\* It does, unless at the broadcast a worker is about to sleep: it had read the
\* flag, still false, under pending.lock, which the broadcast does not take.
ShutdownUnlessFallingAsleep ==
    dpc = "broadcast" /\ (\A w \in Workers : wpc[w] # "sleep") ~> dpc = "freed"

\* executor_cancel marks the task when the worker has taken it from the pending
\* list but not yet put it on the active list (executor.h:39, "Cancel a task").
CancelFindsTaken ==
    [][\A c \in Callers, w \in Workers :
          CancelPending(c) /\ wpc[w] = "polled" /\ wtask[w] = carg[c]
              => cancelled'[carg[c]]]_vars

\* The promise of executor.h, read off the state of the threads and lists.
phaseBar == [a \in Addr |->
    IF a \in Elems(pending) THEN "queued"
    ELSE IF \E w \in Workers : wtask[w] = a
    THEN LET w == CHOOSE w \in Workers : wtask[w] = a
         IN  IF wpc[w] \in {"polled", "start"} THEN "taken" ELSE wpc[w]
    ELSE "absent"]

stageBar == CASE dpc = "live" -> "open"
              [] dpc \in {"joined", "freed"} -> "closed"
              [] OTHER -> "closing"

Lifecycle == INSTANCE TaskLifecycle
                 WITH queue <- pending, phase <- phaseBar, stage <- stageBar

\* The executor implements the life cycle, when only the owner and the workers
\* make calls ...
ImplementsLifecycle == Lifecycle!Spec

\* ... and under its fairness every accepted task ends.
TasksEnd == Lifecycle!EveryTaskEnds

=============================================================================
