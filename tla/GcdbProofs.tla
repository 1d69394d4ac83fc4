----------------------------- MODULE GcdbProofs -----------------------------
(***************************************************************************)
(* The safety of GcdbUpdater for any number of threads, tasks and updates. *)
(* It rests on what ExecutorProofs shows of the executor, since every step *)
(* of the updater is a step of the executor or leaves that alone.          *)
(***************************************************************************)
EXTENDS GcdbUpdater, ExecutorProofs, FiniteSetTheorems

-----------------------------------------------------------------------------
(* The inductive invariant                                                  *)

\* in which call of the executor App is, at each of its own program points
Places ==
    /\ upc \in {"idle", "query"} => cpc[App] = "idle"
    /\ upc = "start" => cpc[App] \in {"idle", "push", "signal"}
    /\ upc = "other" => cpc[App] \in {"push", "signal"}
    /\ upc = "deinit" => cpc[App] \in {"idle", "cancelActive", "cancelPending"}
    /\ freed => upc \in {"idle", "other"}

\* updater->update_task, and the task of the call under way, are an update or
\* the address of one that ended
Pointer ==
    /\ updTask \in updates \cup former \cup {NoTask}
    /\ upc = "query" => updTask # NoTask
    /\ upc = "start" /\ cpc[App] = "signal" => carg[App] \in updates \cup former
    /\ upc = "deinit" /\ cpc[App] # "idle" => carg[App] = updTask /\ updTask # NoTask

\* so nothing else is marked or waited for, and nothing before deinit
Marked ==
    /\ \A a \in alloc : cancelled[a] => a \in updates \cup former
    /\ refused \subseteq updates \cup former
    /\ \A a \in alloc : cancelled[a] => freed \/ upc = "deinit"

\* the only update there is the one update_task points to, or will
Only == ~crossed =>
    /\ \A a, b \in updates : a = b
    /\ upc = "start" /\ cpc[App] # "signal" => updates = {}
    /\ upc = "start" /\ cpc[App] = "signal" => updates \subseteq {carg[App]}
    /\ upc # "start" /\ ~freed => updates \subseteq {updTask}
    /\ upc = "query" /\ ~there => updates = {}

\* the cancel of deinit has marked the update if that is still pending
Undone == upc = "deinit" /\ cpc[App] = "idle" /\ updTask \in Elems(pending) => cancelled[updTask]

\* an update that it was in time for is marked and has not been run since
NotRun(a) == /\ cancelled[a]
             /\ \A w \in Workers : wtask[w] = a =>
                   \/ wpc[w] \in {"polled", "start"}
                   \/ wpc[w] = "finalizing" /\ results[a] # <<"ok">>
InTime == freed => \A a \in updates \ loose : NotRun(a)

GcdbInv == GcdbTypeOK /\ Places /\ Pointer /\ Marked /\ Only /\ Undone /\ InTime

-----------------------------------------------------------------------------
(* The updater on the executor                                              *)

\* A step of the updater is a step of the executor, or none of its.
LEMMA GcdbStep == ASSUME [GcdbNext]_gcdbVars PROVE [Next]_vars
<1>1. CASE QueryActive
  BY <1>1 DEF QueryActive
<1>2. CASE QueryPending
  BY <1>2 DEF QueryPending
<1>3. CASE StartUpdate
  BY <1>3, AppAssumption DEF StartUpdate, Next, Call
<1>4. CASE StartOther
  BY <1>4, AppAssumption DEF StartOther, Next, Call
<1>5. CASE Push
  BY <1>5, AppAssumption DEF Push, Next, CallStep
<1>6. CASE Submitted
  BY <1>6, AppAssumption DEF Submitted, Next, CallStep
<1>7. CASE DeinitBegin
  <2>1. CASE Cancel(App, updTask)
    BY <2>1, AppAssumption DEF Next, Call, Cancel
  <2>. QED  BY <1>7, <2>1 DEF DeinitBegin
<1>8. CASE DeinitCancel
  BY <1>8, AppAssumption DEF DeinitCancel, Next, CallStep
<1>9. CASE DeinitEnd
  BY <1>9 DEF DeinitEnd
<1>10. CASE Executes
  BY <1>10 DEF Executes, Next
<1>11. CASE UNCHANGED gcdbVars
  BY <1>11 DEF gcdbVars
<1>. QED  BY <1>1, <1>2, <1>3, <1>4, <1>5, <1>6, <1>7, <1>8, <1>9, <1>10, <1>11 DEF GcdbNext

\* The updater uses the executor as anybody may: what is proved of every use of
\* the executor holds of this one (update_thread_start, update and deinit).
THEOREM GcdbUsesExecutor == GcdbSpec => Spec
<1>1. GcdbInit => Init
  BY DEF GcdbInit
<1>2. [GcdbNext]_gcdbVars => [Next]_vars
  BY GcdbStep
<1>. QED  BY <1>1, <1>2, PTL DEF GcdbSpec, Spec

-----------------------------------------------------------------------------
(* What the steps of the threads of the executor do                         *)

\* They free tasks and take them from the pending list, and that is all that
\* the thread App can tell.
LEMMA RunFrame ==
    ASSUME TypeOK, Executes
    PROVE  /\ cancelled' = cancelled /\ alloc' \subseteq alloc
           /\ Elems(pending') \subseteq Elems(pending)
           /\ UNCHANGED <<cpc, carg>>
<1>. DEFINE Frame == /\ cancelled' = cancelled /\ alloc' \subseteq alloc
                     /\ Elems(pending') \subseteq Elems(pending)
                     /\ UNCHANGED <<cpc, carg>>
<1>0. pending # <<>> => Elems(Tail(pending)) \subseteq Elems(pending)
  BY HeadTail DEF TypeOK
<1>1. ASSUME NEW w \in Workers, WorkerStep(w) PROVE Frame
  <2>1. CASE PollTask(w)
    BY <2>1, <1>0 DEF PollTask, Goto, heapVars, callVars
  <2>2. CASE ClearTask(w)
    BY <2>2, <1>0 DEF ClearTask, Goto, callVars
  <2>3. CASE PollEmpty(w) \/ PollCheck(w) \/ CondWait(w) \/ Activate(w) \/ Start(w)
             \/ ClearBegin(w) \/ ClearEnd(w)
    BY <2>3 DEF PollEmpty, PollCheck, CondWait, Activate, Start, ClearBegin, ClearEnd,
                Goto, heapVars, queueVars, callVars
  <2>4. CASE Drop(w) \/ Skip(w) \/ Finish(w) \/ Retire(w)
    BY <2>4 DEF Drop, Skip, Finish, Retire, Goto, queueVars, callVars
  <2>. QED  BY <1>1, <2>1, <2>2, <2>3, <2>4 DEF WorkerStep
<1>2. ASSUME NEW w \in Workers, SpuriousWake(w) PROVE Frame
  BY <1>2 DEF SpuriousWake, heapVars, queueVars, callVars
<1>3. CASE DestroyBegin
  BY <1>3 DEF DestroyBegin, DestroyGoto, heapVars, queueVars, callVars
<1>4. CASE DestroyStep
  BY <1>4 DEF DestroyStep, Broadcast, Join, DestroyEnd, DestroyGoto, heapVars, queueVars, callVars
<1>. QED  BY <1>1, <1>2, <1>3, <1>4 DEF Executes

\* A finalizer called last with ECANCELED has not been told that all went well.
LEMMA NotOk == \A s \in Seq(Results) : Append(s, "ECANCELED") # <<"ok">>
<1>. SUFFICES ASSUME NEW s \in Seq(Results), Append(s, "ECANCELED") = <<"ok">> PROVE FALSE
  OBVIOUS
<1>1. Len(s) \in Nat /\ Len(Append(s, "ECANCELED")) = Len(s) + 1
      /\ Append(s, "ECANCELED")[Len(s) + 1] = "ECANCELED"
  BY DEF Results
<1>2. Len(<<"ok">>) = 1 /\ <<"ok">>[1] = "ok"
  OBVIOUS
<1>3. Len(s) = 0
  BY <1>1, <1>2
<1>. QED  BY <1>1, <1>2, <1>3

\* Whatever is done with the executor, a task that was marked before it ran is
\* not run for as long as it is there.
LEMMA NotRunStays ==
    ASSUME TypeOK, [Next]_vars, NEW a \in alloc, a \in alloc', NotRun(a)
    PROVE  NotRun(a)'
<1>0. /\ a \in Addr /\ a # NoTask
      /\ results[a] \in Seq(Results)
      /\ Append(results[a], "ECANCELED") # <<"ok">>
  BY TasksAssumption, NotOk DEF TypeOK
<1>1. ASSUME NEW w \in Workers, WorkerStep(w) PROVE NotRun(a)'
  <2>1. CASE PollTask(w)
    BY <1>0, <2>1 DEF PollTask, Goto, heapVars, NotRun, TypeOK
  <2>2. CASE PollEmpty(w) \/ PollCheck(w) \/ CondWait(w)
    BY <1>0, <2>2 DEF PollEmpty, PollCheck, CondWait, Goto, heapVars, NotRun, TypeOK
  <2>3. CASE Drop(w)
    BY <1>0, <2>3 DEF Drop, Goto, CallFinalizer, NotRun, TypeOK
  <2>4. CASE Activate(w)
    BY <1>0, <2>4 DEF Activate, Goto, heapVars, NotRun, TypeOK
  <2>5. CASE Start(w)
    BY <1>0, <2>5 DEF Start, Goto, Skips, heapVars, NotRun, TypeOK
  <2>6. CASE Skip(w)
    BY <1>0, <2>6 DEF Skip, Goto, CallFinalizer, NotRun, TypeOK
  <2>7. CASE Finish(w)
    BY <1>0, <2>7 DEF Finish, Goto, CallFinalizer, NotRun, TypeOK
  <2>8. CASE Retire(w)
    BY <1>0, <2>8 DEF Retire, Goto, NotRun, TypeOK
  <2>9. CASE ClearBegin(w) \/ ClearEnd(w)
    BY <1>0, <2>9 DEF ClearBegin, ClearEnd, Goto, heapVars, NotRun, TypeOK
  <2>10. CASE ClearTask(w)
    BY <1>0, <2>10 DEF ClearTask, Goto, CallFinalizer, NotRun, TypeOK
  <2>. QED  BY <1>1, <2>1, <2>2, <2>3, <2>4, <2>5, <2>6, <2>7, <2>8, <2>9, <2>10 DEF WorkerStep
<1>2. ASSUME NEW w \in Workers, SpuriousWake(w) PROVE NotRun(a)'
  BY <1>0, <1>2 DEF SpuriousWake, heapVars, NotRun, TypeOK
<1>3. ASSUME NEW c \in Callers, Call(c) PROVE NotRun(a)'
  BY <1>0, <1>3 DEF Call, Submit, Cancel, GoOn, heapVars, NotRun
<1>4. ASSUME NEW c \in Callers, CallStep(c) PROVE NotRun(a)'
  <2>1. CASE SubmitPush(c)
    BY <1>0, <2>1 DEF SubmitPush, GoOn, NotRun, TypeOK
  <2>2. CASE SubmitSignal(c)
    BY <1>0, <2>2 DEF SubmitSignal, CondSignal, Waiting, GoOn, heapVars, NotRun, TypeOK
  <2>3. CASE CancelActive(c) \/ CancelPending(c)
    BY <1>0, <2>3 DEF CancelActive, CancelPending, GoOn, NotRun, TypeOK
  <2>. QED  BY <1>4, <2>1, <2>2, <2>3 DEF CallStep
<1>5. CASE DestroyBegin \/ DestroyStep
  BY <1>0, <1>5 DEF DestroyBegin, DestroyStep, Broadcast, Join, DestroyEnd, DestroyGoto, Waiting,
                    heapVars, NotRun, TypeOK
<1>6. CASE UNCHANGED vars
  BY <1>6 DEF vars, heapVars, workerVars, NotRun
<1>. QED  BY <1>1, <1>2, <1>3, <1>4, <1>5, <1>6 DEF Next

\* Asking for the state of the update, App may note that it waits for that.
LEMMA QueryFrame ==
    ASSUME TypeOK, QueryActive \/ QueryPending
    PROVE  /\ UNCHANGED <<updTask, freed, loose, updates, former>> /\ UNCHANGED vars
           /\ upc \in {"idle", "query"} /\ upc' \in {"idle", "query", "start"}
           /\ upc' = "query" => updTask # NoTask
           /\ refused' \in {refused, refused \cup {updTask}}
           /\ refused' # refused => updTask \in Addr
<1>1. active \subseteq Addr /\ Elems(pending) \subseteq Addr /\ NoTask \notin Addr
  BY TasksAssumption DEF TypeOK, Elems
<1>2. CASE QueryActive
  BY <1>1, <1>2 DEF QueryActive, Found
<1>3. CASE QueryPending
  BY <1>1, <1>3 DEF QueryPending, IfPending, Found
<1>. QED  BY <1>2, <1>3

\* App puts a new task, unmarked, at the end of the list.
LEMMA PushFrame ==
    ASSUME TypeOK, Push
    PROVE  /\ cpc[App] = "push" /\ cpc'[App] = "signal"
           /\ carg'[App] \in Addr \ alloc /\ alloc' = alloc \cup {carg'[App]}
           /\ cancelled' = [cancelled EXCEPT ![carg'[App]] = FALSE]
           /\ updates' = IF upc = "start" THEN updates \cup {carg'[App]} ELSE updates
<1>1. PICK a \in Addr \ alloc : /\ alloc' = alloc \cup {a}
                                /\ cancelled' = [cancelled EXCEPT ![a] = FALSE]
                                /\ GoOn(App, "signal", a)
  BY DEF Push, SubmitPush
<1>2. carg'[App] = a /\ cpc'[App] = "signal"
  BY <1>1, AppAssumption DEF GoOn, TypeOK
<1>. QED  BY <1>1, <1>2 DEF Push, SubmitPush, InCall

-----------------------------------------------------------------------------
(* The steps: each part of the invariant is kept.                           *)

\* Every variable keeps its type.
LEMMA GcdbTypeStep ==
    ASSUME IInv, IInv', GcdbTypeOK, [GcdbNext]_gcdbVars
    PROVE  GcdbTypeOK'
<1>0. TypeOK /\ TypeOK'
  BY DEF IInv
<1>1. CASE QueryActive \/ QueryPending
  BY <1>0, <1>1, QueryFrame DEF vars, heapVars, GcdbTypeOK
<1>2. CASE StartUpdate \/ StartOther
  BY <1>0, <1>2 DEF StartUpdate, StartOther, updVars, Submit, heapVars, GcdbTypeOK
<1>3. CASE Push
  BY <1>0, <1>3, PushFrame DEF Push, updVars, GcdbTypeOK
<1>4. CASE Submitted
  BY <1>0, <1>4, AppAssumption DEF Submitted, SubmitSignal, heapVars, GcdbTypeOK, TypeOK
<1>5. CASE DeinitBegin
  BY <1>0, <1>5 DEF DeinitBegin, Cancel, vars, heapVars, GcdbTypeOK
<1>6. CASE DeinitCancel
  BY <1>0, <1>6 DEF DeinitCancel, updVars, CancelActive, CancelPending, GcdbTypeOK
<1>7. CASE DeinitEnd
  BY <1>0, <1>7 DEF DeinitEnd, vars, heapVars, GcdbTypeOK, TypeOK
<1>8. CASE Executes
  BY <1>0, <1>8 DEF Executes, updVars, GcdbTypeOK, TypeOK
<1>9. CASE UNCHANGED gcdbVars
  BY <1>0, <1>9 DEF gcdbVars, updVars, vars, heapVars, GcdbTypeOK
<1>. QED  BY <1>1, <1>2, <1>3, <1>4, <1>5, <1>6, <1>7, <1>8, <1>9 DEF GcdbNext

\* App is where its program point says.
LEMMA PlacesStep ==
    ASSUME IInv, Places, [GcdbNext]_gcdbVars
    PROVE  Places'
<1>0. TypeOK
  BY DEF IInv
<1>1. CASE QueryActive \/ QueryPending
  BY <1>1 DEF QueryActive, QueryPending, Found, IfPending, vars, callVars, Places
<1>2. CASE StartUpdate \/ StartOther
  BY <1>0, <1>2, AppAssumption DEF StartUpdate, StartOther, updVars, Submit, MayCall, GoOn, Places, TypeOK
<1>3. CASE Push
  BY <1>0, <1>3, PushFrame DEF Push, updVars, Places
<1>4. CASE Submitted
  BY <1>0, <1>4, AppAssumption DEF Submitted, SubmitSignal, InCall, GoOn, Places, TypeOK
<1>5. CASE DeinitBegin
  <2>1. CASE Cancel(App, updTask)
    BY <1>0, <1>5, <2>1, AppAssumption DEF DeinitBegin, Cancel, GoOn, Places, TypeOK
  <2>2. CASE UNCHANGED vars
    BY <1>5, <2>2 DEF DeinitBegin, vars, callVars, Places
  <2>. QED  BY <1>5, <2>1, <2>2 DEF DeinitBegin
<1>6. CASE DeinitCancel
  BY <1>0, <1>6, AppAssumption DEF DeinitCancel, updVars, CancelActive, CancelPending, GoOn, Places, TypeOK
<1>7. CASE DeinitEnd
  BY <1>7 DEF DeinitEnd, vars, callVars, Places
<1>8. CASE Executes
  BY <1>0, <1>8, RunFrame DEF Executes, updVars, Places
<1>9. CASE UNCHANGED gcdbVars
  BY <1>9 DEF gcdbVars, updVars, vars, callVars, Places
<1>. QED  BY <1>1, <1>2, <1>3, <1>4, <1>5, <1>6, <1>7, <1>8, <1>9 DEF GcdbNext

\* No other task comes to be taken for an update.
LEMMA PointerStep ==
    ASSUME IInv, Places, Pointer, [GcdbNext]_gcdbVars
    PROVE  Pointer'
<1>0. TypeOK
  BY DEF IInv
<1>1. CASE QueryActive \/ QueryPending
  BY <1>1 DEF QueryActive, QueryPending, Found, IfPending, vars, callVars, Pointer, Places
<1>2. CASE StartUpdate \/ StartOther
  BY <1>0, <1>2, AppAssumption DEF StartUpdate, StartOther, updVars, Submit, MayCall, GoOn, Pointer, TypeOK
<1>3. CASE Push
  BY <1>0, <1>3, PushFrame DEF Push, updVars, Pointer, Places
<1>4. CASE Submitted
  BY <1>0, <1>4, AppAssumption DEF Submitted, SubmitSignal, InCall, GoOn, Pointer, Places, TypeOK
<1>5. CASE DeinitBegin
  BY <1>0, <1>5, AppAssumption DEF DeinitBegin, Cancel, GoOn, vars, callVars, Pointer, Places, TypeOK
<1>6. CASE DeinitCancel
  BY <1>0, <1>6, AppAssumption DEF DeinitCancel, updVars, CancelActive, CancelPending, InCall, GoOn, Pointer, TypeOK
<1>7. CASE DeinitEnd
  BY <1>7 DEF DeinitEnd, Pointer
<1>8. CASE Executes
  <2>1. updates' \cup former' = updates \cup former
    BY <1>8 DEF Executes
  <2>. QED  BY <1>0, <1>8, <2>1, RunFrame DEF Executes, updVars, Pointer
<1>9. CASE UNCHANGED gcdbVars
  BY <1>9 DEF gcdbVars, updVars, vars, callVars, Pointer
<1>. QED  BY <1>1, <1>2, <1>3, <1>4, <1>5, <1>6, <1>7, <1>8, <1>9 DEF GcdbNext

\* Nothing else is marked, or waited for.
LEMMA MarkedStep ==
    ASSUME IInv, GcdbTypeOK, Places, Pointer, Marked, [GcdbNext]_gcdbVars
    PROVE  Marked'
<1>0. TypeOK /\ updates \subseteq alloc
  BY DEF IInv, GcdbTypeOK
<1>1. CASE QueryActive \/ QueryPending
  BY <1>0, <1>1, QueryFrame, TasksAssumption DEF vars, heapVars, Marked, Pointer, Places
<1>2. CASE StartUpdate \/ StartOther
  BY <1>2 DEF StartUpdate, StartOther, updVars, Submit, heapVars, Marked
<1>3. CASE Push
  <2>1. /\ carg'[App] \in Addr \ alloc /\ alloc' = alloc \cup {carg'[App]}
        /\ cancelled' = [cancelled EXCEPT ![carg'[App]] = FALSE]
        /\ updates \subseteq updates'
        /\ UNCHANGED <<upc, refused, freed, former>>
    BY <1>0, <1>3, PushFrame DEF Push, updVars
  <2>2. \A a \in alloc' : cancelled'[a] => a \in alloc /\ cancelled[a]
    BY <1>0, <2>1 DEF TypeOK
  <2>. QED  BY <2>1, <2>2 DEF Marked
<1>4. CASE Submitted
  BY <1>4 DEF Submitted, SubmitSignal, heapVars, Marked, Places, InCall
<1>5. CASE DeinitBegin
  BY <1>5 DEF DeinitBegin, Cancel, vars, heapVars, Marked
<1>6. CASE DeinitCancel
  BY <1>0, <1>6 DEF DeinitCancel, updVars, CancelActive, CancelPending, InCall, Marked, Pointer, TypeOK
<1>7. CASE DeinitEnd
  BY <1>7 DEF DeinitEnd, vars, heapVars, Marked
<1>8. CASE Executes
  <2>1. updates' \cup former' = updates \cup former
    BY <1>8 DEF Executes
  <2>. QED  BY <1>0, <1>8, <2>1, RunFrame DEF Executes, updVars, Marked
<1>9. CASE UNCHANGED gcdbVars
  BY <1>9 DEF gcdbVars, updVars, vars, heapVars, Marked
<1>. QED  BY <1>1, <1>2, <1>3, <1>4, <1>5, <1>6, <1>7, <1>8, <1>9 DEF GcdbNext

\* The cancel of deinit looks in both lists, and nothing is put into one meanwhile.
LEMMA UndoneStep ==
    ASSUME IInv, Places, Pointer, Undone, [GcdbNext]_gcdbVars
    PROVE  Undone'
<1>0. TypeOK /\ NoTask \notin Elems(pending)
  BY TasksAssumption DEF IInv, TypeOK, Elems
<1>1. CASE QueryActive \/ QueryPending \/ StartUpdate \/ StartOther \/ Push \/ Submitted \/ DeinitEnd
  <2>1. upc' # "deinit"
    BY <1>1 DEF QueryActive, QueryPending, StartUpdate, StartOther, Push, Submitted, DeinitEnd,
                Found, IfPending, updVars, SubmitPush, InCall, Places
  <2>. QED  BY <2>1 DEF Undone
<1>2. CASE DeinitBegin
  BY <1>0, <1>2, AppAssumption DEF DeinitBegin, Cancel, GoOn, heapVars, queueVars, vars, callVars, Undone, TypeOK
<1>3. CASE DeinitCancel
  BY <1>0, <1>3, AppAssumption DEF DeinitCancel, updVars, CancelActive, CancelPending, InCall, GoOn,
                                   queueVars, Undone, Pointer, TypeOK
<1>4. CASE Executes
  BY <1>0, <1>4, RunFrame DEF Executes, updVars, Undone
<1>5. CASE UNCHANGED gcdbVars
  BY <1>5 DEF gcdbVars, updVars, vars, heapVars, queueVars, callVars, Undone
<1>. QED  BY <1>1, <1>2, <1>3, <1>4, <1>5 DEF GcdbNext

\* A second update is started only across the move of the first.
LEMMA OnlyStep ==
    ASSUME IInv, GcdbTypeOK, Places, Pointer, Marked, Only, [GcdbNext]_gcdbVars
    PROVE  Only'
<1>0. /\ TypeOK /\ updates \subseteq alloc /\ updates \subseteq Addr /\ NoTask \notin updates
      /\ alloc = Elems(pending) \cup Held
      /\ \A w \in Workers : wtask[w] # NoTask => wpc[w] \in HoldPcs
      /\ active = {wtask[w] : w \in {v \in Workers : wpc[v] \in ActivePcs}}
  BY TasksAssumption DEF IInv, GcdbTypeOK, TypeOK, TaskHolder, Ownership
<1>1. CASE QueryActive
  <2>1. upc = "idle" /\ ~freed /\ ~crossed' = ~crossed
    BY <1>1 DEF QueryActive
  <2>2. CASE updTask = NoTask
    <3>1. upc' = "start"
      BY <1>0, <1>1, <2>2, TasksAssumption DEF QueryActive, TypeOK
    <3>2. cpc'[App] = "idle" /\ (~crossed => updates = {})
      BY <1>0, <1>1, <2>1, <2>2 DEF QueryActive, vars, callVars, Only, Places
    <3>. QED  BY <1>1, <2>1, <3>1, <3>2 DEF QueryActive, Only
  <2>3. CASE updTask \in active
    <3>1. updTask # NoTask /\ updTask \in alloc
      BY <1>0, <2>3 DEF ActivePcs, IInv, TaskHolder, HoldPcs, Held
    <3>2. ~cancelled[updTask]
      BY <2>1, <3>1 DEF Marked
    <3>3. upc' = "idle"
      BY <1>1, <2>3, <3>1, <3>2 DEF QueryActive, Found
    <3>. QED  BY <1>1, <2>1, <3>3 DEF QueryActive, Only
  <2>4. CASE updTask # NoTask /\ updTask \notin active
    <3>1. upc' = "query"
      BY <1>1, <2>4 DEF QueryActive
    <3>2. ASSUME ~there', ~crossed PROVE updates = {}
      <4>1. updTask \notin Elems(pending) /\ ~Taken(updTask)
        BY <1>1, <3>2 DEF QueryActive
      <4>2. updTask \notin Held
        BY <1>0, <2>4, <4>1 DEF Taken, Held, HoldPcs
      <4>. QED  BY <1>0, <2>1, <3>2, <4>1, <4>2 DEF Only
    <3>. QED  BY <1>1, <2>1, <3>1, <3>2 DEF QueryActive, Only
  <2>. QED  BY <2>2, <2>3, <2>4
<1>2. CASE QueryPending
  <2>0. upc = "query" /\ ~freed /\ updTask # NoTask /\ cpc'[App] = "idle"
    BY <1>2 DEF QueryPending, Places, Pointer, vars, callVars
  <2>1. CASE updTask \in Elems(pending)
    <3>1. ~cancelled[updTask]
      BY <1>0, <2>0, <2>1 DEF Marked
    <3>2. upc' = "idle" /\ UNCHANGED <<updates, updTask, freed>> /\ (~crossed' => ~crossed)
      BY <1>2, <2>1, <3>1 DEF QueryPending, IfPending, Found
    <3>. QED  BY <2>0, <3>2 DEF Only
  <2>2. CASE updTask \notin Elems(pending)
    <3>1. upc' = "start" /\ UNCHANGED <<updates, freed>> /\ (~crossed' => ~crossed /\ ~there)
      BY <1>2, <2>2 DEF QueryPending, IfPending
    <3>. QED  BY <2>0, <3>1 DEF Only
  <2>. QED  BY <2>1, <2>2
<1>3. CASE StartUpdate
  BY <1>0, <1>3, AppAssumption DEF StartUpdate, updVars, Submit, MayCall, GoOn, Only, TypeOK
<1>4. CASE StartOther
  BY <1>4 DEF StartOther, Only
<1>5. CASE Push
  BY <1>0, <1>5, PushFrame DEF Push, updVars, Only
<1>6. CASE Submitted
  BY <1>6 DEF Submitted, SubmitSignal, InCall, Only, Places
<1>7. CASE DeinitBegin
  BY <1>7 DEF DeinitBegin, Only
<1>8. CASE DeinitCancel
  BY <1>8 DEF DeinitCancel, updVars, Only
<1>9. CASE DeinitEnd
  BY <1>9 DEF DeinitEnd, Only
<1>10. CASE Executes
  BY <1>0, <1>10, RunFrame DEF Executes, updVars, Only
<1>11. CASE UNCHANGED gcdbVars
  BY <1>11 DEF gcdbVars, updVars, vars, callVars, Only
<1>. QED  BY <1>1, <1>2, <1>3, <1>4, <1>5, <1>6, <1>7, <1>8, <1>9, <1>10, <1>11 DEF GcdbNext

\* What the cancellation was in time for stays unrun.
LEMMA InTimeStep ==
    ASSUME IInv, GcdbTypeOK, Places, Undone, InTime, [GcdbNext]_gcdbVars
    PROVE  InTime'
<1>0. /\ TypeOK /\ updates \subseteq alloc
      /\ alloc = Elems(pending) \cup Held
  BY DEF IInv, GcdbTypeOK, Ownership
<1>1. CASE DeinitEnd
  <2>1. SUFFICES ASSUME NEW a \in updates, a \notin loose' PROVE NotRun(a)
    BY <1>1 DEF DeinitEnd, InTime, NotRun, vars, heapVars, workerVars
  <2>2. /\ a = updTask
        /\ \A w \in Workers : wtask[w] = a => wpc[w] = "start" /\ cancelled[a]
    BY <1>1, <2>1 DEF DeinitEnd
  <2>3. cancelled[a]
    BY <1>0, <1>1, <2>2 DEF DeinitEnd, Undone, Held
  <2>. QED  BY <2>2, <2>3 DEF NotRun
<1>2. CASE ~DeinitEnd
  <2>1. SUFFICES ASSUME freed', NEW a \in updates' \ loose' PROVE NotRun(a)'
    BY DEF InTime
  <2>2. freed /\ loose' = loose
    BY <1>2, <2>1 DEF GcdbNext, QueryActive, QueryPending, StartUpdate, StartOther, Push, Submitted,
                      DeinitBegin, DeinitCancel, Executes, updVars, gcdbVars
  <2>3. a \in updates /\ a \in alloc'
    <3>1. CASE Push
      BY <1>0, <2>1, <2>2, <3>1, PushFrame DEF Places
    <3>2. CASE Executes
      BY <2>1, <3>2 DEF Executes
    <3>3. CASE ~Push /\ ~Executes
      BY <1>0, <1>2, <2>1, <3>3 DEF GcdbNext, QueryActive, QueryPending, StartUpdate, StartOther, Submitted,
            DeinitBegin, DeinitCancel, gcdbVars, vars, heapVars, Submit, SubmitSignal, Cancel,
            CancelActive, CancelPending
    <3>. QED  BY <3>1, <3>2, <3>3
  <2>4. NotRun(a)
    BY <2>1, <2>2, <2>3 DEF InTime
  <2>. QED  BY <1>0, <2>3, <2>4, GcdbStep, NotRunStays
<1>. QED  BY <1>1, <1>2

-----------------------------------------------------------------------------
(* The theorems                                                             *)

LEMMA GcdbInitInv == GcdbInit => GcdbInv
<1>1. SUFFICES ASSUME GcdbInit PROVE GcdbInv
  OBVIOUS
<1>2. TypeOK
  BY <1>1, InitInv DEF GcdbInit, IInv
<1>3. cpc[App] = "idle" /\ alloc = {}
  BY <1>1, AppAssumption DEF GcdbInit, Init
<1>. QED  BY <1>1, <1>2, <1>3 DEF GcdbInit, GcdbInv, GcdbTypeOK, Places, Pointer, Marked, Only,
                                  Undone, InTime

\* The inductive invariant behind the others holds in every reachable state.
THEOREM GcdbInvariance == GcdbSpec => []GcdbInv
<1>1. GcdbInv /\ IInv /\ IInv' /\ [GcdbNext]_gcdbVars => GcdbInv'
  BY GcdbTypeStep, PlacesStep, PointerStep, MarkedStep, OnlyStep, UndoneStep, InTimeStep DEF GcdbInv
<1>2. GcdbSpec => []IInv
  BY GcdbUsesExecutor, Invariance, PTL
<1>. QED  BY <1>1, <1>2, GcdbInitInv, PTL DEF GcdbSpec

\* Every variable of the updater has its type.
THEOREM GcdbTypeCorrect == GcdbSpec => []GcdbTypeOK
<1>1. GcdbInv => GcdbTypeOK
  BY DEF GcdbInv
<1>. QED  BY GcdbInvariance, <1>1, PTL

\* Two updates are there at once only if a worker took the first from one list
\* to the other while commons_gcdb_updater_update looked for it.
THEOREM OneUpdateSafe == GcdbSpec => []OneUpdate
<1>1. ASSUME GcdbInv PROVE OneUpdate
  <2>1. SUFFICES ASSUME ~crossed PROVE ~(Cardinality(updates) > 1)
    BY DEF OneUpdate
  <2>2. \A a, b \in updates : a = b
    BY <1>1, <2>1 DEF GcdbInv, Only
  <2>3. CASE updates = {}
    BY <2>3, FS_EmptySet
  <2>4. CASE updates # {}
    <3>1. PICK a \in updates : updates = {a}
      BY <2>2, <2>4
    <3>. QED  BY <3>1, FS_Singleton
  <2>. QED  BY <2>3, <2>4
<1>. QED  BY GcdbInvariance, <1>1, PTL

\* After commons_gcdb_updater_deinit only an update that a worker already had
\* runs or ends well.
THEOREM NoLateUseSafe == GcdbSpec => []NoLateUse
<1>1. GcdbInv => NoLateUse
  BY DEF GcdbInv, InTime, NotRun, NoLateUse
<1>. QED  BY GcdbInvariance, <1>1, PTL

\* Another task is marked, or taken for the update, only at an address that an
\* update had.
THEOREM OthersAloneSafe == GcdbSpec => []OthersAlone
<1>1. GcdbInv => OthersAlone
  BY DEF GcdbInv, Marked, OthersAlone
<1>. QED  BY GcdbInvariance, <1>1, PTL

\* Each update is finalized once, however the updater uses the executor.
THEOREM UpdatesFinalizedOnce == GcdbSpec => []FinalizedOnce
  BY GcdbUsesExecutor, FinalizedOnceSafe, PTL

=============================================================================
