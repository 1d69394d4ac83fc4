---------------------------- MODULE GcdbUpdater -----------------------------
(***************************************************************************)
(* device/gcdb-updater/gamecontrollerdb_updater.c on util/executor: one    *)
(* thread of the program starts updates of the controller database as      *)
(* tasks of an executor, which it also gives other tasks, and takes the    *)
(* updater down. executor_task_state and executor_cancel look in the two   *)
(* lists one after the other. What an update does while it runs is         *)
(* GcdbDownload; here it uses the updater from its start to its finalizer. *)
(***************************************************************************)
EXTENDS Executor

CONSTANT App    \* the thread, the only caller of the executor
ASSUME AppAssumption == App \in Callers

VARIABLES
    upc,      \* where App is: idle, query, start, other or deinit
    updTask,  \* updater->update_task
    updates,  \* the tasks that are updates, among those not yet freed
    freed,    \* the updater is gone
    there,    \* history: the update was pending, or between the lists, when
              \* commons_gcdb_updater_update looked in the active one
    crossed,  \* history: and was not pending when it looked in the other
    former,   \* history: addresses that updates have had
    refused,  \* history: tasks for whose sake no update was started
    loose     \* history: the updates that the cancel of deinit was too late for

updVars == <<upc, updTask, freed, there, crossed, refused, loose>>
gcdbVars == <<vars, updVars, updates, former>>

GcdbInit == /\ Init
            /\ upc = "idle"
            /\ updTask = NoTask
            /\ updates = {}
            /\ freed = FALSE
            /\ there = FALSE
            /\ crossed = FALSE
            /\ former = {}
            /\ refused = {}
            /\ loose = {}

Taken(a) == \E w \in Workers : wtask[w] = a /\ wpc[w] = "polled"

-----------------------------------------------------------------------------
(* commons_gcdb_updater_update, all under updater->lock                     *)

\* executor_task_state tells of a task, and the update starts unless that is
\* pending or active
Found(a) == /\ upc' = IF cancelled[a] THEN "start" ELSE "idle"
            /\ refused' = IF cancelled[a] THEN refused ELSE refused \cup {a}

\* the active list is looked at first
QueryActive ==
    /\ upc = "idle" /\ ~freed /\ MayCall(App)
    /\ \/ updTask = NoTask /\ upc' = "start" /\ UNCHANGED refused
       \/ updTask \in active /\ Found(updTask)
       \/ updTask \notin active \cup {NoTask} /\ upc' = "query" /\ UNCHANGED refused
    /\ there' = (updTask \in Elems(pending) \/ Taken(updTask))
    /\ UNCHANGED <<updTask, freed, crossed, loose, updates, former, vars>>

\* then the pending list
\* mutant: which is not looked at
NotPending == upc' = "start" /\ UNCHANGED refused
IfPending == IF updTask \in Elems(pending) THEN Found(updTask)
             ELSE upc' = "start" /\ UNCHANGED refused

QueryPending == /\ upc = "query" /\ lock = NoThread
                /\ IfPending
                /\ crossed' = (crossed \/ (there /\ updTask \notin Elems(pending)))
                /\ UNCHANGED <<updTask, freed, there, loose, updates, former, vars>>

\* update_thread_start; or App submits a task of another kind
StartUpdate == /\ upc = "start" /\ Submit(App)
               /\ UNCHANGED <<updVars, updates, former>>
StartOther == /\ upc = "idle" /\ Submit(App)
              /\ upc' = "other"
              /\ UNCHANGED <<updTask, freed, there, crossed, refused, loose, updates, former>>

Push == /\ SubmitPush(App)
        /\ updates' = IF upc = "start" THEN updates \cup {carg'[App]} ELSE updates
        /\ UNCHANGED <<updVars, former>>

Submitted == /\ SubmitSignal(App)
             /\ upc' = "idle"
             /\ updTask' = IF upc = "start" THEN carg[App] ELSE updTask
             /\ UNCHANGED <<freed, there, crossed, refused, loose, updates, former>>

-----------------------------------------------------------------------------
(* commons_gcdb_updater_deinit                                              *)

DeinitBegin == /\ upc = "idle" /\ ~freed
               /\ \/ updTask # NoTask /\ Cancel(App, updTask)
                  \/ updTask = NoTask /\ UNCHANGED vars
               /\ upc' = "deinit"
               /\ UNCHANGED <<updTask, freed, there, crossed, refused, loose, updates, former>>

DeinitCancel == /\ upc = "deinit"
                /\ CancelActive(App) \/ CancelPending(App)
                /\ UNCHANGED <<updVars, updates, former>>

DeinitEnd == /\ upc = "deinit" /\ cpc[App] = "idle"
             /\ freed' = TRUE
             /\ upc' = "idle"
             /\ updTask' = NoTask
             /\ loose' = {a \in updates : \/ a # updTask
                                          \/ \E w \in Workers : /\ wtask[w] = a
                                                                /\ ~(wpc[w] = "start" /\ cancelled[a])}
             /\ UNCHANGED <<there, crossed, refused, updates, former, vars>>

-----------------------------------------------------------------------------
\* the workers, who may free an update, and the end of the executor
Executes == /\ \/ \E w \in Workers : WorkerStep(w) \/ SpuriousWake(w)
               \/ upc = "idle" /\ DestroyBegin
               \/ DestroyStep
            /\ updates' = updates \cap alloc'
            /\ former' = former \cup (updates \ alloc')
            /\ UNCHANGED updVars

GcdbNext == \/ QueryActive \/ QueryPending \/ StartUpdate \/ StartOther \/ Push \/ Submitted
            \/ DeinitBegin \/ DeinitCancel \/ DeinitEnd
            \/ Executes

GcdbSpec == GcdbInit /\ [][GcdbNext]_gcdbVars

-----------------------------------------------------------------------------
(* Properties                                                               *)

GcdbTypeOK == /\ TypeOK
              /\ upc \in {"idle", "query", "start", "other", "deinit"}
              /\ updTask \in Addr \cup {NoTask}
              /\ updates \subseteq alloc
              /\ former \cup refused \cup loose \subseteq Addr

\* No two updates are there at once, which would write the same file, unless the
\* worker took the first from one list to the other while its state was asked
\* for (test_gcdb_update.c:22 expects the second one to be refused).
OneUpdate == Cardinality(updates) > 1 => crossed

\* After commons_gcdb_updater_deinit, which frees what an update uses (line 60),
\* an update runs, or reports that it ended well, only if a worker had it in its
\* hands when the cancellation was made: one still pending never does.
NoLateUse ==
    freed => \A w \in Workers :
        /\ wtask[w] \in updates
        /\ wpc[w] = "running" \/ (wpc[w] = "finalizing" /\ results[wtask[w]] = <<"ok">>)
        => wtask[w] \in loose

\* Another task is cancelled, or taken for an update under way, only if it has
\* got the address of an update that ended: update_task is not cleared then
\* (line 88), and the executor compares addresses (executor.c:291).
OthersAlone == \A a \in alloc \ updates : cancelled[a] \/ a \in refused => a \in former

=============================================================================
