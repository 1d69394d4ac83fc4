--------------------------- MODULE TaskLifecycle ---------------------------
(***************************************************************************)
(* What executor.h promises about tasks, with no threads, locks or lists:  *)
(* a submitted task waits its turn, is taken, perhaps runs, is finalized   *)
(* exactly once and is gone; after the executor is closed a task may be    *)
(* rejected instead, and the executor ends only when every task is gone.   *)
(***************************************************************************)
EXTENDS Naturals, Sequences

CONSTANT Addr    \* identities of tasks, used again once a task is gone

VARIABLES
    queue,    \* tasks waiting their turn, in the order of their submission
    phase,    \* how far each task is
    results,  \* the finalizer calls the task last at an identity has had
    stage     \* of the executor: open, closing, closed

vars == <<queue, phase, results, stage>>

Phases == {"absent", "queued", "taken", "running", "finalizing"}

Init == /\ queue = <<>>
        /\ phase = [a \in Addr |-> "absent"]
        /\ results = [a \in Addr |-> <<>>]
        /\ stage = "open"

Move(a, from, to) == /\ phase[a] \in from
                     /\ phase' = [phase EXCEPT ![a] = to]
                     /\ UNCHANGED stage

\* a submission under way when the executor is closed may still be accepted
Submit(a) == /\ stage # "closed"
             /\ Move(a, {"absent"}, "queued")
             /\ queue' = Append(queue, a)
             /\ results' = [results EXCEPT ![a] = <<>>]

Take(a) == /\ queue # <<>> /\ a = Head(queue)
           /\ Move(a, {"queued"}, "taken")
           /\ queue' = Tail(queue)
           /\ UNCHANGED results

Run(a) == /\ Move(a, {"taken"}, "running")
          /\ UNCHANGED <<queue, results>>

\* success is reported only for a task that ran, and before the close
Finalize(a, result) == /\ result = "ok" => phase[a] = "running" /\ stage = "open"
                       /\ Move(a, {"taken", "running"}, "finalizing")
                       /\ results' = [results EXCEPT ![a] = Append(@, result)]
                       /\ UNCHANGED queue

Release(a) == /\ Move(a, {"finalizing"}, "absent")
              /\ UNCHANGED <<queue, results>>

\* finalized as cancelled without a turn of its own: from the head or taken
Reject(a) == /\ stage = "closing"
             /\ \/ phase[a] = "taken" /\ UNCHANGED queue
                \/ queue # <<>> /\ a = Head(queue) /\ queue' = Tail(queue)
             /\ Move(a, {"taken", "queued"}, "absent")
             /\ results' = [results EXCEPT ![a] = Append(@, "ECANCELED")]

Close == /\ stage = "open"
         /\ stage' = "closing"
         /\ UNCHANGED <<queue, phase, results>>

End == /\ stage = "closing"
       /\ \A a \in Addr : phase[a] = "absent"
       /\ stage' = "closed"
       /\ UNCHANGED <<queue, phase, results>>

Next == \/ \E a \in Addr : \/ Submit(a) \/ Take(a) \/ Run(a)
                           \/ \E r \in {"ok", "ECANCELED"} : Finalize(a, r)
                           \/ Release(a) \/ Reject(a)
        \/ Close
        \/ End

Spec == Init /\ [][Next]_vars

\* Every task that was accepted is finalized and released in the end, whether
\* or not the executor is destroyed meanwhile (executor.h: the finalizer
\* "will always be invoked even for cancelled task").
EveryTaskEnds == \A a \in Addr : phase[a] = "queued" ~> phase[a] = "absent"

=============================================================================
