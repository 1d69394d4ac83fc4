------------------------------ MODULE LunaCall ------------------------------
(***************************************************************************)
(* platform/webos/luna-sync/lunasynccall.c: an asynchronous call to a      *)
(* service made to wait for its reply, which a callback brings on another  *)
(* thread, perhaps before the call has returned. The context with its      *)
(* mutex lives on the caller's stack.                                      *)
(***************************************************************************)
EXTENDS Naturals

CONSTANTS Messages,  \* what the service may reply
          NoMessage,
          MaxSpurious \* bound: wakeups without a signal

VARIABLES
    caller,    \* where HLunaServiceCallSync is
    finished,  \* context.finished
    mutex,     \* held by the caller, by the callback or by none
    output,    \* what *output holds, if the caller wants it
    wanted,    \* the caller gave an output
    reply,     \* what the library has done with the reply
    wakings    \* counts wakeups without a signal, up to MaxSpurious

lunaVars == <<caller, finished, mutex, output, wanted, reply, wakings>>

LunaInit == /\ caller = "idle"
            /\ finished = FALSE
            /\ mutex = "none"
            /\ output = NoMessage
            /\ wanted \in BOOLEAN
            /\ reply = "none"
            /\ wakings = 0

CallerGoes(from, to) == /\ caller = from
                        /\ caller' = to
                        /\ UNCHANGED wanted

\* HLunaServiceCall fails and there is no reply, or a reply may come
CallFails == /\ CallerGoes("idle", "failed")
             /\ UNCHANGED <<finished, mutex, output, reply, wakings>>
CallMade == /\ CallerGoes("idle", "called")
            /\ reply' = "due"
            /\ UNCHANGED <<finished, mutex, output, wakings>>

\* mutant: the caller does not wait for the callback to unlock
LockAnyway == /\ CallerGoes("called", "test")
              /\ mutex' = "caller"
              /\ UNCHANGED <<finished, output, reply, wakings>>
Lock == /\ CallerGoes("called", "test") /\ mutex = "none"
        /\ mutex' = "caller"
        /\ UNCHANGED <<finished, output, reply, wakings>>

\* while (!context.finished): pthread_cond_wait releases the mutex as it sleeps
\* mutant: the caller waits for the signal without looking whether it came
TestNot == /\ CallerGoes("test", "sleep")
           /\ mutex' = "none"
           /\ UNCHANGED <<finished, output, reply, wakings>>
Test == /\ CallerGoes("test", IF finished THEN "done" ELSE "sleep")
        /\ mutex' = "none"
        /\ UNCHANGED <<finished, output, reply, wakings>>

\* the caller wakes without a signal, and takes the mutex
Spurious == /\ wakings < MaxSpurious
            /\ CallerGoes("sleep", "called")
            /\ wakings' = wakings + 1
            /\ UNCHANGED <<finished, mutex, output, reply>>

\* the library decides to deliver a reply; callback runs to its unlock
Arrive == /\ reply = "due"
          /\ reply' = "arrived"
          /\ UNCHANGED <<caller, finished, mutex, output, wanted, wakings>>

CallbackLock == /\ reply = "arrived" /\ mutex = "none"
                /\ mutex' = "callback"
                /\ finished' = TRUE
                /\ reply' = "locked"
                /\ UNCHANGED <<caller, output, wanted, wakings>>

\* strdup of the message, then the signal and the unlock
CallbackSignal == /\ reply = "locked"
                  /\ \E m \in Messages : output' = IF wanted THEN m ELSE output
                  /\ reply' = "signalled"
                  /\ mutex' = "none"
                  /\ caller' = IF caller = "sleep" THEN "called" ELSE caller
                  /\ UNCHANGED <<finished, wanted, wakings>>

\* what the two threads do when they are scheduled: both are fair. That a reply
\* arrives, or a sleeper wakes alone, is not assumed.
CallerStep   == Lock \/ Test
CallbackStep == CallbackLock \/ CallbackSignal

LunaNext == \/ CallFails \/ CallMade \/ CallerStep \/ Spurious
            \/ Arrive \/ CallbackStep

LunaSpec == LunaInit /\ [][LunaNext]_lunaVars

-----------------------------------------------------------------------------
\* The context is on the stack of the caller: from the call on, until the
\* callback has left it, the caller is in the function that it belongs to
\* (line 22), even when the callback comes before the wait.
ContextLives == reply \in {"due", "arrived", "locked"} => caller \in {"called", "test", "sleep"}

\* Once the reply arrives, before or after the caller begins to wait, the call
\* returns, with the message if one was wanted; without a reply it never does.
LunaReturns == (reply = "arrived") ~> /\ caller = "done"
                                      /\ wanted => output \in Messages

=============================================================================
