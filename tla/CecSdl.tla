------------------------------- MODULE CecSdl -------------------------------
(***************************************************************************)
(* device/cec-sdl: a thread opens the CEC adapter and then waits to be     *)
(* told to stop. ctx->lock is held only by cec_sdl_init and                *)
(* cec_sdl_deinit, which one thread calls, and is left out. The worker's   *)
(* test of ctx->quit and its wait are under ctx->cond_lock, the signal of  *)
(* deinit is not. The callbacks of libCEC touch none of this.              *)
(***************************************************************************)
EXTENDS Naturals

CONSTANTS MaxWakes      \* bound: spurious wakeups

VARIABLES
    worker,    \* where the thread is in cec_thread_worker
    owner,     \* where cec_sdl_deinit is
    quit,      \* ctx->quit
    wakes      \* counts spurious wakeups, up to MaxWakes

cecVars == <<worker, owner, quit, wakes>>

\* cec_sdl_init
CecInit == /\ worker = "start"
           /\ owner = "live"
           /\ quit = FALSE
           /\ wakes = 0

-----------------------------------------------------------------------------
(* cec_thread_worker                                                        *)

WorkerGoes(from, to) == /\ worker = from
                        /\ worker' = to
                        /\ UNCHANGED <<owner, quit>>

\* libcecc_initialise fails, or not
Initialise == /\ \/ WorkerGoes("start", "exited")
                 \/ WorkerGoes("start", "open")
              /\ UNCHANGED wakes

\* the thread waits whether an adapter could be opened or not
ReopenFirst == WorkerGoes("open", "test") /\ UNCHANGED wakes

\* cec_interrupted, with cond_lock held from here into SDL_CondWait
\* mutant: the flag is not looked at before the first wait
TestQuitNot == WorkerGoes("test", "sleep") /\ UNCHANGED wakes
TestQuit == WorkerGoes("test", IF quit THEN "exited" ELSE "sleep") /\ UNCHANGED wakes

CondWait == WorkerGoes("sleep", "waiting") /\ UNCHANGED wakes

Wake == /\ wakes < MaxWakes
        /\ WorkerGoes("waiting", "test")
        /\ wakes' = wakes + 1

-----------------------------------------------------------------------------
(* cec_sdl_deinit                                                           *)

SetQuit == /\ owner = "live"
           /\ owner' = "signal"
           /\ quit' = TRUE
           /\ UNCHANGED <<worker, wakes>>

\* SDL_CondSignal
Signal == /\ owner = "signal"
          /\ owner' = "join"
          /\ worker' = IF worker = "waiting" THEN "test" ELSE worker
          /\ UNCHANGED <<quit, wakes>>

\* SDL_WaitThread, libcecc_destroy, and the rest
Join == /\ owner = "join" /\ worker = "exited"
        /\ owner' = "gone"
        /\ UNCHANGED <<worker, quit, wakes>>

-----------------------------------------------------------------------------
\* what the thread and the owner do once they are called, which is what happens
\* if they are scheduled: both are fair. Nothing makes the thread wake alone.
WorkerStep == Initialise \/ ReopenFirst \/ TestQuit \/ CondWait
OwnerStep  == Signal \/ Join

CecNext == \/ WorkerStep \/ Wake
           \/ SetQuit \/ OwnerStep

-----------------------------------------------------------------------------
\* cec_sdl_deinit returns, unless the worker is about to sleep when deinit signals:
\* it had read quit, still false, under cond_lock, which deinit does not take.
CecStops == (owner = "signal" /\ worker # "sleep") ~> owner = "gone"

=============================================================================
