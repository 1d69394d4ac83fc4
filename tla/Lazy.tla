-------------------------------- MODULE Lazy --------------------------------
(***************************************************************************)
(* util/lazy/lazy.h: a value that is supplied when it is first asked for.  *)
(* The mutex is one of SDL's, which its holder may lock again, so that a   *)
(* supplier may obtain the value it is about to supply.                    *)
(***************************************************************************)
EXTENDS Naturals

CONSTANTS Users,    \* threads that call lazy_obtain
          Supplies, \* what the supplier may return, perhaps Null
          Null,
          Junk      \* the value nobody has set in the memory of a lazy_t

VARIABLES
    made,       \* between lazy_init and lazy_deinit
    lazyValue,  \* lazy->value
    supplied,   \* lazy->value_supplied
    supplying,  \* the users inside the supplier, with the mutex held
    calls,      \* history: calls of the supplier since lazy_init
    got         \* history: what a user's last lazy_obtain returned

lazyVars == <<made, lazyValue, supplied, supplying, calls, got>>

Nothing == "nothing"   \* the user's call has not returned

LazyInit == /\ made = FALSE
            /\ lazyValue = Junk
            /\ supplied = FALSE
            /\ supplying = {}
            /\ calls = 0
            /\ got = [u \in Users |-> Nothing]

\* lazy_init, which leaves the value as it is
Create == /\ ~made
          /\ made' = TRUE
          /\ supplied' = FALSE
          /\ calls' = 0
          /\ got' = [u \in Users |-> Nothing]
          /\ UNCHANGED <<lazyValue, supplying>>

\* SDL_LockMutex: nobody else holds it
\* mutant: there is no mutex
MayLockAlways(u) == made /\ u \notin supplying
MayLock(u) == made /\ supplying = {}

\* lazy_obtain, of a value already there; or the call of the supplier
ObtainHad(u) == /\ MayLock(u) /\ supplied
                /\ got' = [got EXCEPT ![u] = lazyValue]
                /\ UNCHANGED <<made, lazyValue, supplied, supplying, calls>>

ObtainBegin(u) == /\ MayLock(u) /\ ~supplied
                  /\ supplied' = TRUE
                  /\ supplying' = supplying \cup {u}
                  /\ calls' = calls + 1
                  /\ UNCHANGED <<made, lazyValue, got>>

\* the supplier obtains the value itself: it finds it supplied, and not set
ObtainNested(u) == /\ u \in supplying /\ supplied
                   /\ got' = [got EXCEPT ![u] = lazyValue]
                   /\ UNCHANGED <<made, lazyValue, supplied, supplying, calls>>

ObtainEnd(u) == /\ u \in supplying
                /\ \E v \in Supplies : /\ lazyValue' = v
                                       /\ got' = [got EXCEPT ![u] = v]
                /\ supplying' = supplying \ {u}
                /\ UNCHANGED <<made, supplied, calls>>

\* lazy_deinit, when no user is inside, as its comment demands
Deinit == /\ made /\ supplying = {}
          /\ made' = FALSE
          /\ lazyValue' = Null
          /\ supplied' = FALSE
          /\ UNCHANGED <<supplying, calls, got>>

LazyNext == \/ \E u \in Users : ObtainHad(u) \/ ObtainBegin(u) \/ ObtainNested(u) \/ ObtainEnd(u)
            \/ Create
            \/ Deinit

LazySpec == LazyInit /\ [][LazyNext]_lazyVars

-----------------------------------------------------------------------------
\* However the calls of the users interleave, the supplier is called at most
\* once between init and deinit, and every call that returns outside of it
\* returns the one value it supplied (also when that is null, which must not be
\* taken for an unsupplied value). Only the thread inside the supplier may have
\* seen the value before it was set (line 33 sets the flag before the call).
OneValue ==
    made => /\ calls <= 1
            /\ \A u \in Users \ supplying :
                  got[u] # Nothing => got[u] = lazyValue /\ got[u] \in Supplies

=============================================================================
