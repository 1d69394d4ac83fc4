----------------------------- MODULE RefCounter -----------------------------
(***************************************************************************)
(* util/refcounter/refcounter.h: a count of references to a shared object, *)
(* used the way a caller uses it: whoever holds a reference may take one   *)
(* for another thread, drops its own, and destroys the object if told that *)
(* it was the last. A thread holds at most one reference here.             *)
(***************************************************************************)
EXTENDS Naturals, FiniteSets

CONSTANTS Threads,   \* threads that may come to hold a reference
          Creator    \* the one that calls refcounter_init

ASSUME CreatorAssumption == Creator \in Threads
ASSUME ThreadsAssumption == IsFiniteSet(Threads)

VARIABLES
    counter,    \* counter->counter
    pc,         \* where a thread is: without a reference (none), waiting for
                \* the one another takes for it (granted), holding one (hold),
                \* taking one for another (reffing), in refcounter_unref after
                \* the unlock (unlocked), told it had the last (last), or done
    peer,       \* for whom a thread is taking a reference
    remaining,  \* refcounter_unref's local variable
    destroyed   \* history: the threads that destroyed the counter

vars == <<counter, pc, peer, remaining, destroyed>>

\* refcounter_init, by the creator, which holds the first reference
\* mutant: the object comes zeroed, and its count stays so
InitZero == /\ counter = 0
            /\ pc = [t \in Threads |-> IF t = Creator THEN "hold" ELSE "none"]
            /\ peer = [t \in Threads |-> t]
            /\ remaining = [t \in Threads |-> 1]
            /\ destroyed = {}
Init == /\ counter = 1
        /\ pc = [t \in Threads |-> IF t = Creator THEN "hold" ELSE "none"]
        /\ peer = [t \in Threads |-> t]
        /\ remaining = [t \in Threads |-> 1]
        /\ destroyed = {}

\* refcounter_ref by t for u: the assertion reads the counter without the lock
RefAssert(t, u) == /\ pc[t] = "hold" /\ pc[u] = "none"
                   /\ pc' = [pc EXCEPT ![t] = "reffing", ![u] = "granted"]
                   /\ peer' = [peer EXCEPT ![t] = u]
                   /\ UNCHANGED <<counter, remaining, destroyed>>

RefCount(t) == /\ pc[t] = "reffing"
               /\ counter' = counter + 1
               /\ pc' = [pc EXCEPT ![t] = "hold", ![peer[t]] = "hold"]
               /\ UNCHANGED <<peer, remaining, destroyed>>

\* refcounter_unref: count down and keep the result, both under the lock
\* mutant: no lock, another thread's update may overwrite this one
UnrefUnlocked(t) == /\ pc[t] = "hold"
                    /\ counter' \in {counter, counter - 1}
                    /\ remaining' = [remaining EXCEPT ![t] = counter - 1]
                    /\ pc' = [pc EXCEPT ![t] = "unlocked"]
                    /\ UNCHANGED <<peer, destroyed>>
Unref(t) == /\ pc[t] = "hold"
            /\ counter' = counter - 1
            /\ remaining' = [remaining EXCEPT ![t] = counter - 1]
            /\ pc' = [pc EXCEPT ![t] = "unlocked"]
            /\ UNCHANGED <<peer, destroyed>>

\* mutant: the counter itself is read, after the unlock (what the test
\* refcounter_tests.c guards against)
IsLastUnlocked(t) == counter = 0
IsLast(t) == remaining[t] = 0

UnrefReturns(t) == /\ pc[t] = "unlocked"
                   /\ pc' = [pc EXCEPT ![t] = IF IsLast(t) THEN "last" ELSE "none"]
                   /\ UNCHANGED <<counter, peer, remaining, destroyed>>

\* the caller told that it was the last calls refcounter_destroy
Destroy(t) == /\ pc[t] = "last"
              /\ pc' = [pc EXCEPT ![t] = "done"]
              /\ destroyed' = destroyed \cup {t}
              /\ UNCHANGED <<counter, peer, remaining>>

Step(t) == \/ \E u \in Threads : RefAssert(t, u)
           \/ RefCount(t) \/ Unref(t) \/ UnrefReturns(t) \/ Destroy(t)

Next == \E t \in Threads : Step(t)

Spec == Init /\ [][Next]_vars

-----------------------------------------------------------------------------
(* Properties                                                               *)

States == {"none", "granted", "hold", "reffing", "unlocked", "last", "done"}
Holders == {t \in Threads : pc[t] \in {"hold", "reffing"}}

TypeOK == /\ counter \in Nat
          /\ pc \in [Threads -> States]
          /\ peer \in [Threads -> Threads]
          /\ remaining \in [Threads -> Nat]
          /\ destroyed \subseteq Threads

\* The counter counts the references: while anybody holds one the assertion of
\* refcounter_ref (line 22) holds, and no count is lost between two threads.
CountsHolders == counter = Cardinality(Holders)

\* At most one thread is told that its reference was the last, and only when no
\* reference is left; so the assertion of refcounter_destroy (line 17) holds and
\* nothing is destroyed twice or in use (refcounter_tests.c, line 3).
OneLast ==
    /\ \A t, u \in Threads : /\ pc[t] = "last" \/ t \in destroyed
                             /\ pc[u] = "last" \/ u \in destroyed
                             => t = u
    /\ (\E t \in Threads : pc[t] = "last" \/ t \in destroyed) => counter = 0 /\ Holders = {}

=============================================================================
