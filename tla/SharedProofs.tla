---------------------------- MODULE SharedProofs ----------------------------
(***************************************************************************)
(* The safety of what threads share by a lock of its own: the references   *)
(* that RefCounter counts and the value that Lazy supplies, for any number *)
(* of threads, and the context of LunaCall, for any number of wakeups.     *)
(***************************************************************************)
EXTENDS RefCounter, Lazy, LunaCall, FiniteSetTheorems, TLAPS

-----------------------------------------------------------------------------
(* RefCounter: the invariant                                                *)

\* a thread taking a reference takes it for one that waits for no other
Granting ==
    \A t \in Threads : pc[t] = "reffing" =>
        /\ pc[peer[t]] = "granted"
        /\ \A u \in Threads : pc[u] = "reffing" /\ peer[u] = peer[t] => u = t

\* the threads that are, or are about to be, told that they were the last
Ends == {t \in Threads : \/ pc[t] = "last" \/ t \in destroyed
                         \/ pc[t] = "unlocked" /\ remaining[t] = 0}
OneEnd == /\ \A t, u \in Ends : t = u
          /\ Ends # {} => Holders = {}

CounterInv == TypeOK /\ Granting /\ CountsHolders /\ OneEnd

-----------------------------------------------------------------------------
(* The steps                                                                *)

\* Counting a set that gains or loses one member.
LEMMA Counting ==
    ASSUME NEW S \in SUBSET Threads
    PROVE  /\ IsFiniteSet(S) /\ Cardinality(S) \in Nat
           /\ Cardinality(S) = 0 <=> S = {}
           /\ \A x \in Threads \ S : Cardinality(S \cup {x}) = Cardinality(S) + 1
           /\ \A x \in S : Cardinality(S \ {x}) = Cardinality(S) - 1
<1>1. IsFiniteSet(S)
  BY ThreadsAssumption, FS_Subset
<1>. QED  BY <1>1, FS_CardinalityType, FS_EmptySet, FS_AddElement, FS_RemoveElement

\* The assertion of refcounter_ref changes no count.
LEMMA RefAssertStep ==
    ASSUME NEW t \in Threads, NEW u \in Threads, CounterInv, RefAssert(t, u)
    PROVE  CounterInv'
<1>. USE DEF CounterInv, RefAssert
<1>1. TypeOK'
  BY DEF TypeOK, States
<1>2. Granting'
  BY DEF TypeOK, Granting
<1>3. Holders' = Holders
  BY DEF TypeOK, Holders
<1>4. Ends' = Ends
  BY DEF TypeOK, Ends
<1>. QED  BY <1>1, <1>2, <1>3, <1>4 DEF CountsHolders, OneEnd

\* The count goes up for the thread that the reference is taken for.
LEMMA RefCountStep ==
    ASSUME NEW t \in Threads, CounterInv, RefCount(t)
    PROVE  CounterInv'
<1>. USE DEF CounterInv, RefCount
<1>1. peer[t] \in Threads /\ peer[t] # t /\ pc[peer[t]] = "granted"
  BY DEF TypeOK, Granting
<1>2. TypeOK'
  BY <1>1 DEF TypeOK, States
<1>3. Granting'
  BY <1>1 DEF TypeOK, Granting
<1>4. Holders' = Holders \cup {peer[t]} /\ peer[t] \notin Holders /\ t \in Holders
  BY <1>1 DEF TypeOK, Holders
<1>5. CountsHolders'
  <2>1. Holders \subseteq Threads
    BY DEF Holders
  <2>2. Cardinality(Holders \cup {peer[t]}) = Cardinality(Holders) + 1
    BY <1>1, <1>4, <2>1, Counting
  <2>. QED  BY <1>4, <2>2 DEF CountsHolders
<1>6. Ends' = Ends
  BY <1>1 DEF TypeOK, Ends
<1>7. OneEnd'
  BY <1>4, <1>6 DEF OneEnd
<1>. QED  BY <1>2, <1>3, <1>5, <1>7

\* The count goes down with a holder; it is kept as zero by the last one only.
LEMMA UnrefStep ==
    ASSUME NEW t \in Threads, CounterInv, Unref(t)
    PROVE  CounterInv'
<1>. USE DEF CounterInv, Unref
<1>1. Holders' = Holders \ {t} /\ t \in Holders /\ Holders \subseteq Threads
  BY DEF TypeOK, Holders
<1>2. counter - 1 \in Nat /\ counter - 1 = Cardinality(Holders')
  <2>1. Cardinality(Holders \ {t}) = Cardinality(Holders) - 1
    BY <1>1, Counting
  <2>2. Cardinality(Holders \ {t}) \in Nat
    BY <1>1, Counting
  <2>. QED  BY <1>1, <2>1, <2>2 DEF CountsHolders
<1>3. TypeOK'
  BY <1>2 DEF TypeOK, States
<1>4. Granting'
  BY DEF TypeOK, Granting
<1>5. CountsHolders'
  BY <1>2 DEF CountsHolders
<1>6. Ends = {}
  BY <1>1 DEF OneEnd
<1>7. Ends' \subseteq {t}
  BY <1>6 DEF TypeOK, Ends
<1>8. Ends' # {} => Holders' = {}
  <2>1. SUFFICES ASSUME t \in Ends' PROVE Holders' = {}
    BY <1>7
  <2>2. counter - 1 = 0
    BY <1>6, <2>1 DEF TypeOK, Ends
  <2>. QED  BY <1>1, <1>2, <2>2, Counting
<1>. QED  BY <1>3, <1>4, <1>5, <1>7, <1>8 DEF OneEnd

\* Returning from refcounter_unref tells the last one, and it alone.
LEMMA UnrefReturnsStep ==
    ASSUME NEW t \in Threads, CounterInv, UnrefReturns(t)
    PROVE  CounterInv'
<1>. USE DEF CounterInv, UnrefReturns, IsLast
<1>1. TypeOK'
  BY DEF TypeOK, States
<1>2. Granting'
  BY DEF TypeOK, Granting
<1>3. Holders' = Holders
  BY DEF TypeOK, Holders
<1>4. Ends' = Ends
  BY DEF TypeOK, Ends
<1>. QED  BY <1>1, <1>2, <1>3, <1>4 DEF CountsHolders, OneEnd

\* So does destroying.
LEMMA DestroyStep ==
    ASSUME NEW t \in Threads, CounterInv, Destroy(t)
    PROVE  CounterInv'
<1>. USE DEF CounterInv, Destroy
<1>1. TypeOK'
  BY DEF TypeOK, States
<1>2. Granting'
  BY DEF TypeOK, Granting
<1>3. Holders' = Holders
  BY DEF TypeOK, Holders
<1>4. Ends' = Ends
  BY DEF TypeOK, Ends
<1>. QED  BY <1>1, <1>2, <1>3, <1>4 DEF CountsHolders, OneEnd

\* refcounter_init leaves one reference, with the creator.
LEMMA InitInv == Init => CounterInv
<1>. SUFFICES ASSUME Init PROVE CounterInv
  OBVIOUS
<1>. USE CreatorAssumption DEF Init
<1>1. TypeOK
  BY DEF TypeOK, States
<1>2. Granting
  BY DEF Granting
<1>3. Holders = {Creator}
  BY DEF Holders
<1>4. CountsHolders
  BY <1>3, FS_Singleton DEF CountsHolders
<1>5. OneEnd
  BY DEF OneEnd, Ends
<1>. QED  BY <1>1, <1>2, <1>4, <1>5 DEF CounterInv

-----------------------------------------------------------------------------
(* The theorems                                                             *)

\* The invariant is inductive, so it always holds.
THEOREM CounterInvariance == Spec => []CounterInv
<1>1. CounterInv /\ [Next]_vars => CounterInv'
  <2>1. SUFFICES ASSUME CounterInv, [Next]_vars PROVE CounterInv'
    OBVIOUS
  <2>2. CASE UNCHANGED vars
    BY <2>1, <2>2 DEF vars, CounterInv, TypeOK, Granting, CountsHolders, Holders, OneEnd, Ends
  <2>3. CASE Next
    BY <2>1, <2>3, RefAssertStep, RefCountStep, UnrefStep, UnrefReturnsStep, DestroyStep
       DEF Next, Step
  <2>. QED  BY <2>1, <2>2, <2>3
<1>. QED  BY InitInv, <1>1, PTL DEF Spec

\* Every variable keeps its type; above all the counter, which never goes below
\* zero, as each count taken back is one that was counted.
THEOREM TypeCorrect == Spec => []TypeOK
<1>1. CounterInv => TypeOK
  BY DEF CounterInv
<1>. QED  BY CounterInvariance, <1>1, PTL

\* The counter is the number of references, for any number of threads.
THEOREM CountsHoldersSafe == Spec => []CountsHolders
<1>1. CounterInv => CountsHolders
  BY DEF CounterInv
<1>. QED  BY CounterInvariance, <1>1, PTL

\* One thread alone is told that it had the last reference, and then nobody
\* holds one (the regression of refcounter_tests.c).
THEOREM OneLastSafe == Spec => []OneLast
<1>1. ASSUME CounterInv PROVE OneLast
  <2>1. \A t \in Threads : pc[t] = "last" \/ t \in destroyed => t \in Ends
    BY DEF Ends
  <2>2. (\E t \in Threads : pc[t] = "last" \/ t \in destroyed) => Holders = {}
    BY <1>1, <2>1 DEF CounterInv, OneEnd
  <2>3. Holders = {} => counter = 0
    BY <1>1, FS_EmptySet DEF CounterInv, CountsHolders
  <2>. QED  BY <1>1, <2>1, <2>2, <2>3 DEF CounterInv, OneEnd, OneLast
<1>. QED  BY CounterInvariance, <1>1, PTL

-----------------------------------------------------------------------------
(* Lazy: the invariant                                                      *)

LazyTypes == /\ made \in BOOLEAN /\ supplied \in BOOLEAN
             /\ calls \in Nat
             /\ lazyValue \in Supplies \cup {Null, Junk}
             /\ got \in [Users -> Supplies \cup {Null, Junk, Nothing}]
             /\ supplying \in SUBSET Users

\* the mutex: one user at most is in the supplier, and the flag is set before it
\* goes in
OneInside == /\ \A u, v \in supplying : u = v
             /\ supplying # {} => made /\ supplied

\* before the flag is set nothing has been called, and nobody has been answered
Untouched == made /\ ~supplied => calls = 0 /\ \A u \in Users : got[u] = Nothing

\* while the supplier runs the mutex keeps the others from an answer; from its
\* return on the value is what it returned
Settled ==
    made /\ supplied =>
        /\ calls <= 1
        /\ supplying # {} => \A u \in Users \ supplying : got[u] = Nothing
        /\ supplying = {} => /\ lazyValue \in Supplies
                             /\ \A u \in Users : got[u] # Nothing => got[u] = lazyValue

LazyInv == LazyTypes /\ OneInside /\ Untouched /\ Settled

-----------------------------------------------------------------------------
LEMMA LazyInitHolds == LazyInit => LazyInv
<1> SUFFICES ASSUME LazyInit PROVE LazyInv
    OBVIOUS
<1>1. LazyTypes
      BY DEF LazyInit, LazyTypes
<1>2. OneInside /\ Untouched /\ Settled
      BY DEF LazyInit, OneInside, Untouched, Settled
<1>3. QED BY <1>1, <1>2 DEF LazyInv

LEMMA LazyStepHolds == LazyInv /\ [LazyNext]_lazyVars => LazyInv'
<1> SUFFICES ASSUME LazyInv, [LazyNext]_lazyVars PROVE LazyInv'
    OBVIOUS
<1> USE DEF LazyInv, LazyTypes, OneInside, Untouched, Settled
<1>1. ASSUME NEW u \in Users, ObtainHad(u) PROVE LazyInv'
      BY <1>1 DEF ObtainHad, MayLock
<1>2. ASSUME NEW u \in Users, ObtainBegin(u) PROVE LazyInv'
      BY <1>2 DEF ObtainBegin, MayLock
<1>3. ASSUME NEW u \in Users, ObtainNested(u) PROVE LazyInv'
      BY <1>3 DEF ObtainNested
<1>4. ASSUME NEW u \in Users, ObtainEnd(u) PROVE LazyInv'
  <2>1. PICK v \in Supplies : lazyValue' = v /\ got' = [got EXCEPT ![u] = v]
        BY <1>4 DEF ObtainEnd
  <2>2. /\ supplying = {u} /\ supplying' = {}
        /\ made /\ supplied /\ UNCHANGED <<made, supplied, calls>>
        BY <1>4 DEF ObtainEnd
  <2>3. \A w \in Users : got'[w] = v \/ got'[w] = Nothing
        BY <2>1, <2>2
  <2>4. QED BY <2>1, <2>2, <2>3
<1>5. CASE Create
      BY <1>5 DEF Create
<1>6. CASE Deinit
      BY <1>6 DEF Deinit
<1>7. CASE UNCHANGED lazyVars
      BY <1>7 DEF lazyVars
<1>8. QED BY <1>1, <1>2, <1>3, <1>4, <1>5, <1>6, <1>7 DEF LazyNext

LEMMA LazyInvariance == LazySpec => []LazyInv
BY LazyInitHolds, LazyStepHolds, PTL DEF LazySpec

\* However the calls of any number of users interleave, lazy_obtain calls the
\* supplier once between lazy_init and lazy_deinit, and gives every user outside
\* of it the value it returned.
THEOREM OneValueSafe == LazySpec => []OneValue
<1>1. LazyInv => OneValue
      BY DEF LazyInv, LazyTypes, OneInside, Untouched, Settled, OneValue
<1>2. QED BY LazyInvariance, <1>1, PTL

-----------------------------------------------------------------------------
(* LunaCall: the invariant and its steps                                    *)

\* the mutex is held by who stands between its lock and its unlock; the reply is
\* marked as finished inside the callback's lock, so the caller, who looks under
\* the same mutex, sees the mark only when the callback has left the context
LunaInv ==
    /\ mutex \in {"none", "caller", "callback"}
    /\ mutex = "caller" <=> caller = "test"
    /\ mutex = "callback" <=> reply = "locked"
    /\ finished <=> reply \in {"locked", "signalled"}
    /\ caller \in {"idle", "failed"} => reply = "none"
    /\ caller = "done" => reply = "signalled"
    /\ caller \in {"idle", "failed", "called", "test", "sleep", "done"}

LEMMA LunaInitHolds == LunaInit => LunaInv
BY DEF LunaInit, LunaInv

LEMMA LunaStepHolds == LunaInv /\ [LunaNext]_lunaVars => LunaInv'
<1> SUFFICES ASSUME LunaInv, [LunaNext]_lunaVars PROVE LunaInv'
    OBVIOUS
<1> USE DEF LunaInv, CallerGoes
<1>1. CASE CallFails
      BY <1>1 DEF CallFails
<1>2. CASE CallMade
      BY <1>2 DEF CallMade
<1>3. CASE Lock
      BY <1>3 DEF Lock
<1>4. CASE Test
  <2>1. CASE finished
        BY <1>4, <2>1 DEF Test
  <2>2. CASE ~finished
        BY <1>4, <2>2 DEF Test
  <2>3. QED BY <2>1, <2>2
<1>5. CASE Spurious
      BY <1>5 DEF Spurious
<1>6. CASE Arrive
      BY <1>6 DEF Arrive
<1>7. CASE CallbackLock
      BY <1>7 DEF CallbackLock
<1>8. CASE CallbackSignal
      BY <1>8 DEF CallbackSignal
<1>9. CASE UNCHANGED lunaVars
      BY <1>9 DEF lunaVars
<1>10. QED BY <1>1, <1>2, <1>3, <1>4, <1>5, <1>6, <1>7, <1>8, <1>9
           DEF LunaNext, CallerStep, CallbackStep

LEMMA LunaInvariance == LunaSpec => []LunaInv
BY LunaInitHolds, LunaStepHolds, PTL DEF LunaSpec

\* The context that HLunaServiceCallSync keeps on its stack is there for as long
\* as the callback may use it: whenever the reply comes, and however often the
\* caller wakes without a signal, the call does not return before the callback
\* has unlocked the context's mutex.
THEOREM ContextLivesSafe == LunaSpec => []ContextLives
<1>1. LunaInv => ContextLives
      BY DEF LunaInv, ContextLives
<1>2. QED BY LunaInvariance, <1>1, PTL

=============================================================================
