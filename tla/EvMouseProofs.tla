---------------------------- MODULE EvMouseProofs ----------------------------
(***************************************************************************)
(* The safety of EvMouse for any set of mice: of the devices and of early  *)
(* interrupts for any number of threads that listen, of the round that a   *)
(* listener is let to finish for one thread.                               *)
(***************************************************************************)
EXTENDS EvMouse, FiniteSetTheorems, TLAPS

-----------------------------------------------------------------------------
(* The inductive invariant, for any number of threads that listen           *)

\* the history of select is kept for each thread
TodoType == todo \in [Listeners -> SUBSET Mice]

\* while a thread is in evmouse_listen the devices are open
ListenersOpen == \A l \in Listeners : lpc[l] # "idle" => fds # {}

\* what select reported is read before the loop goes round
Unread == \A l \in Listeners : lpc[l] # "read" => todo[l] = {}

\* only an open mouse is flagged as grabbed, so that none is when nothing is open
GrabsOpen == \A m \in Mice : grab[m] => m \in fds

\* an early interrupt waits for a listen that has not begun
Early == early => interrupted /\ \A l \in Listeners : lpc[l] = "idle"

IInv == /\ TypeOK /\ TodoType /\ ListenersOpen /\ Unread
        /\ GrabsOpen /\ GrabsKnown /\ Early /\ NothingLeftBehind

-----------------------------------------------------------------------------
(* The steps                                                                *)

\* The bound of the history is a number that grows with the mice.
LEMMA CallsBound ==
    Cardinality(Mice) \in Nat /\ MaxCalls \in Nat /\ MaxCalls = Cardinality(Mice) + 1
  BY MiceAssumption, FS_CardinalityType DEF MaxCalls

\* Every variable keeps its type, and what select reported stays within the open
\* mice: they are opened and closed only while nobody listens.
LEMMA TypeStep ==
    ASSUME TypeOK, TodoType, ListenersOpen, Unread, [Next]_vars
    PROVE  TypeOK' /\ TodoType'
<1>0. /\ 0 \in 0..MaxCalls
      /\ \A i \in 0..MaxCalls, n \in {0, 1} : i < MaxCalls => i + n \in 0..MaxCalls
  BY CallsBound
<1>. USE DEF TypeOK, TodoType, LoopPcs, flagVars, deviceVars, listenVars
<1>1. CASE Open
  BY <1>1 DEF Open, SomeMice, ListenersOpen, Unread
<1>2. CASE Close
  BY <1>2 DEF Close, Unread
<1>3. CASE Interrupt
  BY <1>3 DEF Interrupt
<1>4. ASSUME NEW g \in BOOLEAN, SetGrab(g) PROVE TypeOK' /\ TodoType'
  BY <1>4 DEF SetGrab
<1>5. ASSUME NEW m \in Mice, OtherGrabs(m) PROVE TypeOK' /\ TodoType'
  BY <1>5 DEF OtherGrabs
<1>6. ASSUME NEW l \in Listeners, ListenConsumes(l) PROVE TypeOK' /\ TodoType'
  BY <1>6 DEF ListenConsumes
<1>7. ASSUME NEW l \in Listeners, ListenEnters(l) PROVE TypeOK' /\ TodoType'
  BY <1>0, <1>7 DEF ListenEnters, LGoto
<1>8. ASSUME NEW l \in Listeners, CheckListening(l) PROVE TypeOK' /\ TodoType'
  BY <1>8 DEF CheckListening, LGoto
<1>9. ASSUME NEW l \in Listeners, Select(l) PROVE TypeOK' /\ TodoType'
  BY <1>9 DEF Select, LGoto
<1>10. ASSUME NEW l \in Listeners, ReadEvent(l) PROVE TypeOK' /\ TodoType'
  <2>1. calls' \in [Listeners -> 0..MaxCalls]
    BY <1>0, <1>10 DEF ReadEvent, CountCall
  <2>2. lpc' \in [Listeners -> {"idle", "out"} \cup LoopPcs]
    BY <1>10 DEF ReadEvent, LGoto
  <2>3. todo' \in [Listeners -> SUBSET Mice] /\ \A k \in Listeners : todo'[k] \in SUBSET fds
    BY <1>10 DEF ReadEvent
  <2>. QED  BY <1>10, <2>1, <2>2, <2>3 DEF ReadEvent
<1>11. ASSUME NEW l \in Listeners, ListenReturns(l) PROVE TypeOK' /\ TodoType'
  BY <1>11 DEF ListenReturns, LGoto
<1>12. CASE UNCHANGED vars
  BY <1>12 DEF vars
<1>. QED  BY <1>1, <1>2, <1>3, <1>4, <1>5, <1>6, <1>7, <1>8, <1>9, <1>10, <1>11, <1>12
          DEF Next, Loop

\* Nobody is inside evmouse_listen without devices, and what is left to read is
\* left only to a thread that reads.
LEMMA ListenStep ==
    ASSUME TypeOK, TodoType, ListenersOpen, Unread, [Next]_vars
    PROVE  ListenersOpen' /\ Unread'
<1>. USE DEF TypeOK, TodoType, ListenersOpen, Unread, LoopPcs, flagVars, deviceVars, listenVars
<1>1. CASE Open
  BY <1>1 DEF Open, SomeMice
<1>2. CASE Close
  BY <1>2 DEF Close
<1>3. CASE Interrupt
  BY <1>3 DEF Interrupt
<1>4. ASSUME NEW g \in BOOLEAN, SetGrab(g) PROVE ListenersOpen' /\ Unread'
  BY <1>4 DEF SetGrab
<1>5. ASSUME NEW m \in Mice, OtherGrabs(m) PROVE ListenersOpen' /\ Unread'
  BY <1>5 DEF OtherGrabs
<1>6. ASSUME NEW l \in Listeners, ListenConsumes(l) PROVE ListenersOpen' /\ Unread'
  BY <1>6 DEF ListenConsumes
<1>7. ASSUME NEW l \in Listeners, ListenEnters(l) PROVE ListenersOpen' /\ Unread'
  BY <1>7 DEF ListenEnters, MayListen, LGoto
<1>8. ASSUME NEW l \in Listeners, CheckListening(l) PROVE ListenersOpen' /\ Unread'
  BY <1>8 DEF CheckListening, LGoto
<1>9. ASSUME NEW l \in Listeners, Select(l) PROVE ListenersOpen' /\ Unread'
  BY <1>9 DEF Select, LGoto
<1>10. ASSUME NEW l \in Listeners, ReadEvent(l) PROVE ListenersOpen' /\ Unread'
  BY <1>10 DEF ReadEvent, LGoto
<1>11. ASSUME NEW l \in Listeners, ListenReturns(l) PROVE ListenersOpen' /\ Unread'
  BY <1>11 DEF ListenReturns, LGoto
<1>12. CASE UNCHANGED vars
  BY <1>12 DEF vars
<1>. QED  BY <1>1, <1>2, <1>3, <1>4, <1>5, <1>6, <1>7, <1>8, <1>9, <1>10, <1>11, <1>12
          DEF Next, Loop

\* The flag of a mouse follows its grab through calls that fail for some, closing,
\* and other programs that grab.
LEMMA GrabStep ==
    ASSUME TypeOK, GrabsOpen, GrabsKnown, [Next]_vars
    PROVE  GrabsOpen' /\ GrabsKnown'
<1>. USE DEF TypeOK, GrabsOpen, GrabsKnown, flagVars, deviceVars, listenVars
<1>1. CASE Open
  BY <1>1 DEF Open
<1>2. CASE Close
  BY <1>2 DEF Close
<1>3. CASE Interrupt
  BY <1>3 DEF Interrupt
<1>4. ASSUME NEW g \in BOOLEAN, SetGrab(g) PROVE GrabsOpen' /\ GrabsKnown'
  BY <1>4 DEF SetGrab
<1>5. ASSUME NEW m \in Mice, OtherGrabs(m) PROVE GrabsOpen' /\ GrabsKnown'
  <2>1. \A n \in Mice : holder'[n] = "ours" <=> holder[n] = "ours"
    BY <1>5 DEF OtherGrabs
  <2>. QED  BY <1>5, <2>1 DEF OtherGrabs
<1>6. ASSUME NEW l \in Listeners, \/ ListenConsumes(l) \/ ListenEnters(l) \/ Loop(l)
      PROVE  GrabsOpen' /\ GrabsKnown'
  BY <1>6 DEF ListenConsumes, ListenEnters, Loop, CheckListening, Select, ReadEvent,
              ListenReturns
<1>7. CASE UNCHANGED vars
  BY <1>7 DEF vars
<1>. QED  BY <1>1, <1>2, <1>3, <1>4, <1>5, <1>6, <1>7 DEF Next

\* An interrupt that is left over is an early one: a thread in evmouse_listen takes
\* the other ones away when it returns, and the last to return takes them all.
LEMMA EarlyStep ==
    ASSUME TypeOK, ListenersOpen, Early, NothingLeftBehind, [Next]_vars
    PROVE  Early' /\ NothingLeftBehind'
<1>. USE DEF TypeOK, ListenersOpen, Early, NothingLeftBehind, LoopPcs, LGoto, flagVars,
             deviceVars, listenVars
<1>1. CASE Open
  BY <1>1 DEF Open
<1>2. CASE Close
  BY <1>2 DEF Close
<1>3. CASE Interrupt
  BY <1>3 DEF Interrupt
<1>4. ASSUME NEW g \in BOOLEAN, SetGrab(g) PROVE Early' /\ NothingLeftBehind'
  BY <1>4 DEF SetGrab
<1>5. ASSUME NEW m \in Mice, OtherGrabs(m) PROVE Early' /\ NothingLeftBehind'
  BY <1>5 DEF OtherGrabs
<1>6. ASSUME NEW l \in Listeners, ListenConsumes(l) PROVE Early' /\ NothingLeftBehind'
  BY <1>6 DEF ListenConsumes
<1>7. ASSUME NEW l \in Listeners, ListenEnters(l) PROVE Early' /\ NothingLeftBehind'
  BY <1>7 DEF ListenEnters, MayListen
<1>8. ASSUME NEW l \in Listeners, CheckListening(l) PROVE Early' /\ NothingLeftBehind'
  BY <1>8 DEF CheckListening
<1>9. ASSUME NEW l \in Listeners, Select(l) PROVE Early' /\ NothingLeftBehind'
  BY <1>9 DEF Select
<1>10. ASSUME NEW l \in Listeners, ReadEvent(l) PROVE Early' /\ NothingLeftBehind'
  BY <1>10 DEF ReadEvent
<1>11. ASSUME NEW l \in Listeners, ListenReturns(l) PROVE Early' /\ NothingLeftBehind'
  BY <1>11 DEF ListenReturns
<1>12. CASE UNCHANGED vars
  BY <1>12 DEF vars
<1>. QED  BY <1>1, <1>2, <1>3, <1>4, <1>5, <1>6, <1>7, <1>8, <1>9, <1>10, <1>11, <1>12
          DEF Next, Loop

\* Before evmouse_open_default nothing is open, grabbed or asked for.
LEMMA InitInv == Init => IInv
<1>. SUFFICES ASSUME Init PROVE IInv
  OBVIOUS
<1>1. 0 \in 0..MaxCalls
  BY CallsBound
<1>2. TypeOK /\ TodoType
  BY <1>1 DEF Init, TypeOK, TodoType, LoopPcs
<1>. QED  BY <1>2 DEF Init, IInv, ListenersOpen, Unread, GrabsOpen, GrabsKnown, Early,
                      NothingLeftBehind

\* The invariant is inductive.
LEMMA InvStep == IInv /\ [Next]_vars => IInv'
  BY TypeStep, ListenStep, GrabStep, EarlyStep DEF IInv

-----------------------------------------------------------------------------
(* The theorems, for any number of threads that listen                      *)

\* It holds in every state.
THEOREM Invariance == Spec => []IInv
  BY InitInv, InvStep, PTL DEF Spec

\* Every variable keeps its type, and a thread reads only open devices.
THEOREM TypeCorrect == Spec => []TypeOK
<1>1. IInv => TypeOK
  BY DEF IInv
<1>. QED  BY Invariance, <1>1, PTL

\* evmouse_close and evmouse_set_grab know what the kernel holds for them.
THEOREM GrabsKnownSafe == Spec => []GrabsKnown
<1>1. IInv => GrabsKnown
  BY DEF IInv
<1>. QED  BY Invariance, <1>1, PTL

\* No interrupt ends two listens, and none that nobody consumed is lost.
THEOREM NothingLeftBehindSafe == Spec => []NothingLeftBehind
<1>1. IInv => NothingLeftBehind
  BY DEF IInv
<1>. QED  BY Invariance, <1>1, PTL

\* The listen after an early interrupt does not enter its loop: `interrupted`
\* is still set, as nobody has listened who could have cleared it.
THEOREM EarlyInterruptHeardSafe == Spec => EarlyInterruptHeard
<1>1. IInv /\ [Next]_vars => [early => \A l \in Listeners : ~ListenEnters(l)]_vars
  BY DEF IInv, Early, ListenEnters
<1>. QED  BY Invariance, <1>1, PTL DEF Spec, EarlyInterruptHeard

-----------------------------------------------------------------------------
(* One thread that listens                                                  *)

\* The flag that the loop reads is then its own: interrupted, it goes no further
\* than the round that had begun, and has a mouse left to read for each call it
\* may still count.
RoundOf(l) ==
    /\ l \in asked => lpc[l] # "idle" /\ ~listening
    /\ listening => lpc[l] \in LoopPcs
    /\ l \notin asked /\ lpc[l] # "idle" => calls[l] = 0
    /\ l \in asked /\ lpc[l] = "select" => calls[l] = 0
    /\ calls[l] <= Cardinality(Mice)
    /\ l \in asked => calls[l] + Cardinality(todo[l]) <= Cardinality(Mice)
Round == \A l \in Listeners : RoundOf(l)

\* Of the mice that select reported there is one less to read, each time.
LEMMA Reported ==
    ASSUME NEW S \in SUBSET Mice
    PROVE  /\ IsFiniteSet(S) /\ Cardinality(S) \in Nat
           /\ Cardinality(S) <= Cardinality(Mice)
           /\ \A m \in S : Cardinality(S \ {m}) = Cardinality(S) - 1
           /\ Cardinality({}) = 0
<1>1. IsFiniteSet(S) /\ Cardinality(S) <= Cardinality(Mice)
  BY MiceAssumption, FS_Subset
<1>. QED  BY <1>1, FS_CardinalityType, FS_RemoveElement, FS_EmptySet

\* The one thread that listens takes a step of evmouse_listen, or somebody else a
\* step that does not touch it.
LEMMA RoundStep ==
    ASSUME \A k, l \in Listeners : k = l, IInv, Round, [Next]_vars
    PROVE  Round'
<1>. SUFFICES ASSUME NEW l \in Listeners PROVE RoundOf(l)'
  BY DEF Round
<1>0. /\ \A k \in Listeners : k = l
      /\ IsFiniteSet(todo[l]) /\ Cardinality(todo[l]) \in Nat
      /\ Cardinality(todo[l]) <= Cardinality(Mice)
      /\ Cardinality({}) = 0
      /\ todo[l] \in SUBSET Mice
      /\ RoundOf(l)
  BY Reported DEF IInv, TodoType, Round
<1>. USE CallsBound, <1>0 DEF IInv, TypeOK, TodoType, Unread, RoundOf, LoopPcs, LGoto,
             flagVars, deviceVars, listenVars
<1>1. CASE Open
  BY <1>1 DEF Open, ListenersOpen
<1>2. CASE Close
  BY <1>2 DEF Close
<1>3. CASE Interrupt
  BY <1>3 DEF Interrupt
<1>4. CASE \E g \in BOOLEAN : SetGrab(g)
  BY <1>4 DEF SetGrab
<1>5. CASE \E m \in Mice : OtherGrabs(m)
  BY <1>5 DEF OtherGrabs
<1>6. CASE ListenConsumes(l)
  BY <1>6 DEF ListenConsumes
<1>7. CASE ListenEnters(l)
  BY <1>7 DEF ListenEnters, MayListen
<1>8. CASE CheckListening(l)
  BY <1>8 DEF CheckListening
<1>9. CASE Select(l)
  BY <1>9, Reported DEF Select
<1>10. CASE ReadEvent(l)
  <2>1. PICK m \in todo[l], n \in {0, 1} :
          /\ todo' = [todo EXCEPT ![l] = @ \ {m}]
          /\ CountCall(l, n)
          /\ LGoto(l, IF todo[l] = {m} THEN "check" ELSE "read")
    BY <1>10 DEF ReadEvent
  <2>2. /\ Cardinality(todo'[l]) = Cardinality(todo[l]) - 1
        /\ Cardinality(todo'[l]) \in Nat /\ calls[l] \in Nat
    BY <2>1, Reported
  <2>3. lpc[l] = "read" /\ lpc'[l] \in {"check", "read"} /\ UNCHANGED <<listening, asked>>
    BY <1>10, <2>1 DEF ReadEvent
  <2>4. CASE l \in asked
    <3>1. calls'[l] \in {calls[l], calls[l] + 1}
      BY <2>1, <2>4 DEF CountCall
    <3>. QED  BY <2>2, <2>3, <2>4, <3>1
  <2>5. CASE l \notin asked
    <3>1. calls'[l] = calls[l]
      BY <2>1, <2>5 DEF CountCall
    <3>. QED  BY <2>3, <2>5, <3>1
  <2>. QED  BY <2>4, <2>5
<1>11. CASE ListenReturns(l)
  BY <1>11 DEF ListenReturns
<1>12. CASE UNCHANGED vars
  BY <1>12 DEF vars
<1>. QED  BY <1>1, <1>2, <1>3, <1>4, <1>5, <1>6, <1>7, <1>8, <1>9, <1>10, <1>11, <1>12
          DEF Next, Loop

\* With one thread that listens, an interrupted loop calls its listener at most
\* once more for each mouse.
THEOREM AtMostARoundSafe ==
    ASSUME \A k, l \in Listeners : k = l
    PROVE  Spec => []AtMostARound
<1>1. Init => Round
  BY CallsBound, Reported DEF Init, Round, RoundOf, LoopPcs
<1>2. IInv /\ Round /\ [Next]_vars => Round'
  BY RoundStep
<1>3. Round => AtMostARound
  BY DEF Round, RoundOf, AtMostARound
<1>. QED  BY Invariance, <1>1, <1>2, <1>3, PTL DEF Spec

=============================================================================
