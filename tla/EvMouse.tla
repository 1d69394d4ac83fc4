------------------------------- MODULE EvMouse -------------------------------
(***************************************************************************)
(* device/evmouse/evmouse.c: threads read mouse events in evmouse_listen   *)
(* until another thread, or the listener callback, calls                   *)
(* evmouse_interrupt. Two flags carry the request: `listening` ends a loop *)
(* that runs, `interrupted` is left for a listen that has not begun.       *)
(*                                                                         *)
(* A step is one critical section of mouse->lock, one select or one read.  *)
(* evmouse_close is called when no other call is in progress.              *)
(***************************************************************************)
EXTENDS Naturals, FiniteSets

CONSTANTS Listeners,  \* threads that call evmouse_listen
          Mice        \* the mice under /dev/input, at most EVMOUSE_MAX_FDS

ASSUME MiceAssumption == IsFiniteSet(Mice)

VARIABLES
    fds,          \* mouse->fds: the open mice; none before open, after close
    grab,         \* mouse->fds[i].grab
    holder,       \* external: who has the exclusive grab of a mouse
    listening,    \* mouse->listening
    interrupted,  \* mouse->interrupted
    lpc,          \* where a thread is in evmouse_listen
    todo,         \* the descriptors select reported, not yet read
    calls,        \* history: listener calls since the interrupt, up to MaxCalls
    asked,        \* history: threads in their loop when an interrupt came
    early         \* history: an interrupt came when nobody listened, and no
                  \* listen has begun since

flagVars   == <<listening, interrupted>>
deviceVars == <<fds, grab, holder>>
listenVars == <<lpc, todo, calls>>
vars == <<flagVars, deviceVars, listenVars, asked, early>>

LoopPcs == {"check", "select", "read"}
MaxCalls == Cardinality(Mice) + 1   \* bound of the history calls

Init == /\ fds = {}
        /\ grab = [m \in Mice |-> FALSE]
        /\ holder \in [Mice -> {"nobody", "other"}]
        /\ listening = FALSE /\ interrupted = FALSE
        /\ lpc = [l \in Listeners |-> "idle"]
        /\ todo = [l \in Listeners |-> {}]
        /\ calls = [l \in Listeners |-> 0]
        /\ asked = {} /\ early = FALSE

-----------------------------------------------------------------------------
(* The devices                                                              *)

\* mouse_fds_find: the devices that have a mouse's keys and axes and could be opened
SomeMice == SUBSET Mice \ {{}}

\* evmouse_open_default: zeroed state, the mice found, ungrabbed (as
\* mouse_filter_any says); without any it returns NULL
Open == /\ fds = {}
        /\ fds' \in SomeMice
        /\ grab' = [m \in Mice |-> FALSE]
        /\ listening' = FALSE /\ interrupted' = FALSE
        /\ early' = FALSE
        /\ UNCHANGED <<holder, listenVars, asked>>

\* evmouse_close: closing a descriptor gives up its grab
\* mutant: the grabs are left to whoever opens the devices next
CloseKeepsGrabs == /\ fds # {} /\ \A l \in Listeners : lpc[l] = "idle"
                   /\ fds' = {}
                   /\ grab' = [m \in Mice |-> FALSE]
                   /\ UNCHANGED <<holder, flagVars, listenVars, asked, early>>
Close == /\ fds # {} /\ \A l \in Listeners : lpc[l] = "idle"
         /\ fds' = {}
         /\ grab' = [m \in Mice |-> FALSE]
         /\ holder' = [m \in Mice |-> IF holder[m] = "ours" THEN "nobody" ELSE holder[m]]
         /\ UNCHANGED <<flagVars, listenVars, asked, early>>

\* evmouse_set_grab, all of it under the lock: the ioctl may fail, and does when
\* somebody else has the grab; the flag follows only what succeeded
SetGrab(g) ==
    /\ fds # {}
    /\ \E ok \in SUBSET {m \in fds : grab[m] # g /\ holder[m] # "other"} :
         /\ holder' = [m \in Mice |-> IF m \notin ok THEN holder[m]
                                      ELSE IF g THEN "ours" ELSE "nobody"]
         /\ grab' = [m \in Mice |-> IF m \in ok THEN g ELSE grab[m]]
    /\ UNCHANGED <<fds, flagVars, listenVars, asked, early>>

\* another program grabs a mouse, or lets it go
OtherGrabs(m) == /\ \/ holder[m] = "nobody" /\ holder' = [holder EXCEPT ![m] = "other"]
                    \/ holder[m] = "other" /\ holder' = [holder EXCEPT ![m] = "nobody"]
                 /\ UNCHANGED <<fds, grab, flagVars, listenVars, asked, early>>

-----------------------------------------------------------------------------
(* evmouse_listen                                                           *)

\* the call returns at once, and is no step here, when somebody listens already
MayListen(l) == lpc[l] = "idle" /\ fds # {} /\ ~listening

LGoto(l, pc) == lpc' = [lpc EXCEPT ![l] = pc]

\* an interrupt came first: consume it and return
ListenConsumes(l) == /\ MayListen(l) /\ interrupted
                     /\ interrupted' = FALSE
                     /\ early' = FALSE
                     /\ UNCHANGED <<listening, deviceVars, listenVars, asked>>

ListenEnters(l) == /\ MayListen(l) /\ ~interrupted
                   /\ listening' = TRUE
                   /\ early' = FALSE
                   /\ calls' = [calls EXCEPT ![l] = 0]
                   /\ LGoto(l, "check")
                   /\ UNCHANGED <<interrupted, deviceVars, todo, asked>>

\* evmouse_is_interrupted, which returns `listening`: the loop goes on or ends
CheckListening(l) == /\ lpc[l] = "check"
                     /\ LGoto(l, IF listening THEN "select" ELSE "out")
                     /\ UNCHANGED <<flagVars, deviceVars, todo, calls, asked, early>>

\* select: nothing within a millisecond, or an error, or some to read
\* mutant: every mouse is watched, open or not
SelectAll(l) == /\ lpc[l] = "select"
                /\ \E ready \in SUBSET Mice :
                     /\ todo' = [todo EXCEPT ![l] = ready]
                     /\ LGoto(l, IF ready = {} THEN "check" ELSE "read")
                /\ UNCHANGED <<flagVars, deviceVars, calls, asked, early>>
Select(l) == /\ lpc[l] = "select"
             /\ \E ready \in SUBSET fds :
                  /\ todo' = [todo EXCEPT ![l] = ready]
                  /\ LGoto(l, IF ready = {} THEN "check" ELSE "read")
             /\ UNCHANGED <<flagVars, deviceVars, calls, asked, early>>

\* one more listener call, counted once an interrupt has come
CountCall(l, n) == calls' = [calls EXCEPT ![l] = IF l \in asked /\ @ < MaxCalls THEN @ + n ELSE @]

\* one read and dispatch: the listener is called, or the read failed or the
\* event is of no interest
\* mutant: the next round begins without another look at the flag
ReadOnAndOn(l) == /\ lpc[l] = "read"
                  /\ \E m \in todo[l], n \in {0, 1} :
                       /\ todo' = [todo EXCEPT ![l] = @ \ {m}]
                       /\ CountCall(l, n)
                       /\ LGoto(l, IF todo[l] = {m} THEN "select" ELSE "read")
                  /\ UNCHANGED <<flagVars, deviceVars, asked, early>>
ReadEvent(l) == /\ lpc[l] = "read"
                /\ \E m \in todo[l], n \in {0, 1} :
                     /\ todo' = [todo EXCEPT ![l] = @ \ {m}]
                     /\ CountCall(l, n)
                     /\ LGoto(l, IF todo[l] = {m} THEN "check" ELSE "read")
                /\ UNCHANGED <<flagVars, deviceVars, asked, early>>

\* after the loop: the interrupt that ended it is consumed
\* mutant: it is left for the next listen
ListenLeavesIt(l) == /\ lpc[l] = "out"
                     /\ asked' = asked \ {l}
                     /\ LGoto(l, "idle")
                     /\ UNCHANGED <<flagVars, deviceVars, todo, calls, early>>
ListenReturns(l) == /\ lpc[l] = "out"
                    /\ interrupted' = FALSE
                    /\ asked' = asked \ {l}
                    /\ LGoto(l, "idle")
                    /\ UNCHANGED <<listening, deviceVars, todo, calls, early>>

\* evmouse_interrupt, by any thread or by the listener
\* mutant: only the loop that runs is told (evmouse_tests.c:30-32)
InterruptLoopOnly == /\ fds # {}
                     /\ listening' = FALSE
                     /\ asked' = asked \cup {l \in Listeners : lpc[l] \in LoopPcs}
                     /\ early' = (early \/ \A l \in Listeners : lpc[l] = "idle")
                     /\ UNCHANGED <<interrupted, deviceVars, listenVars>>
\* mutant: only a listen that has not begun is told
InterruptNextOnly == /\ fds # {}
                     /\ interrupted' = TRUE
                     /\ asked' = asked \cup {l \in Listeners : lpc[l] \in LoopPcs}
                     /\ early' = (early \/ \A l \in Listeners : lpc[l] = "idle")
                     /\ UNCHANGED <<listening, deviceVars, listenVars>>
Interrupt == /\ fds # {}
             /\ interrupted' = TRUE
             /\ listening' = FALSE
             /\ asked' = asked \cup {l \in Listeners : lpc[l] \in LoopPcs}
             /\ early' = (early \/ \A l \in Listeners : lpc[l] = "idle")
             /\ UNCHANGED <<deviceVars, listenVars>>

Loop(l) == \/ CheckListening(l) \/ Select(l) \/ ReadEvent(l) \/ ListenReturns(l)

Next == \/ Open \/ Close \/ Interrupt
        \/ \E g \in BOOLEAN : SetGrab(g)
        \/ \E m \in Mice : OtherGrabs(m)
        \/ \E l \in Listeners : ListenConsumes(l) \/ ListenEnters(l) \/ Loop(l)

Spec == Init /\ [][Next]_vars

\* A thread in evmouse_listen is scheduled, select returns within a millisecond
\* and the listener returns. Nothing makes anybody interrupt.
FairSpec == Spec /\ \A l \in Listeners : WF_vars(Loop(l))

-----------------------------------------------------------------------------
(* Properties                                                               *)

TypeOK == /\ fds \subseteq Mice
          /\ grab \in [Mice -> BOOLEAN]
          /\ holder \in [Mice -> {"nobody", "ours", "other"}]
          /\ listening \in BOOLEAN /\ interrupted \in BOOLEAN
          /\ lpc \in [Listeners -> {"idle", "out"} \cup LoopPcs]
          /\ \A l \in Listeners : todo[l] \in SUBSET fds
          /\ calls \in [Listeners -> 0..MaxCalls]
          /\ asked \subseteq Listeners
          /\ early \in BOOLEAN

\* The grab flags say what the kernel holds for us, whatever failed on the way,
\* so evmouse_close and the next evmouse_set_grab undo exactly that.
GrabsKnown == \A m \in Mice : grab[m] <=> holder[m] = "ours"

\* Once a listen in its loop is interrupted its listener hears at most the round
\* that had begun: one call per mouse.
AtMostARound == \A l \in Listeners : calls[l] <= Cardinality(Mice)

\* An interrupt that comes when nobody listens is not lost: the next listen
\* returns without entering its loop (comment at evmouse.c:28-33).
EarlyInterruptHeard == [][early => \A l \in Listeners : ~ListenEnters(l)]_vars

\* An interrupt is consumed by one listen: what ended a loop, or came before it
\* returned, does not end the next listen too; what nobody consumed does
\* (evmouse_tests.c:59-62).
NothingLeftBehind ==
    (\A l \in Listeners : lpc[l] = "idle") => (interrupted <=> early)

\* A listen interrupted in its loop returns (evmouse_tests.c:43-45). It does if one
\* thread alone listens; with two, the other may consume the interrupt, listen
\* again and set the flag that the first one's loop reads.
InterruptEndsListen == \A l \in Listeners : l \in asked ~> lpc[l] = "idle"

=============================================================================
