-------------------------- MODULE GamepadTouchpad ---------------------------
(***************************************************************************)
(* device/gamepad-touchpad/gamepad_touchpad.c: exclusive access to the     *)
(* input devices of a game controller that SDL does not read itself. They  *)
(* are found in sysfs and opened later by the name of their event node,    *)
(* while devices come and go. A path is the sequence of directories below  *)
(* /sys/devices.                                                           *)
(***************************************************************************)
EXTENDS Integers, Sequences, FiniteSets, SequencesExt

CONSTANTS
    Pads,        \* controllers the program has opened
    PadPath,     \* where the node SDL has opened for each of them lies
    Inputs,      \* input devices there may be
    InputPath,   \* where each lies, <<..., "input", its own directory>>
    WithJs,      \* those with a js* node
    WithAccel,   \* those with INPUT_PROP_ACCELEROMETER
    HidNames,    \* directory names of the form BUS:VENDOR:PRODUCT.INSTANCE
    Numbers,     \* event<n>
    NoNumber,
    AtStart,     \* the event node of each device at the start
    MaxGrabbed,  \* MAX_GRABBED
    MaxPlugs     \* bound: devices plugged in

NoPad == "nobody"

ASSUME PadsAssumption == NoPad \notin Pads
ASSUME InputsAssumption == IsFiniteSet(Inputs) /\ MaxGrabbed \in Nat
ASSUME PathsAssumption == /\ \A p \in Pads : PadPath[p] \in Seq(STRING)
                          /\ \A i \in Inputs : InputPath[i] \in Seq(STRING)
\* no two devices have one node
ASSUME NumbersAssumption ==
    /\ NoNumber \notin Numbers
    /\ AtStart \in [Inputs -> Numbers \cup {NoNumber}]
    /\ \A i, j \in Inputs : AtStart[i] = AtStart[j] /\ AtStart[i] # NoNumber => i = j

VARIABLES
    number,   \* the event node of an input device, NoNumber when it is not there
    jsMade,   \* the devices whose js* node has been made
    grabber,  \* the pad whose descriptor has the device grabbed, or NoPad
    gpc,      \* where a pad's gamepad_touchpad_grab is: idle, opening, held
    names,    \* its local variable names, those still to open
    fds,      \* the devices whose descriptors it has
    seen,     \* history: the devices found at the names
    fresh,    \* history: those plugged in since
    plugs     \* counts devices plugged in, up to MaxPlugs

padVars == <<number, jsMade, grabber, gpc, names, fds, seen, fresh, plugs>>

PadInit == /\ number = AtStart
           /\ jsMade = {i \in WithJs : number[i] # NoNumber}
           /\ grabber = [i \in Inputs |-> NoPad]
           /\ gpc = [p \in Pads |-> "idle"]
           /\ names = [p \in Pads |-> {}]
           /\ fds = [p \in Pads |-> {}]
           /\ seen = [p \in Pads |-> {}]
           /\ fresh = [p \in Pads |-> {}]
           /\ plugs = 0

-----------------------------------------------------------------------------
\* hid_parent_for_devnum: the lowest directory with the name of a HID device,
\* <<>> when there is none below /sys/devices
\* mutant: the lowest that has input devices
HidParentAny(path) == LET found == {k \in DOMAIN path : \E i \in Inputs :
                                       IsPrefix(Append(SubSeq(path, 1, k), "input"), InputPath[i])}
                      IN  IF found = {} THEN <<>> ELSE SubSeq(path, 1, Max(found))
HidParent(path) == LET found == {k \in DOMAIN path : path[k] \in HidNames}
                   IN  IF found = {} THEN <<>> ELSE SubSeq(path, 1, Max(found))

\* input_child_reserved_by_sdl
Reserved(i) == i \in jsMade \/ i \in WithAccel

\* collect_grabbable_nodes: the event nodes of the input devices of a HID device,
\* the first MaxGrabbed of them in the order of readdir
Grabbable(dir) == {i \in Inputs : /\ number[i] # NoNumber
                                  /\ Front(InputPath[i]) = Append(dir, "input")
                                  /\ ~Reserved(i)}

FirstOf(S) == {T \in SUBSET S : Cardinality(T) = Min({Cardinality(S), MaxGrabbed})}

-----------------------------------------------------------------------------
\* gamepad_touchpad_grab: no path, no HID device or no node to grab, and it
\* returns null; or the names of the nodes are known
Collect(p) == /\ gpc[p] = "idle" /\ HidParent(PadPath[p]) # <<>>
              /\ \E found \in FirstOf(Grabbable(HidParent(PadPath[p]))) \ {{}} :
                    /\ seen' = [seen EXCEPT ![p] = found]
                    /\ names' = [names EXCEPT ![p] = {number[i] : i \in found}]
              /\ fresh' = [fresh EXCEPT ![p] = {}]
              /\ gpc' = [gpc EXCEPT ![p] = "opening"]
              /\ UNCHANGED <<number, jsMade, grabber, fds, plugs>>

\* one name: open and EVIOCGRAB of the device that has the node now; a device
\* that cannot be opened, or that somebody has grabbed, is passed over
OpenName(p, n) ==
    /\ gpc[p] = "opening" /\ n \in names[p]
    /\ names' = [names EXCEPT ![p] = @ \ {n}]
    /\ \/ \E i \in Inputs :
              /\ number[i] = n /\ grabber[i] = NoPad
              /\ grabber' = [grabber EXCEPT ![i] = p]
              /\ fds' = [fds EXCEPT ![p] = @ \cup {i}]
       \/ UNCHANGED <<grabber, fds>>
    /\ UNCHANGED <<number, jsMade, gpc, seen, fresh, plugs>>

\* null again if nothing was grabbed
Opened(p) == /\ gpc[p] = "opening" /\ names[p] = {}
             /\ gpc' = [gpc EXCEPT ![p] = IF fds[p] = {} THEN "idle" ELSE "held"]
             /\ UNCHANGED <<number, jsMade, grabber, names, fds, seen, fresh, plugs>>

\* gamepad_touchpad_release
Release(p) == /\ gpc[p] = "held"
              /\ gpc' = [gpc EXCEPT ![p] = "idle"]
              /\ grabber' = [i \in Inputs |-> IF grabber[i] = p THEN NoPad ELSE grabber[i]]
              /\ fds' = [fds EXCEPT ![p] = {}]
              /\ UNCHANGED <<number, jsMade, names, seen, fresh, plugs>>

\* the kernel: the devices of one bus address go together, and their grabs with
\* them; a device comes with its event node first and its js* node later
Unplug(dir) == LET gone == {i \in Inputs : InputPath[i][1] = dir}
               IN  /\ \E i \in gone : number[i] # NoNumber
                   /\ number' = [i \in Inputs |-> IF i \in gone THEN NoNumber ELSE number[i]]
                   /\ grabber' = [i \in Inputs |-> IF i \in gone THEN NoPad ELSE grabber[i]]
                   /\ jsMade' = jsMade \ gone
                   /\ UNCHANGED <<gpc, names, fds, seen, fresh, plugs>>

Plug(i, n) == /\ plugs < MaxPlugs /\ number[i] = NoNumber
              /\ \A j \in Inputs : number[j] # n
              /\ number' = [number EXCEPT ![i] = n]
              /\ fresh' = [p \in Pads |-> fresh[p] \cup {i}]
              /\ plugs' = plugs + 1
              /\ UNCHANGED <<jsMade, grabber, gpc, names, fds, seen>>

MakeJs(i) == /\ i \in WithJs \ jsMade /\ number[i] # NoNumber
             /\ jsMade' = jsMade \cup {i}
             /\ UNCHANGED <<number, grabber, gpc, names, fds, seen, fresh, plugs>>

PadNext == \/ \E p \in Pads : \/ Collect(p) \/ Opened(p) \/ Release(p)
                              \/ \E n \in Numbers : OpenName(p, n)
           \/ \E dir \in {InputPath[i][1] : i \in Inputs} : Unplug(dir)
           \/ \E i \in Inputs : MakeJs(i) \/ \E n \in Numbers : Plug(i, n)

PadSpec == PadInit /\ [][PadNext]_padVars

-----------------------------------------------------------------------------
\* both lie below one directory of a HID device
OwnDevice(p, i) == \E k \in DOMAIN PadPath[p] :
    /\ PadPath[p][k] \in HidNames /\ k < Len(InputPath[i])
    /\ \A j \in 1..k : InputPath[i][j] = PadPath[p][j]

\* What a pad has grabbed belongs to its own HID device and is not read by SDL,
\* so that never the remote of the television, the joystick or the motion
\* sensor (lines 126 and 187); after the release, or without a handle, nothing
\* is. The exceptions are two races: a device plugged in since the names were
\* read, which may have got one of the numbers, and a joystick whose js* node
\* was not yet made when its directory was read.
GrabsOwn ==
    \A i \in Inputs, p \in Pads :
        /\ i \in fds[p] /\ i \notin fresh[p] =>
              /\ OwnDevice(p, i)
              /\ i \notin WithAccel
              /\ plugs = 0 => i \notin WithJs
        /\ i \in fds[p] => i \in seen[p] \cup fresh[p]
        /\ grabber[i] = p => i \in fds[p] /\ gpc[p] # "idle"
        /\ Cardinality(seen[p]) <= MaxGrabbed

=============================================================================
