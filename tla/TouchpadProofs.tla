--------------------------- MODULE TouchpadProofs ---------------------------
(***************************************************************************)
(* The safety of GamepadTouchpad for any pads, devices, paths and names,   *)
(* however devices come and go while their nodes are opened by name.       *)
(***************************************************************************)
EXTENDS GamepadTouchpad, FiniteSetTheorems, WellFoundedInduction, SequenceTheorems, TLAPS

-----------------------------------------------------------------------------
(* The invariant                                                            *)

PadTyped == /\ number \in [Inputs -> Numbers \cup {NoNumber}]
            /\ grabber \in [Inputs -> Pads \cup {NoPad}]
            /\ gpc \in [Pads -> {"idle", "opening", "held"}]
            /\ names \in [Pads -> SUBSET Numbers]
            /\ fds \in [Pads -> SUBSET Inputs]
            /\ seen \in [Pads -> SUBSET Inputs]
            /\ fresh \in [Pads -> SUBSET Inputs]
            /\ plugs \in Nat

\* a node is one device's, and before a device is plugged in every js* node there
\* is to be is made
Nodes == /\ \A i, j \in Inputs : number[i] = number[j] /\ number[i] # NoNumber => i = j
         /\ plugs = 0 => \A i \in WithJs \cap Inputs : number[i] # NoNumber => i \in jsMade

\* what was found when the directory was read
SeenOwn == \A p \in Pads :
    /\ \A i \in seen[p] : /\ OwnDevice(p, i) /\ i \notin WithAccel
                          /\ plugs = 0 => i \notin WithJs
    /\ Cardinality(seen[p]) <= MaxGrabbed

\* a name still to open is that of a device found, or of one that came since
NamesKnown == \A p \in Pads : \A i \in Inputs :
    number[i] \in names[p] => i \in seen[p] \cup fresh[p]

Held == \A p \in Pads :
    /\ fds[p] \subseteq seen[p] \cup fresh[p]
    /\ gpc[p] = "idle" => fds[p] = {}
    /\ \A i \in Inputs : grabber[i] = p => i \in fds[p]

PadInv == PadTyped /\ Nodes /\ SeenOwn /\ NamesKnown /\ Held

-----------------------------------------------------------------------------
(* The walk of sysfs                                                        *)

\* of numbers up to a bound there is a greatest
LEMMA GreatestOf ==
  ASSUME NEW n \in Nat, NEW I \in SUBSET (1..n), I # {}
  PROVE  Max(I) \in I
<1> DEFINE Down == {k \in Nat : n - k \in I}
<1>1. Down \in SUBSET Nat /\ Down # {}
  <2>1. PICK k \in I : TRUE
        OBVIOUS
  <2>2. n - k \in Nat /\ n - (n - k) = k
        OBVIOUS
  <2> QED BY <2>1, <2>2
<1>2. PICK m \in Down : \A k \in Down : <<k, m>> \notin OpToRel(<, Nat)
      BY <1>1, NatLessThanWellFounded, WFMin
<1>3. \A k \in Down : ~(k < m)
      BY <1>2 DEF OpToRel
<1>4. \A k \in I : n - m >= k
  <2> SUFFICES ASSUME NEW k \in I PROVE n - m >= k
      OBVIOUS
  <2>1. k \in 1..n /\ n - k \in Nat /\ n - (n - k) = k
        OBVIOUS
  <2>2. n - k \in Down
        BY <2>1
  <2>3. m \in Nat /\ ~(n - k < m)
        BY <1>3, <2>2
  <2> QED BY <2>1, <2>3
<1>5. n - m \in I
      OBVIOUS
<1> QED BY <1>4, <1>5 DEF Max

\* An input device in the directory "input" of the one found belongs to the pad.
LEMMA BelowIsOwn ==
  ASSUME NEW p \in Pads, NEW i \in Inputs, HidParent(PadPath[p]) # <<>>,
         Front(InputPath[i]) = Append(HidParent(PadPath[p]), "input")
  PROVE  OwnDevice(p, i)
<1> DEFINE path == PadPath[p]
           input == InputPath[i]
           found == {k \in DOMAIN path : path[k] \in HidNames}
           k == Max(found)
<1>1. path \in Seq(STRING) /\ input \in Seq(STRING) /\ Len(path) \in Nat /\ Len(input) \in Nat
      BY PathsAssumption
<1>2. found # {} /\ HidParent(path) = SubSeq(path, 1, k)
      BY DEF HidParent
<1>3. k \in 1..Len(path) /\ path[k] \in HidNames
  <2>1. found \in SUBSET (1..Len(path))
        BY <1>1
  <2>2. k \in found
    <3> HIDE DEF found
    <3> QED BY <1>1, <1>2, <2>1, GreatestOf
  <2> QED BY <2>1, <2>2
<1> HIDE DEF found, k
<1>4. /\ SubSeq(path, 1, k) \in Seq(STRING) /\ Len(SubSeq(path, 1, k)) = k
      /\ \A j \in 1..k : SubSeq(path, 1, k)[j] = path[j]
      BY <1>1, <1>3, SubSeqProperties
<1> DEFINE dir == Append(SubSeq(path, 1, k), "input")
<1>5. Len(dir) = k + 1 /\ \A j \in 1..k : dir[j] = path[j]
      BY <1>3, <1>4
<1>6. Front(input) = SubSeq(input, 1, Len(input) - 1) /\ Front(input) = dir
      BY <1>2 DEF Front
<1>7. Len(input) - 1 >= 1
  <2> SUFFICES ASSUME Len(input) - 1 < 1 PROVE FALSE
      BY <1>1
  <2>1. Len(SubSeq(input, 1, Len(input) - 1)) = 0
        BY <1>1, SubSeqProperties
  <2> QED BY <1>3, <1>5, <1>6, <2>1
<1>8. /\ Len(Front(input)) = Len(input) - 1
      /\ \A j \in 1..Len(input) - 1 : Front(input)[j] = input[j]
  <2> HIDE DEF input
  <2>1. 1 \in 1..Len(input) + 1 /\ Len(input) - 1 \in 1..Len(input)
        BY <1>1, <1>7
  <2>2. /\ Len(SubSeq(input, 1, Len(input) - 1)) = Len(input) - 1
        /\ \A j \in 1..Len(input) - 1 : SubSeq(input, 1, Len(input) - 1)[j] = input[j]
        BY <1>1, <2>1, SubSeqProperties
  <2> QED BY <1>6, <2>2
<1>9. k < Len(input) /\ \A j \in 1..k : input[j] = path[j]
  <2>1. Len(input) - 1 = k + 1
        BY <1>5, <1>6, <1>8
  <2>2. \A j \in 1..k : j \in 1..Len(input) - 1
        BY <1>3, <2>1
  <2>3. k < Len(input)
        BY <1>1, <1>3, <2>1
  <2>4. ASSUME NEW j \in 1..k PROVE input[j] = path[j]
    <3>1. Front(input)[j] = input[j]
          BY <1>8, <2>2
    <3>2. dir[j] = path[j]
          BY <1>5
    <3> HIDE DEF dir, input, path
    <3> QED BY <1>6, <3>1, <3>2
  <2> QED BY <2>3, <2>4
<1>10. k \in DOMAIN path
       BY <1>1, <1>3
<1> QED BY <1>3, <1>9, <1>10 DEF OwnDevice

\* What is taken of the devices found are some of them, MaxGrabbed at most.
LEMMA TakenAre ==
  ASSUME NEW S \in SUBSET Inputs, NEW T \in FirstOf(S)
  PROVE  T \subseteq S /\ Cardinality(T) <= MaxGrabbed
<1>1. Cardinality(S) \in Nat /\ MaxGrabbed \in Nat
      BY InputsAssumption, FS_Subset, FS_CardinalityType
<1> DEFINE two == {Cardinality(S), MaxGrabbed}
<1>2. \E x \in two : \A y \in two : x <= y
      BY <1>1
<1>3. \A y \in two : Min(two) <= y
      BY <1>2 DEF Min
<1> QED BY <1>3 DEF FirstOf

-----------------------------------------------------------------------------
(* The steps                                                                *)

LEMMA PadInitHolds == PadInit => PadInv
<1> SUFFICES ASSUME PadInit PROVE PadInv
    OBVIOUS
<1> USE DEF PadInit
<1>1. PadTyped
      BY NumbersAssumption DEF PadTyped
<1>2. Nodes
      BY NumbersAssumption DEF Nodes
<1>3. SeenOwn
      BY InputsAssumption, FS_EmptySet DEF SeenOwn
<1>4. NamesKnown /\ Held
      BY PadsAssumption DEF NamesKnown, Held
<1> QED BY <1>1, <1>2, <1>3, <1>4 DEF PadInv

\* the names are read in one state of the directory, so each is of a device found
LEMMA CollectKeeps == ASSUME PadInv, NEW p \in Pads, Collect(p) PROVE PadInv'
<1> DEFINE dir == HidParent(PadPath[p])
<1>1. PICK found \in FirstOf(Grabbable(dir)) \ {{}} :
         /\ seen' = [seen EXCEPT ![p] = found]
         /\ names' = [names EXCEPT ![p] = {number[i] : i \in found}]
      BY DEF Collect
<1>2. /\ gpc[p] = "idle" /\ dir # <<>>
      /\ fresh' = [fresh EXCEPT ![p] = {}] /\ gpc' = [gpc EXCEPT ![p] = "opening"]
      /\ UNCHANGED <<number, jsMade, grabber, fds, plugs>>
      BY DEF Collect
<1>3. found \subseteq Grabbable(dir) /\ Cardinality(found) <= MaxGrabbed
  <2>1. Grabbable(dir) \in SUBSET Inputs
        BY DEF Grabbable
  <2> HIDE DEF dir
  <2> QED BY <2>1, TakenAre
<1>4. \A i \in found : /\ i \in Inputs /\ number[i] # NoNumber
                       /\ Front(InputPath[i]) = Append(dir, "input")
                       /\ i \notin jsMade /\ i \notin WithAccel
      BY <1>3 DEF Grabbable, Reserved
<1>5. \A i \in found : OwnDevice(p, i)
      BY <1>2, <1>4, BelowIsOwn
<1> HIDE DEF dir
<1>6. PadTyped'
      BY <1>1, <1>2, <1>4 DEF PadInv, PadTyped
<1>7. Nodes'
      BY <1>2 DEF PadInv, Nodes
<1>8. SeenOwn'
  <2> SUFFICES ASSUME NEW q \in Pads
               PROVE  /\ \A i \in seen'[q] : /\ OwnDevice(q, i) /\ i \notin WithAccel
                                             /\ plugs = 0 => i \notin WithJs
                      /\ Cardinality(seen'[q]) <= MaxGrabbed
      BY <1>2 DEF SeenOwn
  <2>1. CASE q = p
    <3>1. seen'[q] = found
          BY <1>1, <2>1 DEF PadInv, PadTyped
    <3>2. \A i \in found : plugs = 0 => i \notin WithJs
          BY <1>4 DEF PadInv, Nodes
    <3> QED BY <1>3, <1>4, <1>5, <2>1, <3>1, <3>2
  <2>2. CASE q # p
    <3>1. seen'[q] = seen[q]
          BY <1>1, <2>2 DEF PadInv, PadTyped
    <3> QED BY <3>1 DEF PadInv, SeenOwn
  <2> QED BY <2>1, <2>2
<1>9. NamesKnown'
  <2> SUFFICES ASSUME NEW q \in Pads, NEW i \in Inputs, number[i] \in names'[q]
               PROVE  i \in seen'[q] \cup fresh'[q]
      BY <1>2 DEF NamesKnown
  <2>1. CASE q = p
    <3>1. PICK j \in found : number[i] = number[j]
          BY <1>1, <2>1 DEF PadInv, PadTyped
    <3>2. i = j
          BY <1>4, <3>1 DEF PadInv, Nodes
    <3> QED BY <1>1, <2>1, <3>1, <3>2 DEF PadInv, PadTyped
  <2>2. CASE q # p
        BY <1>1, <1>2, <2>2 DEF PadInv, PadTyped, NamesKnown
  <2> QED BY <2>1, <2>2
<1>10. Held'
       BY <1>1, <1>2 DEF PadInv, PadTyped, Held
<1> QED BY <1>6, <1>7, <1>8, <1>9, <1>10 DEF PadInv

\* the device that is opened has one of the names
LEMMA OpenKeeps ==
  ASSUME PadInv, NEW p \in Pads, NEW n \in Numbers, OpenName(p, n) PROVE PadInv'
<1>1. /\ gpc[p] = "opening" /\ n \in names[p] /\ names' = [names EXCEPT ![p] = @ \ {n}]
      /\ UNCHANGED <<number, jsMade, gpc, seen, fresh, plugs>>
      BY DEF OpenName
<1>2. Nodes' /\ SeenOwn' /\ NamesKnown'
      BY <1>1 DEF PadInv, PadTyped, Nodes, SeenOwn, NamesKnown
<1>3. PadTyped' /\ Held'
  <2>1. CASE UNCHANGED <<grabber, fds>>
        BY <1>1, <2>1 DEF PadInv, PadTyped, Held
  <2>2. ASSUME NEW i \in Inputs, number[i] = n, grabber' = [grabber EXCEPT ![i] = p],
               fds' = [fds EXCEPT ![p] = @ \cup {i}]
        PROVE  PadTyped' /\ Held'
    <3>1. i \in seen[p] \cup fresh[p]
          BY <1>1, <2>2 DEF PadInv, NamesKnown
    <3> QED BY <1>1, <2>2, <3>1 DEF PadInv, PadTyped, Held
  <2> QED BY <2>1, <2>2 DEF OpenName
<1> QED BY <1>2, <1>3 DEF PadInv

LEMMA OpenedKeeps == ASSUME PadInv, NEW p \in Pads, Opened(p) PROVE PadInv'
BY DEF Opened, PadInv, PadTyped, Nodes, SeenOwn, NamesKnown, Held

LEMMA ReleaseKeeps == ASSUME PadInv, NEW p \in Pads, Release(p) PROVE PadInv'
BY PadsAssumption DEF Release, PadInv, PadTyped, Nodes, SeenOwn, NamesKnown, Held

\* a device that goes gives its name to no other
LEMMA UnplugKeeps == ASSUME PadInv, NEW dir, Unplug(dir) PROVE PadInv'
<1>1. PadTyped'
      BY DEF Unplug, PadInv, PadTyped
<1>2. Nodes' /\ SeenOwn'
      BY DEF Unplug, PadInv, PadTyped, Nodes, SeenOwn
<1>3. NamesKnown'
      BY NumbersAssumption DEF Unplug, PadInv, PadTyped, NamesKnown
<1>4. Held'
      BY PadsAssumption DEF Unplug, PadInv, PadTyped, Held
<1> QED BY <1>1, <1>2, <1>3, <1>4 DEF PadInv

\* one that comes is known to be new to every pad
LEMMA PlugKeeps ==
  ASSUME PadInv, NEW i \in Inputs, NEW n \in Numbers, Plug(i, n) PROVE PadInv'
<1>1. PadTyped'
      BY DEF Plug, PadInv, PadTyped
<1>2. plugs' # 0 /\ plugs' \in Nat
      BY DEF Plug, PadInv, PadTyped
<1>3. Nodes' /\ SeenOwn'
      BY <1>2 DEF Plug, PadInv, PadTyped, Nodes, SeenOwn
<1>4. NamesKnown' /\ Held'
      BY DEF Plug, PadInv, PadTyped, NamesKnown, Held
<1> QED BY <1>1, <1>3, <1>4 DEF PadInv

LEMMA MakeJsKeeps == ASSUME PadInv, NEW i \in Inputs, MakeJs(i) PROVE PadInv'
BY DEF MakeJs, PadInv, PadTyped, Nodes, SeenOwn, NamesKnown, Held

-----------------------------------------------------------------------------
(* The theorem                                                              *)

LEMMA PadInvariance == PadSpec => []PadInv
<1>1. PadInv /\ [PadNext]_padVars => PadInv'
  <2> SUFFICES ASSUME PadInv, [PadNext]_padVars PROVE PadInv'
      OBVIOUS
  <2>1. CASE UNCHANGED padVars
        BY <2>1 DEF padVars, PadInv, PadTyped, Nodes, SeenOwn, NamesKnown, Held
  <2>2. CASE PadNext
        BY <2>2, CollectKeeps, OpenKeeps, OpenedKeeps, ReleaseKeeps, UnplugKeeps, PlugKeeps,
           MakeJsKeeps DEF PadNext
  <2> QED BY <2>1, <2>2
<1> QED BY PadInitHolds, <1>1, PTL DEF PadSpec

\* A pad never has more grabbed than the touchpad and its like of its own HID
\* device, but for a device plugged in since its directory was read: however many
\* controllers there are, wherever they lie and whatever comes and goes.
THEOREM GrabsOwnSafe == PadSpec => []GrabsOwn
<1>1. PadInv => GrabsOwn
  <2> SUFFICES ASSUME PadInv, NEW i \in Inputs, NEW p \in Pads
               PROVE  /\ i \in fds[p] /\ i \notin fresh[p] =>
                            /\ OwnDevice(p, i)
                            /\ i \notin WithAccel
                            /\ plugs = 0 => i \notin WithJs
                      /\ i \in fds[p] => i \in seen[p] \cup fresh[p]
                      /\ grabber[i] = p => i \in fds[p] /\ gpc[p] # "idle"
                      /\ Cardinality(seen[p]) <= MaxGrabbed
      BY DEF GrabsOwn
  <2> QED BY DEF PadInv, SeenOwn, Held
<1> QED BY <1>1, PadInvariance, PTL

=============================================================================
