------------------------------- MODULE MCUnits -------------------------------
(***************************************************************************)
(* The parts of the library that stand alone, side by side for TLC: each   *)
(* behaviour is one of one part, which unit names, and the others rest.    *)
(***************************************************************************)
EXTENDS RefCounter, Lazy, LinkedList, ArrayList, GamepadTouchpad, LunaCall, NetAddress, GcdbDownload, Ss4sModules,
        SpsReading, TLC

CONSTANTS t1, t2, t3

VARIABLES
    unit,
    worker, owner, quit, wakes,
    comparison

-----------------------------------------------------------------------------
(* The instances and their constants.                                       *)

Cec == INSTANCE CecSdl WITH MaxWakes <- 2

\* Key, in MCUnits.cfg: two of four nodes are equal to the comparator
NodeKeys == <<1, 2, 2, 3>>

\* Ip4 and Ip6, in MCUnits.cfg: 1.0.0.1 and 1.0.0.2; f::1, also written 0f::1, f::2 and ::1
V4(c) == <<"1", ".", "0", ".", "0", ".", c>>
V6(c) == <<"f", ":", ":", c>>
Ip4Texts == V4("1") :> 11 @@ V4("2") :> 12
Ip6Texts == V6("1") :> <<15, 1>> @@ <<"0">> \o V6("1") :> <<15, 1>> @@ V6("2") :> <<15, 2>>
                @@ <<":", ":", "1">> :> <<0, 1>>
Ip6Written == <<15, 1>> :> V6("1") @@ <<15, 2>> :> V6("2") @@ <<0, 1>> :> <<":", ":", "1">>

HostNames == {<<>>, <<"f">>, <<"f", ".", "f">>, <<"f", ".", ".", "f">>, <<".", "f">>, <<"1", ".">>,
              <<"f", "f", "f", "f">>, <<"f", ".", "f", "f", ".", "f", "f">>,
              <<"f", ".", "f", "f", ".", "f", "f", "f">>, <<"f", "_">>, <<"[">> \o V6("1")}
Addresses == DOMAIN Ip4Texts \cup DOMAIN Ip6Texts
Endings == {<<>>, <<":">>, <<":", "8", "0">>, <<":", "8", "x">>, <<":", "-", "1">>,
            <<":", "6", "5", "5", "3", "7">>, <<"x">>, <<":", ":", "1">>}

\* Text4, Text6 and Texts, in MCUnits.cfg
Ip4Written == 11 :> V4("1") @@ 12 :> V4("2")
AddressTexts == {h \o e : h \in HostNames \cup Addresses \cup {<<"[">> \o a \o <<"]">> : a \in Addresses},
                         e \in Endings}

\* a controller with a stick, a motion sensor and two more nodes, on a bus of its
\* own; a virtual one next to the remote of the television
Hid == "0003:054C:09CC.0001"
InputPaths == "stick"  :> <<"usb", Hid, "input", "input1">>
           @@ "motion" :> <<"usb", Hid, "input", "input2">>
           @@ "touch"  :> <<"usb", Hid, "input", "input3">>
           @@ "pen"    :> <<"usb", Hid, "input", "input4">>
           @@ "remote" :> <<"virtual", "input", "input5">>
           @@ "uinput" :> <<"virtual", "input", "input6">>

\* AtStart, in MCUnits.cfg
NodesAtStart == "stick" :> 1 @@ "motion" :> 2 @@ "touch" :> 3 @@ "pen" :> 4 @@ "remote" :> 5 @@ "uinput" :> 6
PadPaths == "ds4" :> <<"usb", Hid, "hidraw", "hidraw0">>
         @@ "virtual" :> <<"virtual", "input", "input6", "event6">>

\* Content, Names and OsVersion, in MCUnits.cfg
Databases == [v1 |-> <<"comment", "a", "x", "b">>, v2 |-> <<"a", "b">>]
NamesInOrder == <<"a", "b", "g", "none">>
Webos54 == <<5, 4>>

\* Files, in MCUnits.cfg: two modules, what they can do, how they weigh, whom they exclude
Section(id, keys) == LET set == SelectSeq(keys, LAMBDA k : k[2] # <<>>)
                     IN  [i \in DOMAIN set |-> [section |-> id, name |-> set[i][1], value |-> set[i][2]]]
Can == {<<"audio">>, <<"video">>, <<"audio", "video">>}
Yes(can, what) == IF \E i \in DOMAIN can : can[i] = what THEN <<"true">> ELSE <<"false">>
ModuleFiles ==
    {Section("a", <<<<"video", Yes(canA, "video")>>, <<"audio", Yes(canA, "audio")>>,
                    <<"os_version", os>>, <<"conflicts", rel[2]>>, <<"weight", <<"1", "0">>>>>>)
       \o Section("b", <<<<"group", rel[1]>>, <<"weight", weight>>, <<"conflicts", con>>,
                         <<"video", Yes(canB, "video")>>, <<"audio", Yes(canB, "audio")>>>>) :
        canA \in Can, canB \in Can, os \in {<<>>, <<"<", "5">>},
        rel \in {<<<<>>, <<>>>>, <<<<>>, <<"b">>>>, <<<<"g">>, <<"c", ",", "g">>>>},
        weight \in {<<>>, <<"2", "0", "0">>}, con \in {<<>>, <<"a">>}}

ASSUME FilesWellFormed == \A lines \in ModuleFiles : WellFormed(lines)

\* Calls, in MCUnits.cfg
Media == {"audio", "video"}
Probes == {[a |-> x, b |-> y] : x \in SUBSET Media, y \in {{"audio"}, {"video"}, Media}}
ModuleCalls == [video : {"auto", "a", "g"}, audio : {"auto", "b"}, check : {TRUE}, probe : Probes]
          \cup [video : {"auto", "a", "g"}, audio : {"auto", "b"}, check : {FALSE}, probe : {<<>>}]

-----------------------------------------------------------------------------
(* version_info.c: a constraint, as a text, and a version to check.         *)

SomeParts == {2, 10}
SomeVersions == UNION {[1..n -> SomeParts] : n \in 1..3}
OperatorMeans == <<>> :> "=" @@ <<"=">> :> "=" @@ <<"<">> :> "<" @@ <<">">> :> ">"
              @@ <<"<", "=">> :> "<=" @@ <<">", "=">> :> ">=" @@ <<"<", ">">> :> "<>"
Operators == DOMAIN OperatorMeans
NotOperators == {<<"=", "=">>, <<"=", ">">>, <<">", "<">>}

Part(n) == IF n = 10 THEN <<"1", "0">> ELSE <<"2">>
Dotted(v) == FlattenSeq([i \in DOMAIN v |-> (IF i = 1 THEN <<>> ELSE <<".">>) \o Part(v[i])])

NoComparison == [operator |-> <<>>, space |-> <<>>, bound |-> <<>>, version |-> <<>>]
Comparisons == [operator : Operators \cup NotOperators, space : {<<>>, <<" ">>},
                bound : SomeVersions, version : SomeVersions]

Constraint(c) == ConstraintParse(c.operator \o c.space \o Dotted(c.bound))

Compares == /\ comparison = NoComparison
            /\ comparison' \in Comparisons

\* A constraint is read as it is written in an os_version, and what it says of a
\* version agrees with the full versions that the two, perhaps shorter, stand
\* for (version_info_test.c: 5.4.3 is 5, and 5.0.1 is not above 5): <, > and <>
\* hold if they do for all of these, =, <= and >= if they do for some; an operator
\* that does not exist is told from a version.
ConstraintMeaning ==
    comparison # NoComparison =>
        LET c == comparison
        IN  /\ Constraint(c) = Malformed <=> c.operator \in NotOperators
            /\ c.operator \in Operators =>
                  ConstraintCheck(Constraint(c), Parse(Dotted(c.version)))
                      = Means(OperatorMeans[c.operator], c.bound, c.version, SomeParts)

-----------------------------------------------------------------------------
(* sps_parser.c: the parameter sets to be read.                             *)

Crops == {<<0, 0, 0, 0>>, <<0, 1, 2, 4>>}
VuiParts == {{}, {"sar", "signal"}, {"timing", "hrd"}, {"hrd", "vclHrd", "restriction", "overscan"}}

H264Sets == [codec : {"h264"}, profile : {66}, idc : {1}, scaling : {"none"}, order : 0..2, w : {1, 120},
             h : {68}, frames : BOOLEAN, crop : Crops, vui : VuiParts]
       \cup [codec : {"h264"}, profile : {100}, idc : 0..3, scaling : {"none", "flat", "short"}, order : {0, 1},
             w : {120}, h : {68}, frames : BOOLEAN, crop : Crops, vui : {{}, {"timing"}}]

\* with up to two sub-layers, from vps_id on, as sps_parser.c:278 and the test at
\* sps_parser_tests.c:44 have it, and with the NAL unit header of the test at line 14
Layers(ns) == UNION {[1..n -> [profile : BOOLEAN, level : BOOLEAN]] : n \in ns}
HevcSets(header, ns, widths) ==
    [codec : {"hevc"}, header : {header}, layers : Layers(ns), idc : 0..3, w : widths, h : {1088},
     crop : {<<0, 0, 0, 0>>, <<1, 2, 0, 1>>}]

\* ParameterSets, in MCUnits.cfg; misread ones of a width with which the parser stops
\* before their end
WrittenSets == H264Sets \cup HevcSets(FALSE, 0..2, {8, 1920})
                 \cup HevcSets(TRUE, {0}, {8, 1920}) \cup HevcSets(TRUE, {1}, {1920})

-----------------------------------------------------------------------------
(* One part at a time.                                                      *)

cecVars == <<worker, owner, quit, wakes>>

UnitsInit ==
    /\ unit \in {"refcounter", "lazy", "cec", "luna", "list", "array",
                 "net", "touchpad", "download", "ss4s", "version", "sps"}
    /\ Init
    /\ LazyInit
    /\ Cec!CecInit
    /\ LunaInit
    /\ ListInit
    /\ ArrayInit
    /\ NetInit
    /\ PadInit
    /\ DbInit
    /\ Ss4sInit
    /\ SpsInit
    /\ comparison = NoComparison
    /\ unit # "luna" => ~wanted
    /\ unit # "download" => version = "v1"

UnitsNext ==
    /\ UNCHANGED unit
    /\ IF unit = "refcounter" THEN Next ELSE UNCHANGED vars
    /\ IF unit = "lazy" THEN LazyNext ELSE UNCHANGED lazyVars
    /\ IF unit = "cec" THEN Cec!CecNext ELSE UNCHANGED cecVars
    /\ IF unit = "luna" THEN LunaNext ELSE UNCHANGED lunaVars
    /\ IF unit = "list" THEN ListNext ELSE UNCHANGED listVars
    /\ IF unit = "array" THEN ArrayNext ELSE UNCHANGED arrayVars
    /\ IF unit = "net" THEN NetNext ELSE UNCHANGED netVars
    /\ IF unit = "touchpad" THEN PadNext ELSE UNCHANGED padVars
    /\ IF unit = "download" THEN DbNext ELSE UNCHANGED dbVars
    /\ IF unit = "ss4s" THEN Ss4sNext ELSE UNCHANGED ss4sVars
    /\ IF unit = "sps" THEN SpsNext ELSE UNCHANGED spsVars
    /\ IF unit = "version" THEN Compares ELSE UNCHANGED comparison

unitsVars == <<unit, vars, lazyVars, cecVars, lunaVars, listVars, arrayVars,
               netVars, padVars, dbVars, ss4sVars, spsVars, comparison>>

\* the threads of the two parts that must come to an end are scheduled
UnitsSpec == /\ UnitsInit /\ [][UnitsNext]_unitsVars
             /\ WF_cecVars(unit = "cec" /\ Cec!WorkerStep)
             /\ WF_cecVars(unit = "cec" /\ Cec!OwnerStep)
             /\ WF_lunaVars(unit = "luna" /\ CallerStep)
             /\ WF_lunaVars(unit = "luna" /\ CallbackStep)

-----------------------------------------------------------------------------
(* The properties, by their names in the modules that state and explain them. *)

\* see CecSdl
CecStops == Cec!CecStops

=============================================================================
