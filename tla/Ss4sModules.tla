---------------------------- MODULE Ss4sModules ----------------------------
(***************************************************************************)
(* media/ss4s/modules-list/ss4s_modules.c: the list of decoder modules,    *)
(* read from an ini file and sorted by weight, and the choice of one for   *)
(* video and one for audio. A value in the file is a sequence of words or  *)
(* characters; a selected module is its index in the list, 0 for none.     *)
(***************************************************************************)
EXTENDS VersionInfo

CONSTANTS
    Names,     \* identifiers and groups, in the order of strcmp
    OsVersion, \* os_info_t.version
    Files,     \* what the ini file may hold: sequences of lines
    Calls      \* arguments SS4S_ModulesSelect may be called with, and what
               \* SS4S_ModuleCheck would answer then

VARIABLES
    modules,   \* the array list
    selection, \* SS4S_ModuleSelection
    file,      \* history: the file the list was read from
    call       \* history: the last call of SS4S_ModulesSelect

ss4sVars == <<modules, selection, file, call>>

NoName == "none"
AutoId == "auto"
NoCall == [video |-> NoName, audio |-> NoName, check |-> FALSE, probe |-> <<>>]

\* what the ini parser calls back with
Line == [section : STRING, name : STRING, value : Seq(STRING)]

ASSUME FilesAssumption == Files \subseteq Seq(Line)

BlankModule == [id |-> NoName, group |-> NoName, weight |-> 0, video |-> FALSE, audio |-> FALSE,
                conflicts |-> {}, os |-> <<>>]

NameOrder(n) == CHOOSE i \in DOMAIN Names : Names[i] = n

\* SS4S_ModuleInfoGetGroup
GroupOf(m) == IF m.group = NoName THEN m.id ELSE m.group

-----------------------------------------------------------------------------
(* SS4S_ModulesList                                                         *)

\* section_changed: the module just read joins the list if the system suits it
\* mutant: what was read of a module that is left out stays
SectionChangedKeeps(x) ==
    IF x.current.id = NoName \/ ~ConstraintsCheck(x.current.os, OsVersion) THEN x
    ELSE [current |-> BlankModule, modules |-> Append(x.modules, x.current)]
\* mutant: the weight of the section before is not forgotten
SectionChangedHeavy(x) ==
    IF x.current.id = NoName THEN x
    ELSE [current |-> [BlankModule EXCEPT !.weight = x.current.weight],
          modules |-> IF ConstraintsCheck(x.current.os, OsVersion)
                      THEN Append(x.modules, x.current) ELSE x.modules]
SectionChanged(x) ==
    IF x.current.id = NoName THEN x
    ELSE [current |-> BlankModule,
          modules |-> IF ConstraintsCheck(x.current.os, OsVersion)
                      THEN Append(x.modules, x.current) ELSE x.modules]

Clamp(n) == Max({0, Min({n, 100})})
Weight(value) == IF value[1] = "-" THEN 0 ELSE Clamp(Number(value))

\* str_list_parse: the list stays as it is when there is nothing in the value
ListParse(old, value) == LET items == {value[i] : i \in DOMAIN value} \ {","}
                         IN  IF items = {} THEN old ELSE items

\* modules_ini_handler: the module that a line is about, and what it says of it
Entered(x, section) ==
    IF section = x.current.id THEN x
    ELSE LET y == SectionChanged(x) IN [y EXCEPT !.current = [@ EXCEPT !.id = section]]

Told(m, name, v) ==
    CASE name = "group"      -> [m EXCEPT !.group = v[1]]
      [] name = "weight"     -> [m EXCEPT !.weight = Weight(v)]
      [] name = "audio"      -> [m EXCEPT !.audio = (v[1] = "true")]
      [] name = "video"      -> [m EXCEPT !.video = (v[1] = "true")]
      [] name = "os_version" -> [m EXCEPT !.os = ConstraintsParse(v)]
      [] name = "conflicts"  -> [m EXCEPT !.conflicts = ListParse(@, v)]
      [] OTHER -> m

IniHandler(x, line) ==
    LET y == Entered(x, line.section)
    IN  [y EXCEPT !.current = Told(@, line.name, line.value)]

ReadFile(lines) ==
    LET after[n \in 0..Len(lines)] == IF n = 0 THEN [current |-> BlankModule, modules |-> <<>>]
                                      ELSE IniHandler(after[n - 1], lines[n])
    IN  SectionChanged(after[Len(lines)]).modules

\* module_weight_compare_fn(m1, m2) > 0
\* mutant: the lighter module comes first
ComesAfterLight(m1, m2) == \/ m1.weight > m2.weight
                           \/ /\ m1.weight = m2.weight
                              /\ NameOrder(GroupOf(m1)) > NameOrder(GroupOf(m2))
ComesAfter(m1, m2) == \/ m2.weight > m1.weight
                      \/ /\ m1.weight = m2.weight
                         /\ NameOrder(GroupOf(m1)) > NameOrder(GroupOf(m2))

\* array_list_qsort: equal modules may come in any order
Sorted(list) ==
    {[i \in DOMAIN list |-> list[p[i]]] : p \in
        {q \in Bijection(DOMAIN list, DOMAIN list) :
            \A i, j \in DOMAIN list : i < j => ~ComesAfter(list[q[i]], list[q[j]])}}

ModulesList(lines) == /\ file = <<>>
                      /\ file' = lines
                      /\ modules' \in Sorted(ReadFile(lines))
                      /\ UNCHANGED <<selection, call>>

ModulesListClear == /\ file # <<>>
                    /\ file' = <<>>
                    /\ modules' = <<>>
                    /\ selection' = [video |-> 0, audio |-> 0]
                    /\ call' = NoCall

-----------------------------------------------------------------------------
(* SS4S_ModulesSelect                                                       *)

\* SS4S_ModuleInfoConflicts
\* mutant: only the first one's list counts
ConflictsOneWay(a, b) == {b.id, b.group} \cap a.conflicts # {}
Conflicts(a, b) == \/ {b.id, b.group} \cap a.conflicts # {}
                   \/ {a.id, a.group} \cap b.conflicts # {}

First(S) == Min(S \cup {Len(modules) + 1}) % (Len(modules) + 1)

\* module_by_id
ById(id) == First({i \in DOMAIN modules : id \in {modules[i].id, modules[i].group}})

\* what the check leaves of the flags asked for
Granted(c, i, flags) == IF c.check THEN flags \cap c.probe[modules[i].id] ELSE flags

VideoFlags(c, i) == Granted(c, i, {"video"} \cup
                        IF modules[i].audio /\ c.audio = AutoId THEN {"audio"} ELSE {})

CanVideo(c, i) == modules[i].video /\ "video" \in VideoFlags(c, i)

VideoChoice(c) ==
    LET wanted == IF c.video = AutoId THEN 0 ELSE ById(c.video)
    IN  IF wanted # 0 /\ CanVideo(c, wanted) THEN wanted
        ELSE First({i \in DOMAIN modules : CanVideo(c, i)})

\* mutant: conflicts are not looked at for the module that was asked for
WantedAudioAnyway(c, video, i) == modules[i].audio /\ "audio" \in Granted(c, i, {"audio"})
WantedAudio(c, video, i) ==
    /\ modules[i].audio
    /\ c.check => video # 0 /\ ~Conflicts(modules[video], modules[i])
    /\ "audio" \in Granted(c, i, {"audio"})

OtherAudio(c, video, i) ==
    /\ modules[i].audio
    /\ c.check /\ video # 0 => ~Conflicts(modules[video], modules[i])
    /\ "audio" \in Granted(c, i, {"audio"})

AudioChoice(c, video) ==
    LET wanted == IF c.audio = AutoId THEN 0 ELSE ById(c.audio)
    IN  IF video # 0 /\ "audio" \in VideoFlags(c, video) THEN video
        ELSE IF wanted # 0 /\ WantedAudio(c, video, wanted) THEN wanted
        ELSE First({i \in DOMAIN modules : OtherAudio(c, video, i)})

ModulesSelect(c) ==
    /\ file # <<>>
    /\ call' = c
    /\ LET video == VideoChoice(c)
       IN  selection' = [video |-> video, audio |-> AudioChoice(c, video)]
    /\ UNCHANGED <<modules, file>>

-----------------------------------------------------------------------------
Ss4sInit == /\ modules = <<>>
            /\ selection = [video |-> 0, audio |-> 0]
            /\ file = <<>>
            /\ call = NoCall

Ss4sNext == \/ \E lines \in Files : ModulesList(lines)
            \/ \E c \in Calls : ModulesSelect(c)
            \/ ModulesListClear

Ss4sSpec == Ss4sInit /\ [][Ss4sNext]_ss4sVars

-----------------------------------------------------------------------------
(* Properties                                                               *)

\* a file that names each module in one place, and says each thing of it once
WellFormed(lines) ==
    /\ \A i \in DOMAIN lines :
          /\ lines[i].section # NoName
          /\ lines[i].name \in {"group", "audio", "video"} => Len(lines[i].value) = 1
    /\ \A i, k \in DOMAIN lines :
          i < k /\ lines[i].section = lines[k].section =>
              /\ lines[i].name # lines[k].name
              /\ \A j \in i..k : lines[j].section = lines[i].section

\* the values that the file gives a section under a name
Said(section, name) ==
    {file[l].value : l \in {k \in DOMAIN file : file[k].section = section /\ file[k].name = name}}

\* Each field of a module is what its own section says of it, and is blank if
\* that says nothing, whatever the sections before it have said.
AsItsSectionSays(m) ==
    /\ m.video <=> <<"true">> \in Said(m.id, "video")
    /\ m.audio <=> <<"true">> \in Said(m.id, "audio")
    /\ \A v \in Said(m.id, "group") : m.group = v[1]
    /\ \A v \in Said(m.id, "weight") : m.weight = Weight(v)
    /\ \A v \in Said(m.id, "conflicts") : m.conflicts = {v[i] : i \in DOMAIN v} \ {","}
    /\ \A v \in Said(m.id, "os_version") : m.os = ConstraintsParse(v)
    /\ Said(m.id, "group") = {} => m.group = NoName
    /\ Said(m.id, "weight") = {} => m.weight = 0
    /\ Said(m.id, "conflicts") = {} => m.conflicts = {}
    /\ Said(m.id, "os_version") = {} => m.os = <<>>

\* The list holds exactly the modules of the file that suit the system, each
\* once, with all of what its own section says and nothing of another's (lines
\* 166 and 195): a module is in the list if and only if its section is satisfied.
\* It is stated of files that are WellFormed.
ListTrueToFile ==
    /\ \A i \in DOMAIN modules : AsItsSectionSays(modules[i])
    /\ \A i, j \in DOMAIN modules : modules[i].id = modules[j].id => i = j
    /\ {modules[i].id : i \in DOMAIN modules} =
          {file[l].section : l \in DOMAIN file} \ {file[l].section : l \in {k \in DOMAIN file :
              /\ file[k].name = "os_version"
              /\ ~ConstraintsCheck(ConstraintsParse(file[k].value), OsVersion)}}

\* With the check on, what is selected can do what it is selected for, and the
\* two modules do not conflict, whichever of them names the other, by its
\* identifier or its group.
SelectionSound ==
    call.check =>
        /\ selection.video # 0 => LET v == modules[selection.video]
                                  IN  v.video /\ "video" \in call.probe[v.id]
        /\ selection.audio # 0 => LET a == modules[selection.audio]
                                  IN  a.audio /\ "audio" \in call.probe[a.id]
        /\ selection.video # 0 /\ selection.audio # 0 /\ selection.video # selection.audio =>
              LET v == modules[selection.video]
                  a == modules[selection.audio]
              IN  /\ a.id \notin v.conflicts /\ a.group \notin v.conflicts
                  /\ v.id \notin a.conflicts /\ v.group \notin a.conflicts

\* A module that can show video is passed over only for one that is at least as
\* heavy, or that was asked for by name: the greedy loop relies on the sort.
HeaviestVideo ==
    \A i \in DOMAIN modules :
        /\ file # <<>> /\ call # NoCall
        /\ modules[i].video
        /\ call.check => "video" \in call.probe[modules[i].id]
        => /\ selection.video # 0
           /\ \/ modules[selection.video].weight >= modules[i].weight
              \/ call.video \in {modules[selection.video].id, modules[selection.video].group}

=============================================================================
