---------------------------- MODULE VersionInfo ----------------------------
(***************************************************************************)
(* util/version-info/version_info.c: versions of up to three numbers, and  *)
(* constraints on them. A text is a sequence of characters; a version is   *)
(* the sequence of its numbers, where the code has -1 for a missing one.   *)
(* Numbers are written without a sign, which strtol would read too.        *)
(***************************************************************************)
EXTENDS Text

Malformed == [operand |-> "none", version |-> <<>>]

\* version_info_parse: three numbers at most, each with an optional dot after it
Parse(text) ==
    LET Segment(s) ==
            LET t == SkipSpaces(s.rest)
                n == DigitCount(t)
                dot == n < Len(t) /\ t[n + 1] = "."
            IN  IF n = 0 THEN s
                ELSE [segs |-> Append(s.segs, Number(t)), rest |-> From(t, IF dot THEN n + 2 ELSE n + 1)]
        after[n \in 0..3] == IF n = 0 THEN [segs |-> <<>>, rest |-> text]
                             ELSE Segment(after[n - 1])
    IN  after[3].segs

\* version_info_compare: 0 when one version ends before they differ
\* mutant: a missing number counts as the -1 that stands for it
CompareMissing(a, b) ==
    LET part(v, i) == IF i <= Len(v) THEN v[i] ELSE -1
        differ == {i \in 1..3 : part(a, i) # part(b, i)}
    IN  IF differ = {} THEN 0 ELSE part(a, Min(differ)) - part(b, Min(differ))
Compare(a, b) ==
    LET differ == {i \in DOMAIN a \cap DOMAIN b : a[i] # b[i]}
    IN  IF differ = {} THEN 0 ELSE a[Min(differ)] - b[Min(differ)]

Operand(op) == CASE op \in {<<>>, <<"=">>} -> "="
                 [] op = <<"<">> -> "<"
                 [] op = <<">">> -> ">"
                 [] op = <<">", "=">> -> ">="
                 [] op = <<"<", "=">> -> "<="
                 [] op = <<"<", ">">> -> "<>"
                 [] OTHER -> "none"

\* version_constraint_parse: all up to the last operator character is the operator
ConstraintParse(text) ==
    LET value == SkipSpaces(text)
        length == Max({0} \cup {i \in DOMAIN value : value[i] \in {"<", ">", "="}})
        operand == Operand(SubSeq(value, 1, length))
        version == Parse(From(value, length + 1))
    IN  IF operand = "none" \/ version = <<>> THEN Malformed
        ELSE [operand |-> operand, version |-> version]

ConstraintCheck(c, version) ==
    LET diff == Compare(version, c.version)
    IN  CASE c.operand = "="  -> diff = 0
          [] c.operand = "<>" -> diff # 0
          [] c.operand = ">"  -> diff > 0
          [] c.operand = ">=" -> diff >= 0
          [] c.operand = "<"  -> diff < 0
          [] c.operand = "<=" -> diff <= 0

\* what strtok_r finds between the commas, which is never empty
Pieces(text) ==
    LET comma == {i \in DOMAIN text : text[i] = ","}
        first == {i \in DOMAIN text \ comma : i = 1 \/ i - 1 \in comma}
        end(i) == Min({j \in i..Len(text) : j = Len(text) \/ j + 1 \in comma})
        starts == SetToSortSeq(first, <)
    IN  [k \in DOMAIN starts |-> SubSeq(text, starts[k], end(starts[k]))]

\* version_constraints_parse: one malformed piece clears the whole list
ConstraintsParse(text) ==
    LET pieces == Pieces(text)
        parsed == [i \in DOMAIN pieces |-> ConstraintParse(pieces[i])]
    IN  IF \E i \in DOMAIN parsed : parsed[i] = Malformed THEN <<>> ELSE parsed

ConstraintsCheck(constraints, version) ==
    \A i \in DOMAIN constraints : ConstraintCheck(constraints[i], version)

-----------------------------------------------------------------------------
(* The reference: a version stands for all the full ones that begin with it *)
(* (version_info_test.c: 5.4.3 and 5.3.1 are 5, 5.0.1 is not above 5).      *)

Completions(v, parts) == {w \in [1..3 -> parts] : \A i \in DOMAIN v : w[i] = v[i]}

Below(v, w) == \E i \in 1..3 : v[i] < w[i] /\ \A j \in 1..(i - 1) : v[j] = w[j]

Means(operand, bound, version, parts) ==
    LET V == Completions(version, parts)
        B == Completions(bound, parts)
        less == \A v \in V, b \in B : Below(v, b)
        more == \A v \in V, b \in B : Below(b, v)
    IN  CASE operand = "<"  -> less
          [] operand = ">"  -> more
          [] operand = "<=" -> ~more
          [] operand = ">=" -> ~less
          [] operand = "="  -> V \cap B # {}
          [] operand = "<>" -> V \cap B = {}

=============================================================================
