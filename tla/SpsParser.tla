----------------------------- MODULE SpsParser -----------------------------
(***************************************************************************)
(* media/sps-parser/sps_parser.c: the picture size from the sequence       *)
(* parameter set of an H.264 or HEVC stream, read bit by bit. d is the     *)
(* sequence of bits that bitstream_read_bits delivers, a cursor the number *)
(* of them read, with the value read last and whether the last call        *)
(* returned true. Of the elements the parser passes over only the length   *)
(* is kept, as a script of bit counts.                                     *)
(***************************************************************************)
EXTENDS SpsBytes

Failed == [width |-> -1, height |-> -1]    \* the parser returned false

Start == [at |-> 0, val |-> 0, ok |-> TRUE]

ReadBits(d, c, n) ==
    LET value[i \in 0..n] == IF i = 0 THEN 0 ELSE 2 * value[i - 1] + d[c.at + i]
    IN  IF n > 32 THEN [c EXCEPT !.ok = FALSE]
        ELSE [at |-> c.at + n, val |-> value[n], ok |-> TRUE]

\* bitstream_skip_bits, which reads 16 bits at a time
SkipBits(d, c, n) == [c EXCEPT !.at = @ + n, !.ok = TRUE]

\* bitstream_read_ueg: as many bits after the first 1 as there were zeroes
LeadingZeroes(d, c) ==
    CHOOSE n \in 0..(Len(d) - c.at - 1) : /\ d[c.at + n + 1] = 1
                                          /\ \A i \in 1..n : d[c.at + i] = 0

\* mutant: the leading 1 of the number is forgotten
ReadUeLow(d, c) == LET n == LeadingZeroes(d, c)
                       rest == ReadBits(d, SkipBits(d, c, n + 1), n)
                   IN  [rest EXCEPT !.val = @ + n]
ReadUe(d, c) == LET n == LeadingZeroes(d, c)
                    rest == ReadBits(d, SkipBits(d, c, n + 1), n)
                IN  IF rest.ok THEN [rest EXCEPT !.val = 2^n - 1 + @] ELSE rest

ReadSe(d, c) == LET u == ReadUe(d, c)
                IN  [u EXCEPT !.val = IF @ % 2 = 1 THEN (@ + 1) \div 2 ELSE -(@ \div 2)]

\* a script of elements to pass over: so many bits, a number, or a flag and
\* what follows it when it is set
U(n)       == <<"u", n>>
Ue         == <<"ue">>
Se         == <<"se">>
If(script) == <<"if", script>>

RECURSIVE Skim(_, _, _)
Skim(d, c, script) ==
    IF script = <<>> THEN c
    ELSE LET e == Head(script)
             Skip == CASE e[1] = "u"  -> SkipBits(d, c, e[2])
                       [] e[1] = "ue" -> ReadUe(d, c)
                       [] e[1] = "se" -> ReadSe(d, c)
                       [] e[1] = "if" -> LET flag == ReadBits(d, c, 1)
                                         IN  IF flag.val = 1 THEN Skim(d, flag, e[2]) ELSE flag
         IN  Skim(d, Skip, Tail(script))

Times(n, script) == [i \in 1..(n * Len(script)) |-> script[((i - 1) % Len(script)) + 1]]

-----------------------------------------------------------------------------
\* bitstream_skip_scaling_list: nothing is read once nextScale is 0
SkipScalingList(d, c, count) ==
    LET Scale(s) ==
            IF s.next = 0 THEN s
            ELSE LET delta == ReadSe(d, s.cursor)
                     next == (s.last + delta.val + 256) % 256
                 IN  [cursor |-> delta, next |-> next,
                      last |-> IF next = 0 THEN s.last ELSE next]
        after[j \in 0..count] == IF j = 0 THEN [cursor |-> c, next |-> 8, last |-> 8]
                                 ELSE Scale(after[j - 1])
    IN  after[count].cursor

\* the lists of the matrix whose flag c has just read
SkipMatrix(d, c, lists) ==
    LET List(b, i) == LET flag == ReadBits(d, b, 1)
                      IN  IF flag.val = 0 THEN flag
                          ELSE SkipScalingList(d, flag, IF i <= 6 THEN 16 ELSE 64)
        after[i \in 0..12] == IF i = 0 THEN c ELSE List(after[i - 1], i)
    IN  IF c.val = 0 THEN c ELSE after[lists]

\* what the high profiles add after chroma_format_idc, which c has just read
SkipHigh(d, c) ==
    LET depths == (IF c.val = 3 THEN <<U(1)>> ELSE <<>>) \o <<Ue, Ue, U(1)>>
    IN  SkipMatrix(d, ReadBits(d, Skim(d, c, depths), 1), IF c.val # 3 THEN 8 ELSE 12)

SkipCycle(d, c) == LET n == ReadUe(d, Skim(d, c, <<U(1), Se, Se>>))
                   IN  Skim(d, n, Times(n.val, <<Se>>))

\* skip_hrd_parameters
SkipHrd(d, c) ==
    LET cpb == ReadUe(d, c)
    IN  IF cpb.val > 31 THEN [cpb EXCEPT !.ok = FALSE]
        ELSE Skim(d, cpb, <<U(4), U(4)>> \o Times(cpb.val + 1, <<Ue, Ue, U(1)>>)
                            \o <<U(5), U(5), U(5), U(5)>>)

\* skip_vui_parameters: whether what a flag announces is there is in val
Aspect(d, c) == LET idc == ReadBits(d, c, 8)
                IN  IF idc.val = 255 THEN Skim(d, idc, <<U(16), U(16)>>) ELSE idc

HrdIf(d, flag) == IF flag.val = 1 THEN SkipHrd(d, flag) ELSE flag

SkipVuiEnd(d, c, either) ==
    LET delay == IF either THEN <<U(1), U(1)>> ELSE <<U(1)>>
    IN  Skim(d, c, delay \o <<If(<<U(1), Ue, Ue, Ue, Ue, Ue, Ue>>)>>)

SkipVuiVcl(d, nal, c) ==
    LET vcl == ReadBits(d, c, 1)
        hrd == HrdIf(d, vcl)
    IN  IF c.ok /\ hrd.ok THEN SkipVuiEnd(d, hrd, nal = 1 \/ vcl.val = 1)
        ELSE [c EXCEPT !.ok = FALSE]

SkipVuiNal(d, nal) == SkipVuiVcl(d, nal.val, HrdIf(d, nal))

SkipVui(d, c) ==
    LET aspect == ReadBits(d, c, 1)
        shown == <<If(<<U(1)>>), If(<<U(3), U(1), If(<<U(8), U(8), U(8)>>)>>),
                   If(<<U(5), U(5)>>), If(<<U(32), U(32), U(1)>>)>>
    IN  SkipVuiNal(d, ReadBits(d, Skim(d, IF aspect.val = 1 THEN Aspect(d, aspect) ELSE aspect,
                                       shown), 1))

-----------------------------------------------------------------------------
\* four offsets after a flag, left, right, top and bottom, 0 without it
Crop(d, c) == LET flag == ReadBits(d, c, 1)
                  l == ReadUe(d, flag)
                  r == ReadUe(d, l)
                  t == ReadUe(d, r)
                  b == ReadUe(d, t)
              IN  IF flag.val = 0 THEN [cursor |-> flag, x |-> 0, y |-> 0]
                  ELSE [cursor |-> b, x |-> l.val + r.val, y |-> t.val + b.val]

SubWidth(idc)  == IF idc \in {1, 2} THEN 2 ELSE 1
SubHeight(idc) == IF idc = 1 THEN 2 ELSE 1

\* the sums are made in 32 bits and stored in 16
Dimension(w, h) == [width |-> w % 2^16, height |-> h % 2^16]

HighProfiles == {100, 110, 122, 244, 44, 83, 86, 118, 128, 138, 139, 134, 135}

\* sps_parse_dimension_h264, from its end: the flags after the size
H264End(d, idc, mbWidth, mapHeight) ==
    LET mbsOnly == ReadBits(d, mapHeight, 1)
        fields == 2 - mbsOnly.val
        crop == Crop(d, Skim(d, mbsOnly, IF mbsOnly.val = 0 THEN <<U(1), U(1)>> ELSE <<U(1)>>))
        vui == ReadBits(d, crop.cursor, 1)
    IN  IF vui.val = 1 /\ ~SkipVui(d, vui).ok THEN Failed
        ELSE Dimension((mbWidth + 1) * 16 - crop.x * SubWidth(idc),
                       (mapHeight.val + 1) * 16 * fields - crop.y * SubHeight(idc) * fields)

\* the size, which max_num_ref_frames and a flag precede
H264Size(d, idc, c) ==
    LET mbWidth == ReadUe(d, Skim(d, c, <<Ue, U(1)>>))
        mapHeight == ReadUe(d, mbWidth)
    IN  IF ~mbWidth.ok \/ ~mapHeight.ok THEN Failed
        ELSE H264End(d, idc, mbWidth.val, mapHeight)

\* pic_order_cnt_type, which c has just read
H264Order(d, idc, c) == H264Size(d, idc, CASE c.val = 0 -> ReadUe(d, c)
                                           [] c.val = 1 -> SkipCycle(d, c)
                                           [] OTHER -> c)

\* chroma_format_idc, which c has just read
H264High(d, c) == IF ~c.ok \/ c.val > 3 THEN Failed
                  ELSE H264Order(d, c.val, Skim(d, SkipHigh(d, c), <<Ue, Ue>>))

H264(d) ==
    LET profile == ReadBits(d, SkipBits(d, Start, 8), 8)
        id == Skim(d, profile, <<U(6), U(2), U(8), Ue>>)
    IN  IF profile.val \in HighProfiles THEN H264High(d, ReadUe(d, id))
        ELSE H264Order(d, 1, Skim(d, id, <<Ue, Ue>>))

\* parse_profile_info; the 32 compatibility flags are one element here
ProfileInfo == <<U(2), U(1), U(5), U(32), U(1), U(1), U(1), U(1), U(44)>>

\* sps_parse_dimension_hevc: profile and level of the sub-layers
SkipSubLayers(d, c, n) ==
    LET Present(i) == ReadBits(d, SkipBits(d, c, 2 * i - 2), 2).val
        Parts(i) == (IF Present(i) \div 2 = 1 THEN ProfileInfo ELSE <<>>)
                        \o (IF Present(i) % 2 = 1 THEN <<U(8)>> ELSE <<>>)
        flags == Times(n, <<U(1), U(1)>>) \o (IF n > 0 THEN Times(8 - n, <<U(2)>>) ELSE <<>>)
        after[i \in 0..n] == IF i = 0 THEN Skim(d, c, flags) ELSE Skim(d, after[i - 1], Parts(i))
    IN  after[n]

\* chroma_format_idc, which format has just read
HevcSize(d, format) ==
    LET w == ReadUe(d, IF format.val = 3 THEN SkipBits(d, format, 1) ELSE format)
        h == ReadUe(d, w)
        crop == Crop(d, h)
    IN  IF ~format.ok \/ ~w.ok \/ ~h.ok \/ w.val <= 0 \/ h.val <= 0 THEN Failed
        ELSE Dimension(w.val - crop.x * SubWidth(format.val), h.val - crop.y * SubHeight(format.val))

Hevc(d) ==
    LET layers == ReadBits(d, SkipBits(d, Start, 4), 3)
        level == Skim(d, layers, <<U(1)>> \o ProfileInfo \o <<U(8)>>)
        id == ReadUe(d, SkipSubLayers(d, level, layers.val))
    IN  IF ~id.ok THEN Failed ELSE HevcSize(d, ReadUe(d, id))

=============================================================================
