----------------------------- MODULE SpsSyntax -----------------------------
(***************************************************************************)
(* The reference for SpsParser: sequence parameter sets written the way    *)
(* the standards define them (H.264 7.3.2.1.1 and annex E, H.265 7.3.2.2), *)
(* with emulation prevention bytes, and the picture size each one means.   *)
(***************************************************************************)
EXTENDS SpsBytes, SequencesExt, FiniteSetsExt

\* u(n), ue(v), se(v): the bits of an element
U(v, n) == [i \in 1..n |-> IF n - i > 29 THEN 0 ELSE (v \div 2^(n - i)) % 2]
UE(v) == LET k == CHOOSE j \in 0..25 : 2^j <= v + 1 /\ v + 1 < 2^(j + 1)
         IN  U(0, k) \o U(v + 1, k + 1)
SE(v) == UE(IF v > 0 THEN 2 * v - 1 ELSE -2 * v)

Zero(n) == U(0, n)

Flagged(s) == IF s = <<>> THEN <<0>> ELSE <<1>> \o s

\* bytes of the payload, ended by a 1 and zeroes, with bytes to spare
Bytes(bits) == LET all == bits \o <<1>> \o Zero(15 - (Len(bits) % 8))
                   Value(i) == FoldLeft(LAMBDA v, j : 2 * v + all[8 * (i - 1) + j], 0,
                                        <<1, 2, 3, 4, 5, 6, 7, 8>>)
               IN  [i \in 1..(Len(all) \div 8) |-> Value(i)]

Stream(bits) == Escape(Bytes(bits))

-----------------------------------------------------------------------------
\* scaling lists: none; all flat; one that ends at its second number
Flat(n) == FlattenSeq([i \in 1..n |-> SE(0)])
ScalingLists(kind, idc) ==
    LET n == IF idc = 3 THEN 12 ELSE 8
    IN  CASE kind = "none" -> <<0>>
          [] kind = "flat" -> <<1>> \o FlattenSeq([i \in 1..n |->
                IF i = 2 THEN <<0>> ELSE <<1>> \o Flat(IF i <= 6 THEN 16 ELSE 64)])
          [] kind = "short" -> <<1>> \o FlattenSeq([i \in 1..n |-> <<1>> \o SE(2) \o SE(-10)])

\* pic_order_cnt_type 0, 1 with two frames in the cycle, 2
OrderCount(type) == UE(type) \o CASE type = 0 -> UE(4)
                                  [] type = 1 -> <<0>> \o SE(-2^20) \o SE(2^20) \o UE(2) \o SE(1) \o SE(-1)
                                  [] OTHER -> <<>>

Hrd == UE(1) \o U(5, 4) \o U(6, 4) \o UE(9) \o UE(0) \o <<1>> \o UE(200) \o UE(3) \o <<0>> \o U(2^19 + 2^9, 20)

\* video usability information: which of its parts are there
Vui(parts) ==
    LET If(p, s) == IF p \in parts THEN <<1>> \o s ELSE <<0>>
    IN  If("sar", U(255, 8) \o U(1, 16) \o U(1, 16)) \o If("overscan", <<1>>)
          \o If("signal", U(5, 3) \o <<0, 1>> \o U(1, 8) \o U(1, 8) \o U(1, 8))
          \o If("loc", UE(0) \o UE(0))
          \o If("timing", U(1, 32) \o Zero(16) \o U(60000, 16) \o <<1>>)
          \o If("hrd", Hrd) \o If("vclHrd", Hrd)
          \o (IF parts \cap {"hrd", "vclHrd"} # {} THEN <<0>> ELSE <<>>)
          \o <<0>> \o If("restriction", <<1>> \o UE(0) \o UE(0) \o UE(10) \o UE(10) \o UE(0) \o UE(1))

CropBits(c) == IF c = <<0, 0, 0, 0>> THEN <<0>>
               ELSE <<1>> \o UE(c[1]) \o UE(c[2]) \o UE(c[3]) \o UE(c[4])

\* profile 66 is the baseline, whose format is 4:2:0; 100 is a high profile
H264Bits(p) ==
    U(103, 8) \o U(p.profile, 8) \o Zero(8) \o U(42, 8) \o UE(0)
      \o (IF p.profile = 66 THEN <<>>
          ELSE UE(p.idc) \o (IF p.idc = 3 THEN <<0>> ELSE <<>>) \o UE(0) \o UE(2) \o <<0>>
                 \o ScalingLists(p.scaling, p.idc))
      \o UE(4) \o OrderCount(p.order) \o UE(4) \o <<0>>
      \o UE(p.w - 1) \o UE(p.h - 1) \o (IF p.frames THEN <<1>> ELSE <<0, 1>>) \o <<1>>
      \o CropBits(p.crop)
      \o (IF p.vui = {} THEN <<0>> ELSE <<1>> \o Vui(p.vui))

\* SubWidthC and SubHeightC of the chroma formats 4:0:0, 4:2:0, 4:2:2, 4:4:4
UnitX(idc) == IF idc \in {1, 2} THEN 2 ELSE 1
UnitY(idc) == IF idc = 1 THEN 2 ELSE 1

H264Size(p) == LET idc == IF p.profile = 66 THEN 1 ELSE p.idc
                   rows == IF p.frames THEN 1 ELSE 2
               IN  [width |-> 16 * p.w - UnitX(idc) * (p.crop[1] + p.crop[2]),
                    height |-> rows * (16 * p.h - UnitY(idc) * (p.crop[3] + p.crop[4]))]

Profile(k) == U(k, 8) \o U(2^15, 32) \o <<1, 0, 0, 1>> \o Zero(44)

\* the NAL unit header of a sequence parameter set, 42 01
HevcHeader == <<0>> \o U(33, 6) \o Zero(6) \o U(1, 3)

\* p.header says whether the header is there, p.layers of each sub-layer whether
\* it has a profile and a level
HevcBits(p) ==
    LET n == Len(p.layers)
        Has(b) == IF b THEN 1 ELSE 0
    IN  (IF p.header THEN HevcHeader ELSE <<>>) \o Zero(4) \o U(n, 3) \o <<1>> \o Profile(1) \o U(120, 8)
          \o FlattenSeq([i \in 1..n |-> <<Has(p.layers[i].profile), Has(p.layers[i].level)>>])
          \o (IF n > 0 THEN Zero(16 - 2 * n) ELSE <<>>)
          \o FlattenSeq([i \in 1..n |-> (IF p.layers[i].profile THEN Profile(2) ELSE <<>>)
                                           \o (IF p.layers[i].level THEN U(3, 8) ELSE <<>>)])
          \o UE(0) \o UE(p.idc) \o (IF p.idc = 3 THEN <<0>> ELSE <<>>)
          \o UE(p.w) \o UE(p.h) \o CropBits(p.crop) \o UE(0) \o UE(0)

HevcSize(p) == [width |-> p.w - UnitX(p.idc) * (p.crop[1] + p.crop[2]),
                height |-> p.h - UnitY(p.idc) * (p.crop[3] + p.crop[4])]

=============================================================================
