---------------------------- MODULE SpsReading ----------------------------
(***************************************************************************)
(* A parameter set is written as SpsSyntax says, its emulation bytes are   *)
(* taken out, and SpsParser finds the picture size.                        *)
(***************************************************************************)
EXTENDS Integers, Sequences

CONSTANT ParameterSets  \* those that are written

VARIABLES parameters, stream, bits, picture

spsVars == <<parameters, stream, bits, picture>>

Parser == INSTANCE SpsParser
Syntax == INSTANCE SpsSyntax

-----------------------------------------------------------------------------
NoSet == [codec |-> "none"]

SpsInit == parameters = NoSet /\ stream = <<>> /\ bits = <<>> /\ picture = <<>>

Writes(p) == /\ parameters = NoSet
             /\ parameters' = p
             /\ stream' = Syntax!Stream(IF p.codec = "h264" THEN Syntax!H264Bits(p) ELSE Syntax!HevcBits(p))
             /\ UNCHANGED <<bits, picture>>
Reads     == /\ stream # <<>> /\ bits = <<>>
             /\ bits' = Parser!Delivered(stream)
             /\ UNCHANGED <<parameters, stream, picture>>
Parses    == /\ bits # <<>> /\ picture = <<>>
             /\ picture' = IF parameters.codec = "h264" THEN Parser!H264(bits) ELSE Parser!Hevc(bits)
             /\ UNCHANGED <<parameters, stream, bits>>

SpsNext == (\E p \in ParameterSets : Writes(p)) \/ Reads \/ Parses

SpsSpec == SpsInit /\ [][SpsNext]_spsVars

-----------------------------------------------------------------------------
SizeMeant == IF parameters.codec = "h264" THEN Syntax!H264Size(parameters) ELSE Syntax!HevcSize(parameters)

\* an HEVC set from its NAL unit header on, as test_sps_parse_dimension_hevc has it
\* (sps_parser_tests.c:14 and 32), that has a sub-layer: the parser begins at vps_id
HeaderIsRead == parameters.codec = "hevc" /\ parameters.header /\ parameters.layers # <<>>

\* The parser finds the picture size of a parameter set written as the standards
\* say, whatever the fields before it: one field read too long or too short, or
\* an emulation byte missed, and all that follows is read from the wrong bit. An
\* HEVC set may begin with vps_id, or with its NAL unit header if it has no
\* sub-layer: 42 01 reads as one, whose two flags and fourteen more bits make up
\* for the sixteen of the header. With sub-layers of its own it is misread.
SizeIsRight == picture # <<>> => (picture = SizeMeant <=> ~HeaderIsRead)

=============================================================================
