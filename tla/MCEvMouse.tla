------------------------------ MODULE MCEvMouse ------------------------------
(* Instances of EvMouse for TLC: one listening thread, or two.              *)
EXTENDS EvMouse

CONSTANTS l1, l2, m1, m2, m3
=============================================================================
