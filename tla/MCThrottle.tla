------------------------------ MODULE MCThrottle ------------------------------
(* Instances of Throttle for TLC.                                              *)
EXTENDS Throttle

CONSTANTS i1, i2, i3, main, p1

MCImporters3 == {i1, i2, i3}
MCReporters  == {main, p1}
===============================================================================
