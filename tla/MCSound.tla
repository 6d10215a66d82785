------------------------------ MODULE MCSound ------------------------------
(* Notes of at most two length clocks, frequencies of two bits, and frames of one and a
   half steps of the frame sequencer.  The first channel has a sweep, the fourth no
   frequency; the other two only differ in their length. *)
EXTENDS Sound

const_LENGTH == [c \in Channels |-> IF c = "ch3" THEN 3 ELSE 2]
const_SWEEPS == {[period |-> 1, dir |-> FALSE, shift |-> 1], [period |-> 0, dir |-> TRUE, shift |-> 1]}
==============================================================================
