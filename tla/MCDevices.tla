------------------------------ MODULE MCDevices ------------------------------
(* Small timers: frames of three machine cycles and one cycle of overrun, two clocks in a
   cycle, bytes of four values, periods of one and of four cycles. *)
EXTENDS Devices, TLC

const_PERIOD == 0 :> 8 @@ 1 :> 2
const_TAC == [on : {TRUE}, select : {0, 1}] \cup {[on |-> FALSE, select |-> 0]}
const_GAMES == {{"timer"}, {"joypad"}}
==============================================================================
