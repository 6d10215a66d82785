---------------------------- MODULE TickingTimer ----------------------------
(***************************************************************************)
(* What the timer promises: a device that is up to date in every machine   *)
(* cycle.  DIV counts clocks, CLOCKS a cycle; TIMA counts  periods while   *)
(* it is on, and starts again from TMA when it overflows.  The clocks of   *)
(* an unfinished period stay in part when the timer is switched off or to  *)
(* another period; a shorter one may then be over at once, several times.  *)
(*                                                                         *)
(* overflows counts requests, modulo OVERFLOW_MOD.                         *)
(***************************************************************************)
EXTENDS Integers

CONSTANTS DIV_MOD,        \* 2^16
          TIMA_MOD,       \* 2^8
          PERIOD,         \* clocks of a period, by the lower bits of TAC
          CLOCKS,         \* 4, clocks in a machine cycle
          OVERFLOW_MOD    \* bound on the counter of this specification

VARIABLES div, part, tima, tma, tac, overflows
vars == <<div, part, tima, tma, tac, overflows>>

Bytes == 0..TIMA_MOD - 1
Tac   == [on : BOOLEAN, select : DOMAIN PERIOD]

Init == /\ div = 0 /\ part = 0 /\ tima = 0 /\ tma = 0 /\ overflows = 0
        /\ tac = [on |-> FALSE, select |-> 0]

\* TIMA and the number of overflows when it is incremented n times.
Incremented(n) == IF tima + n < TIMA_MOD THEN tima + n
                  ELSE tma + ((tima + n - TIMA_MOD) % (TIMA_MOD - tma))
Overflows(n)   == IF tima + n < TIMA_MOD THEN 0
                  ELSE 1 + ((tima + n - TIMA_MOD) \div (TIMA_MOD - tma))

\* The clocks pass under the setting v of TAC.
Pass(clocks, v) ==
    IF v.on
    THEN LET n == (part + clocks) \div PERIOD[v.select]
         IN  /\ part' = (part + clocks) % PERIOD[v.select]
             /\ tima' = Incremented(n)
             /\ overflows' = (overflows + Overflows(n)) % OVERFLOW_MOD
    ELSE UNCHANGED <<part, tima, overflows>>

MCycle == div' = (div + CLOCKS) % DIV_MOD /\ Pass(CLOCKS, tac) /\ UNCHANGED <<tma, tac>>

WriteDiv  == div' = 0 /\ UNCHANGED <<part, tima, tma, tac, overflows>>
WriteTima == \E v \in Bytes : tima' = v /\ UNCHANGED <<div, part, tma, tac, overflows>>
WriteTma  == \E v \in Bytes : tma' = v /\ UNCHANGED <<div, part, tima, tac, overflows>>
WriteTac  == \E v \in Tac : tac' = v /\ Pass(0, v) /\ UNCHANGED <<div, tma>>

Next == MCycle \/ WriteDiv \/ WriteTima \/ WriteTma \/ WriteTac
Spec == Init /\ [][Next]_vars
=============================================================================
