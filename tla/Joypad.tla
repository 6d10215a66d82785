------------------------------- MODULE Joypad -------------------------------
(***************************************************************************)
(* The buttons (joypad.c): j is the record `joypad'.  Buttons have the     *)
(* numbers of gb_button.                                                   *)
(***************************************************************************)
EXTENDS Integers

RIGHT == 4
GB_BUTTON_COUNT == 8
FACE_BUTTONS == 0..3          \* A, B, SELECT, START
DPAD_BUTTONS == 4..7          \* RIGHT, LEFT, UP, DOWN

joypad_init == [buttons |-> [idx \in 0..GB_BUTTON_COUNT - 1 |-> FALSE],
                dpad_selected |-> FALSE, face_selected |-> FALSE]

\* The lines that joypad_read shows as zero: button idx is on line idx & 3.
joypad_read(j) ==
    {idx % 4 : idx \in {d \in DPAD_BUTTONS : j.dpad_selected /\ j.buttons[d]}
                       \cup {f \in FACE_BUTTONS : j.face_selected /\ j.buttons[f]}}

\* A zero in bit 5 selects the face buttons, one in bit 4 the pad.
joypad_write(j, bit5, bit4) == [j EXCEPT !.face_selected = (bit5 = 0), !.dpad_selected = (bit4 = 0)]

\* Mutant: the first button of the pad counts as a face button.
selected_beyond(j, idx) == IF idx > RIGHT THEN j.dpad_selected ELSE j.face_selected

selected(j, idx) == IF idx >= RIGHT THEN j.dpad_selected ELSE j.face_selected

\* gb_set_button, and whether it requests an interrupt.
gb_set_button(j, idx, pressed) == [j EXCEPT !.buttons[idx] = pressed]
requests(j, idx, pressed) == pressed /\ ~j.buttons[idx] /\ selected(j, idx)
=============================================================================
