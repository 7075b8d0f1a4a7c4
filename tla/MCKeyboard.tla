----------------------------- MODULE MCKeyboard ------------------------------
(* Two keys that fill the ring at any time, and the keys of the decoder, *)
(* with bytes overlapping on the wire, while the main loop is at rest.   *)
EXTENDS Keyboard

Key(code, extended) == [code |-> code, extended |-> extended]

(* Two keys with different characters are enough to tell positions apart. *)
MCFastKeys == {Key("a", FALSE), Key("enter", FALSE)}

(* Both shifts, caps lock, and the E0-prefixed shift that the keyboard     *)
(* itself generates around navigation keys.                                *)
MCSlowKeys == {Key("a", FALSE), Key("left_shift", FALSE),
               Key("right_shift", FALSE), Key("caps_lock", FALSE),
               Key("left_shift", TRUE)}
==============================================================================
