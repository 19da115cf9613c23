-------------------------------- MODULE Kbd --------------------------------
(***************************************************************************)
(* devices/kbd.c: scancodes to characters.  An event is [code, release],   *)
(* as the interrupt handler reads it from the port; the keys of the        *)
(* invariant map are two letters, Space and Delete, those of the shift     *)
(* maps two keys with two symbols each.  A character is                    *)
(* [c, ctrl, alt]: its letter or symbol, moved to the control range or     *)
(* not, with the high bit set or not.                                      *)
(***************************************************************************)
EXTENDS Integers, Sequences, SequencesExt

Letters == {"A", "Z"}
lower == [c \in Letters |-> IF c = "A" THEN "a" ELSE "z"]

invariant_keymap == [k \in {"A", "Z", "SPACE", "DEL"} |-> k]
unshifted_keymap == [k \in {"1", "["} |-> k]
shifted_keymap == [k \in {"1", "["} |-> IF k = "1" THEN "!" ELSE "{"]

\* The state variable of each shift key; right Alt and Ctrl have a prefix code.
shift_keys ==
    [k \in {"2a", "36", "38", "e038", "1d", "e01d"} |->
        CASE k = "2a" -> "left_shift" [] k = "36" -> "right_shift" [] k = "38" -> "left_alt"
          [] k = "e038" -> "right_alt" [] k = "1d" -> "left_ctrl" [] k = "e01d" -> "right_ctrl"]

\* Caps Lock is 0x3a; a prefix code that is no shift key is ignored.
Codes == DOMAIN invariant_keymap \cup DOMAIN unshifted_keymap \cup DOMAIN shift_keys \cup {"3a", "e02a"}

kbd_init ==
    [down |-> [v \in {shift_keys[k] : k \in DOMAIN shift_keys} |-> FALSE],
     caps_lock |-> FALSE, input |-> <<>>, rebooted |-> FALSE]

shift(s) == s.down["left_shift"] \/ s.down["right_shift"]
alt(s) == s.down["left_alt"] \/ s.down["right_alt"]
ctrl(s) == s.down["left_ctrl"] \/ s.down["right_ctrl"]

map_key(k, code) == code \in DOMAIN k

\* The keymap that has the code in this state of the shift keys.
Keymap(s, code) ==
    IF map_key(invariant_keymap, code) THEN invariant_keymap
    ELSE IF ~ shift(s) THEN unshifted_keymap ELSE shifted_keymap

\* Characters 0x40..0x5f: Ctrl moves them down by 0x40.
HasControl(c) == c \in Letters \cup {"["}

Character_caps(s, c) ==
    LET cut == ctrl(s) /\ HasControl(c)
    IN  [c |-> IF ~ cut /\ ~ shift(s) /\ c \in Letters THEN lower[c] ELSE c,
         ctrl |-> cut, alt |-> alt(s)]

Character(s, c) ==
    LET cut == ctrl(s) /\ HasControl(c)
    IN  [c |-> IF ~ cut /\ shift(s) = s.caps_lock /\ c \in Letters THEN lower[c] ELSE c,
         ctrl |-> cut, alt |-> alt(s)]

keyboard_interrupt_sticky(s, e) ==
    IF e.code = "3a" THEN IF e.release THEN s ELSE [s EXCEPT !.caps_lock = ~ @]
    ELSE IF map_key(Keymap(s, e.code), e.code)
         THEN IF e.release THEN s
              ELSE IF e.code = "DEL" /\ ctrl(s) /\ alt(s) THEN [s EXCEPT !.rebooted = TRUE]
              ELSE [s EXCEPT !.input = Append(@, Character(s, Keymap(s, e.code)[e.code]))]
         ELSE IF e.code \in DOMAIN shift_keys THEN [s EXCEPT !.down[shift_keys[e.code]] = TRUE]
              ELSE s

\* The whole interrupt handler, with the input buffer of devices/input.c not full; after
\* shutdown_reboot nothing runs.
keyboard_interrupt(s, e) ==
    IF e.code = "3a" THEN IF e.release THEN s ELSE [s EXCEPT !.caps_lock = ~ @]
    ELSE IF map_key(Keymap(s, e.code), e.code)
         THEN IF e.release THEN s
              ELSE IF e.code = "DEL" /\ ctrl(s) /\ alt(s) THEN [s EXCEPT !.rebooted = TRUE]
              ELSE [s EXCEPT !.input = Append(@, Character(s, Keymap(s, e.code)[e.code]))]
         ELSE IF e.code \in DOMAIN shift_keys
              THEN [s EXCEPT !.down[shift_keys[e.code]] = ~ e.release]
              ELSE s
=============================================================================
