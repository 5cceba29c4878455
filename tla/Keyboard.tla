------------------------------ MODULE Keyboard ------------------------------
(***************************************************************************)
(* What keyboard_handler_main (devices/keyboard.c) makes of the bytes of   *)
(* the keyboard, as operators.  A key code of keyboard.h is a string: the  *)
(* character itself where the code is one (but GRAVE, COMMA, SEMICOLON and *)
(* SPACE), otherwise the name of the key without its KEY_ prefix.          *)
(***************************************************************************)
EXTENDS Integers, Sequences, SequencesExt

MASK_KEY_PRESS == 128
MAX_SCANCODE   == 58

(* The characters of keyboard.h that need no shift key, and that need one,  *)
(* letters apart.                                                           *)
Letters == <<"a", "b", "c", "d", "e", "f", "g", "h", "i", "j", "k", "l", "m",
             "n", "o", "p", "q", "r", "s", "t", "u", "v", "w", "x", "y", "z">>
Capitals == <<"A", "B", "C", "D", "E", "F", "G", "H", "I", "J", "K", "L", "M",
              "N", "O", "P", "Q", "R", "S", "T", "U", "V", "W", "X", "Y", "Z">>
DigitKeys == <<"0", "1", "2", "3", "4", "5", "6", "7", "8", "9">>
Marks == <<"COMMA", ".", "/", "SEMICOLON", "'", "[", "]", "GRAVE", "-", "=", "\\">>
OtherMarks == <<"+", "*", "!", "?", "\"", "#", "%", "&", "_", "(", ")", "{", "}",
                "$", "<", ">", "|", "~", "@", "^", ":">>

(* ' ' .. '~' *)
Printable == Range(Letters \o Capitals \o DigitKeys \o Marks \o OtherMarks) \cup {"SPACE"}

(* The keypad's keys have the codes of characters. *)
Keypad == [KP_0 |-> "0", KP_2 |-> "2", KP_3 |-> "3", KP_8 |-> "8",
           KP_DECIMAL |-> ".", KP_ASTERISK |-> "*"]

(* The flag that a modifier key sets.  (The two Ctrl keys are crossed.) *)
FlagOf == [LSHIFT |-> "l_shift_key", RSHIFT |-> "r_shift_key",
           LCTRL |-> "r_ctrl_key", RCTRL |-> "l_ctrl_key",
           LALT |-> "l_alt_key", RALT |-> "r_alt_key"]
Modifiers == DOMAIN FlagOf

(* The key of every scancode.  The entries after 0x49 are not where their   *)
(* comments say: there is none for 0x4a to 0x4f.                            *)
kybd_keys ==
    <<"UNKNOWN", "ESCAPE", "1", "2", "3", "4", "5", "6", "7", "8", "9", "0", "-", "=",
      "BACKSPACE", "TAB", "q", "w", "e", "r", "t", "y", "u", "i", "o", "p", "[", "]",
      "RETURN", "LCTRL", "a", "s", "d", "f", "g", "h", "j", "k", "l", "SEMICOLON", "'", "GRAVE",
      "LSHIFT", "\\", "z", "x", "c", "v", "b", "n", "m", "COMMA", ".", "/", "RSHIFT",
      Keypad.KP_ASTERISK, "RALT", "SPACE", "CAPSLOCK",
      "F1", "F2", "F3", "F4", "F5", "F6", "F7", "F8", "F9", "F10",
      "NUMLOCK", "SCROLLLOCK", "HOME", Keypad.KP_8, "PAGEUP", Keypad.KP_2, Keypad.KP_3,
      Keypad.KP_0, Keypad.KP_DECIMAL, "UNKNOWN", "UNKNOWN", "UNKNOWN", "F11", "F12">>

(* kybd_keys[scancode]; behind the end of the table it reads what the       *)
(* linker put there.                                                        *)
KeyCode(scancode, beyond) ==
    IF scancode < Len(kybd_keys) THEN kybd_keys[scancode + 1] ELSE beyond

(* The characters the number and punctuation keys give with a shift key. *)
Unshifted == DigitKeys \o Marks
Shifted_Swapped == <<")", "!", "@", "#", "$", "%", "^", "&", "*", "(",
                     "<", ">", "?", ":", "\"", "{", "{", "~", "_", "+", "|">>   \* variant
Shifted == <<")", "!", "@", "#", "$", "%", "^", "&", "*", "(",
             "<", ">", "?", ":", "\"", "{", "}", "~", "_", "+", "|">>

Translate(key, from, to) == to[CHOOSE i \in DOMAIN from : from[i] = key]

(* The character of a key with the given shift, ctrl, alt and caps_lock. *)
Character(key, shift, ctrl, alt, caps) ==
    IF (caps # shift) /\ ~alt /\ ~ctrl /\ key \in Range(Letters)
    THEN Translate(key, Letters, Capitals)
    ELSE IF shift /\ ~ctrl /\ ~alt /\ key \in Range(Unshifted)
    THEN Translate(key, Unshifted, Shifted)
    ELSE key

NoFlags == [f \in {FlagOf[k] : k \in Modifiers} |-> FALSE]

SetFlag_BothShifts(flags, key, pressed) ==     \* variant: one flag for both keys
    IF key = "RSHIFT" THEN [flags EXCEPT !.l_shift_key = pressed, !.r_shift_key = pressed]
    ELSE [flags EXCEPT ![FlagOf[key]] = pressed]

SetFlag(flags, key, pressed) == [flags EXCEPT ![FlagOf[key]] = pressed]

(* keyboard_handler_main for one byte: the flags and caps_lock it leaves,   *)
(* and what it does then.                                                   *)
Handled(byte, beyond, flags, caps) ==
    LET scancode == byte % MASK_KEY_PRESS
        pressed  == byte < MASK_KEY_PRESS
        key   == KeyCode(scancode, beyond)
        shift == flags.l_shift_key \/ flags.r_shift_key
        ctrl  == flags.l_ctrl_key \/ flags.r_ctrl_key
        alt   == flags.l_alt_key \/ flags.r_alt_key
        char  == Character(key, shift, ctrl, alt, caps)
        does(what, arg) == [flags |-> flags, caps |-> caps, does |-> what, arg |-> arg]
        nothing == does("nothing", "")
    IN  IF key \in Modifiers
        THEN [nothing EXCEPT !.flags = SetFlag(flags, key, pressed)]
        ELSE IF ~pressed THEN nothing
        ELSE IF key = "CAPSLOCK" THEN [nothing EXCEPT !.caps = ~caps]
        ELSE IF ~shift /\ ctrl /\ key = "l" THEN does("clear", "")
        ELSE IF ~ctrl /\ ~shift /\ alt /\ key \in {"F1", "F2", "F3"}
        THEN does("start_terminal", key)
        ELSE IF scancode <= MAX_SCANCODE /\ char \in Printable \cup {"BACKSPACE", "RETURN"}
        THEN does("update", char)
        ELSE nothing
=============================================================================
