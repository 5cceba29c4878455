------------------------------- MODULE MCBoot -------------------------------
(***************************************************************************)
(* Boot for TLC: both Shift and both Ctrl keys, Alt, CapsLock, Enter, F2   *)
(* and a key whose code is behind the end of kybd_keys.                    *)
(***************************************************************************)
EXTENDS Boot

Key(e, c) == [ext |-> e, code |-> c]

MCPhysKeys ==
    {Key(FALSE, 42), Key(FALSE, 54), Key(FALSE, 29), Key(TRUE, 29), Key(FALSE, 56),
     Key(FALSE, 28), Key(FALSE, 58), Key(FALSE, 60),
     Key(TRUE, 91)}

MCEarlyKeys == {Key(FALSE, 38)}
=============================================================================
