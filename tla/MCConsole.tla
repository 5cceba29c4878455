----------------------------- MODULE MCConsole -----------------------------
(***************************************************************************)
(* Console for TLC: rows of two cells, so that a line of two characters    *)
(* wraps, six of them, so that the message of a fault just fits and        *)
(* newlines scroll, and bytes of four values, so that a cursor position    *)
(* needs both of its registers.  Keys move the cursor to either column     *)
(* before the program writes.                                              *)
(***************************************************************************)
EXTENDS Console

MCTexts == {<<CHOOSE c \in Chars : TRUE, NL>>}

MCExceptions == {[int_no |-> 13, message |-> <<"G">>, err_code |-> 0]}

MCOtherCursors == {[x |-> 1, y |-> 2]}
=============================================================================
