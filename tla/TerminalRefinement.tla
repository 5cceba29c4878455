------------------------- MODULE TerminalRefinement -------------------------
(***************************************************************************)
(* The mapping under which module Terminal implements LineEditor: once     *)
(* Enter is hit the buffer is the entered line, before that it is the line *)
(* being edited.                                                           *)
(***************************************************************************)
EXTENDS Terminal

Taken == pc = "spin" /\ hit_enter

LE == INSTANCE LineEditor WITH
        Letters <- Chars,
        Newline <- NL,
        Width   <- LineBufMax - 2,
        line    <- IF Taken THEN <<>> ELSE Line(buf_count),
        waiting <- pc \in {"start", "spin"},
        entered <- IF Taken THEN Line(buf_count) ELSE <<>>,
        got     <- result

(* A program that reads whole lines gets exactly the lines the user edited  *)
(* and entered while it waited, in order and once each (update and          *)
(* terminal_read in devices/keyboard.c).                                    *)
RefinesLineEditor == LE!Spec
=============================================================================
