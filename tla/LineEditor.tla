----------------------------- MODULE LineEditor -----------------------------
(***************************************************************************)
(* What a terminal promises to a program that reads whole lines: the user  *)
(* edits one line at a time; Enter hands the line, as edited, to the       *)
(* waiting reader, or discards it when nobody waits.                       *)
(***************************************************************************)
EXTENDS Integers, Sequences, SequencesExt

CONSTANTS Letters, Newline,
          Width        \* the longest line

VARIABLES line,        \* the line being edited
          waiting,     \* is a reader waiting for a line?
          entered,     \* the line on its way to the reader, or <<>>
          got          \* the last line a reader got

vars == <<line, waiting, entered, got>>

Init == line = <<>> /\ waiting = FALSE /\ entered = <<>> /\ got = <<>>

Type(c) ==
    /\ entered = <<>>
    /\ Len(line) < Width
    /\ line' = Append(line, c)
    /\ UNCHANGED <<waiting, entered, got>>

Erase ==
    /\ line # <<>>
    /\ line' = Front(line)
    /\ UNCHANGED <<waiting, entered, got>>

Enter ==
    /\ line' = <<>>
    /\ entered' = IF waiting THEN Append(line, Newline) ELSE <<>>
    /\ UNCHANGED <<waiting, got>>

Wait == ~waiting /\ waiting' = TRUE /\ UNCHANGED <<line, entered, got>>

Deliver ==
    /\ entered # <<>>
    /\ got' = entered
    /\ entered' = <<>>
    /\ waiting' = FALSE
    /\ UNCHANGED line

Next == (\E c \in Letters : Type(c)) \/ Erase \/ Enter \/ Wait \/ Deliver

Spec == Init /\ [][Next]_vars
=============================================================================
