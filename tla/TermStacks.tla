----------------------------- MODULE TermStacks -----------------------------
(***************************************************************************)
(* What the process core promises: every terminal has a stack of programs. *)
(* execute pushes onto the stack of the terminal of the caller, halt pops  *)
(* and so resumes exactly the program that called execute, the last        *)
(* program of a terminal is replaced by a new shell, and one terminal's    *)
(* top program has the CPU.  Displaying a terminal moves nothing.          *)
(***************************************************************************)
EXTENDS Integers, Sequences, SequencesExt

CONSTANTS Progs,   \* process identities
          Tty,     \* terminals
          NoTty    \* not a terminal

VARIABLES stack,   \* terminal -> stack of programs, top last
          onCpu,   \* the terminal whose top program runs
          shown    \* the displayed terminal

vars == <<stack, onCpu, shown>>

Fresh(p) == \A t \in Tty : p \notin ToSet(stack[t])

Init ==
    /\ stack = [t \in Tty |-> <<>>]
    /\ onCpu = NoTty
    /\ shown = NoTty

(* Display a terminal. *)
Show(t) == t # shown /\ shown' = t /\ UNCHANGED <<stack, onCpu>>

(* The first shell of the system appears on a terminal together with it. *)
First(t, p) ==
    /\ onCpu = NoTty
    /\ stack' = [stack EXCEPT ![t] = <<p>>]
    /\ onCpu' = t
    /\ shown' = t

(* A shell appears on the displayed terminal, which had none. *)
Launch(p) ==
    /\ shown # NoTty
    /\ stack[shown] = <<>>
    /\ Fresh(p)
    /\ stack' = [stack EXCEPT ![shown] = <<p>>]
    /\ onCpu' = shown
    /\ UNCHANGED shown

Call(p) ==
    /\ onCpu # NoTty
    /\ Fresh(p)
    /\ stack' = [stack EXCEPT ![onCpu] = Append(@, p)]
    /\ UNCHANGED <<onCpu, shown>>

Return ==
    /\ onCpu # NoTty
    /\ Len(stack[onCpu]) > 1
    /\ stack' = [stack EXCEPT ![onCpu] = Front(@)]
    /\ UNCHANGED <<onCpu, shown>>

(* The base shell ends; a new one, possibly in the same slot, follows. *)
Respawn(p) ==
    /\ onCpu # NoTty
    /\ Len(stack[onCpu]) = 1
    /\ Fresh(p) \/ stack[onCpu] = <<p>>
    /\ stack' = [stack EXCEPT ![onCpu] = <<p>>]
    /\ UNCHANGED <<onCpu, shown>>

Dispatch(t) ==
    /\ stack[t] # <<>>
    /\ onCpu' = t
    /\ UNCHANGED <<stack, shown>>

Next ==
    \/ \E t \in Tty : Show(t) \/ Dispatch(t) \/ \E p \in Progs : First(t, p)
    \/ \E p \in Progs : Launch(p) \/ Call(p) \/ Respawn(p)
    \/ Return

Spec == Init /\ [][Next]_vars
=============================================================================
