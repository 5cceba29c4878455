-------------------------- MODULE KernelRefinement --------------------------
(***************************************************************************)
(* The kernel implements TermStacks when the environment races nothing:    *)
(* the stack of a terminal is the chain of parent pointers that starts at  *)
(* its active process.                                                     *)
(***************************************************************************)
EXTENDS Kernel, Sequences

Parent(x) == IF x \in Pids THEN parent_pcb[x] ELSE NULL

(* The k-th ancestor of the active process of t. *)
Ancestor(t) ==
    LET up[k \in 0 .. MaxProcesses] ==
            IF k = 0 THEN active_processes[t] ELSE Parent(up[k - 1])
    IN  up

Depth(t) == Cardinality({k \in 0 .. MaxProcesses : Ancestor(t)[k] \in Pids})

StackOf(t) == [i \in 1 .. Depth(t) |-> Ancestor(t)[Depth(t) - i]]

TS == INSTANCE TermStacks WITH
        Progs <- Pids,
        Tty   <- Terms,
        NoTty <- None,
        stack <- [t \in Terms |-> StackOf(t)],
        onCpu <- IF esp \in Pids THEN term_num[esp] ELSE None,
        shown <- current_terminal

(* execute, halt and the scheduler behave as pushes, pops and dispatches on *)
(* one stack of programs per terminal: halt always resumes the program that *)
(* called execute, on its own terminal (sys_calls.c, pit.c).                *)
RefinesTermStacks == TS!Spec
=============================================================================
