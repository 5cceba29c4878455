------------------------------- MODULE Paging -------------------------------
(***************************************************************************)
(* The page directories (virtualmem.c) under the process core of module    *)
(* Kernel: execute builds the directory of the new process, vidmap opens   *)
(* the screen in it, and execute, halt and the PIT handler load one.       *)
(* Physical memory is the page of each terminal's screen and the 4 MB page *)
(* of each slot's program; the kernel's own page is the same everywhere.   *)
(***************************************************************************)
EXTENDS Kernel

VARIABLES
    pd,      \* the directory of every slot, and pd_first, that of Boot
    asked    \* the processes that have called vidmap since they started

pagingVars == <<vars, pd, asked>>

-----------------------------------------------------------------------------
(* virtualmem.c.  A directory is the number of the page tables that map the *)
(* screens for the kernel and for the user, whether the second is present,  *)
(* and the program page, NULL for none.                                     *)

(* The screen that page number k from VIDEO on shows by page table i.       *)
pt_vidmem(i, k) == IF k = 0 THEN i ELSE k - 1

pt_user_vidmem(i) == i

pd_init_KeepUser(old, t) ==       \* variant: does not clear the directory
    [kernel |-> t, user |-> t, present |-> old.present, program |-> NULL]

pd_init_First(old, t) ==          \* variant: always the tables of terminal 0
    [kernel |-> 0, user |-> 0, present |-> FALSE, program |-> NULL]

pd_init(old, t) == [kernel |-> t, user |-> t, present |-> FALSE, program |-> NULL]

set_pde_ByCount(d, pid) == [d EXCEPT !.program = proc_count']  \* variant

(* The program's page is the 4 MB of the slot. *)
set_pde(d, pid) == [d EXCEPT !.program = pid]

set_pde_flags(d) == [d EXCEPT !.present = TRUE]

(* The directory that execute makes; the new process is the one it starts.  *)
process_pd(pid) == set_pde(pd_init(pd[pid], term_num'[pid]), pid)

AfterExecute(executed) ==
    IF executed
    THEN /\ pd' = [pd EXCEPT ![esp'] = process_pd(esp')]
         /\ asked' = asked \ {esp'}
    ELSE UNCHANGED <<pd, asked>>

-----------------------------------------------------------------------------
(* vidmap with an address inside the program's page. *)
vidmap ==
    /\ InUser
    /\ pd' = [pd EXCEPT ![esp] = set_pde_flags(@)]
    /\ asked' = asked \cup {esp}
    /\ UNCHANGED vars

(* The steps that may run execute, which counts the new process. *)
Executes ==
    /\ \/ BootStart
       \/ \E t \in Terms : SwitchKey(t)
       \/ UserExecute
       \/ Pit
       \/ HaltJump
    /\ AfterExecute(proc_count' = proc_count + 1)

(* halt counts its own process down before it may run execute. *)
Halts == Halt /\ AfterExecute(proc_count' = proc_count)

Others ==
    /\ OpenRtc \/ CloseRtc \/ HaltClose \/ HaltSetPd \/ HaltSetTss \/ HaltSetActive \/ PitIdle
    /\ UNCHANGED <<pd, asked>>

PagingInit ==
    /\ Init
    /\ pd = [p \in Pids \cup {Boot} |->
               [kernel |-> 0, user |-> 0, present |-> FALSE, program |-> NULL]]
    /\ asked = {}

PagingNext == Executes \/ Halts \/ vidmap \/ Others

PagingSpec == PagingInit /\ [][PagingNext]_pagingVars

-----------------------------------------------------------------------------
(* What the running program, and the kernel on its behalf, write to the     *)
(* screen lands on the screen of the program's own terminal, whichever is   *)
(* displayed and whatever switches, execute calls and ends of shells race;  *)
(* and the kernel reaches the screen of every other terminal as well.       *)
OwnScreen ==
    esp \in Pids =>
        /\ pt_vidmem(pd[cr3].kernel, 0) = term_num[esp]
        /\ pt_user_vidmem(pd[cr3].user) = term_num[esp]
        /\ \A t \in Terms : pt_vidmem(pd[cr3].kernel, t + 1) = t

(* A program sees the screen in its address space exactly if it has called  *)
(* vidmap itself: what an earlier process of the slot, or its parent, had   *)
(* mapped is gone.                                                          *)
ScreenOnRequest == \A p \in Live : pd[p].present <=> p \in asked

(* No two live processes share a program page, and the CPU runs with the    *)
(* page of the process whose stack it runs on.                              *)
OwnMemory ==
    /\ \A p, q \in Live : pd[p].program = pd[q].program => p = q
    /\ esp \in Pids => pd[cr3].program = esp
=============================================================================
