------------------------------- MODULE Kernel -------------------------------
(***************************************************************************)
(* The process and scheduling core of the kernel: the process table        *)
(* (process.c), execute and halt (sys_calls.c), the PIT interrupt that is  *)
(* the round-robin scheduler (devices/pit.c), the start and switch of      *)
(* terminals (start_terminal in devices/keyboard.c) and the boot.          *)
(*                                                                         *)
(* There is one CPU.  What interleaves is kernel code: every process has   *)
(* its own kernel stack, interrupt handlers and the bodies of execute and  *)
(* halt run with interrupts off on the stack of whatever they interrupted, *)
(* and the only window in which halt can be preempted is the one rtc_close *)
(* opens with its sti().  A stack is therefore named by its pid, Boot is   *)
(* the stack the kernel boots on, and a suspended control point (a frame)  *)
(* is described by the code that it will continue.                         *)
(***************************************************************************)
EXTENDS Integers, FiniteSets

CONSTANTS
    MaxProcesses,  \* MAX_PROCESSES, process.h
    MaxTerminals,  \* MAX_TERMINALS, devices/keyboard.h
    Races          \* which of the four racy orders the environment produces

RaceKinds == {"key", "exec", "halt", "rtc"}

ASSUME KernelAssumption ==
    /\ MaxProcesses \in Nat \ {0}
    /\ MaxTerminals \in Nat \ {0}
    /\ Races \subseteq RaceKinds

Pids  == 1 .. MaxProcesses
Terms == 0 .. MaxTerminals - 1
None  == -1        \* no active process; also current_terminal before boot
NULL  == 0         \* parent_pcb of a base shell
Boot  == 0         \* the boot stack, and pd_first, the boot page directory

(* What a suspended execute continues with when its program halts. *)
Frames == {"syscall",  \* return to the user program that called execute
           "pit",      \* the scheduling logic of pit_handler_main
           "halt",     \* the while(1) execute("shell") of halt
           "start",    \* the while(1) execute(shell) of start_terminal
           "gone"}     \* the stack of the frame has been given away

(* The steps of halt that are preemptible once rtc_close has run sti(). *)
Phases == {"user", "closed", "pdset", "tssset", "activeset"}

VARIABLES
    procs,             \* slot -> in use?
    proc_count,        \* uint32_t, read as two's complement when it wraps
    active_processes,  \* terminal -> pid or None
    current_terminal,  \* the displayed terminal
    next_execute,      \* is a shell scheduled for the next PIT interrupt?
    parent_pcb,        \* pcb field: pid of the parent or NULL
    term_num,          \* pcb field
    esp_parent,        \* pcb field esp_parent/ebp_parent: the frame it denotes
    context,           \* pcb field context.esp: does it denote the frame the
                       \* process is suspended in?
    cr3,               \* whose page directory is loaded
    tss_esp0,          \* on whose stack the next trap from user mode enters
    esp,               \* on whose stack the CPU runs
    pc,                \* pid -> phase
    rtc_users,         \* processes with an open RTC descriptor
    fate               \* "ok"; "wild": the CPU left the modelled code;
                       \* "hung": it spins for ever with interrupts off

tableVars == <<procs, proc_count>>
pcbVars   == <<parent_pcb, term_num, esp_parent>>
cpuVars   == <<cr3, tss_esp0, esp>>
termVars  == <<current_terminal, next_execute>>
vars == <<tableVars, active_processes, termVars, pcbVars, context, cpuVars,
          pc, rtc_users, fate>>

Live == {p \in Pids : procs[p]}

-----------------------------------------------------------------------------
(* process.c *)

(* Variant for the check of the checks: the count taken for a slot number. *)
AddProcess_ByCount(pr, pid) == pid = proc_count + 1

(* add_process: pid is the lowest free slot of the table pr. *)
AddProcess(pr, pid) == ~pr[pid] /\ \A q \in Pids : q < pid => pr[q]

TableFull(pr) == \A q \in Pids : pr[q]

delete_process_NoClear(pr, p) == pr   \* variant: only the count changes

delete_process(pr, p) == [pr EXCEPT ![p] = FALSE]

free_procs_OffByOne == 0 <= proc_count /\ proc_count <= MaxProcesses

(* free_procs compares unsigned: a wrapped count is larger than any bound. *)
free_procs == 0 <= proc_count /\ proc_count < MaxProcesses

get_active_process(act, t) == IF t \in Terms THEN act[t] ELSE None

set_active_process_Clear(t, p) ==                          \* variant: stores -1
    [active_processes EXCEPT ![t] = None]

set_active_process(t, p) == [active_processes EXCEPT ![t] = p]

-----------------------------------------------------------------------------
(* The parent and the terminal execute gives to the new process when it     *)
(* runs on stack stk: curr_terminal_running_process looks at the DISPLAYED  *)
(* terminal cur, not at the terminal of the caller.                         *)
curr_terminal_running_process(act, cur) == get_active_process(act, cur) # None

NewParent_MinusOne(stk, act, cur) ==    \* variant: -1, not NULL, means none
    IF curr_terminal_running_process(act, cur) THEN stk ELSE None

NewParent_Displayed(stk, act, cur) ==   \* variant: the displayed process
    IF curr_terminal_running_process(act, cur) THEN act[cur] ELSE NULL

NewParent(stk, act, cur) ==
    IF curr_terminal_running_process(act, cur) THEN stk ELSE NULL

NewTerminal(stk, act, cur) ==
    IF curr_terminal_running_process(act, cur) THEN term_num[stk] ELSE cur

(* execute of a valid program on stack stk, in the state given by the other *)
(* arguments; how is the frame left on stk.  The new process starts at the  *)
(* top of the kernel stack of its slot, so frames of an earlier occupant    *)
(* are gone.  Without a free slot execute returns -1.                       *)
Execute(stk, how, pr, n, act, cur, ctx) ==
    \E pid \in Pids :
        LET parent == NewParent(stk, act, cur)
            term   == NewTerminal(stk, act, cur)
        IN  /\ AddProcess(pr, pid)
            /\ procs' = [pr EXCEPT ![pid] = TRUE]
            /\ proc_count' = n + 1
            /\ parent_pcb' = [parent_pcb EXCEPT ![pid] = parent]
            /\ term_num' = [term_num EXCEPT ![pid] = term]
            /\ esp_parent' = [q \in Pids |->
                    IF q = pid
                    THEN IF parent = pid THEN "gone" ELSE how
                    ELSE IF parent_pcb[q] = pid THEN "gone" ELSE esp_parent[q]]
            /\ context' = [ctx EXCEPT ![pid] = "stale"]
            /\ active_processes' = [act EXCEPT ![term] = pid]
            /\ cr3' = pid
            /\ tss_esp0' = pid
            /\ esp' = pid
            /\ pc' = [pc EXCEPT ![pid] = "user"]

(* while(1) execute("shell") with interrupts off: without a slot it spins. *)
ExecuteLoop(stk, how, pr, n, act, cur, c, s) ==
    \/ Execute(stk, how, pr, n, act, cur, context) /\ UNCHANGED fate
    \/ /\ TableFull(pr)
       /\ fate' = "hung"
       /\ procs' = pr /\ proc_count' = n
       /\ active_processes' = act
       /\ cr3' = c /\ tss_esp0' = s /\ esp' = stk
       /\ UNCHANGED <<pcbVars, context, pc>>

-----------------------------------------------------------------------------
NextTerm_FromZero(t, j) == j % MaxTerminals   \* variant: not from the current

NextTerm(t, j) == (t + j) % MaxTerminals

LoadSpace_NoPd(p) == cr3' = cr3 /\ tss_esp0' = p   \* variant: no set_pd

LoadSpace(p) == cr3' = p /\ tss_esp0' = p

(* The scheduling logic of pit_handler_main for the interrupted process     *)
(* prev, with active processes act, saved contexts ctx and the loaded page  *)
(* directory and tss stack c and s.                                         *)
Schedule(prev, act, ctx, c, s) ==
    \/ /\ \A t \in Terms : act[t] = None   \* next is the pcb of pid -1
       /\ fate' = "wild"
       /\ cr3' = c /\ tss_esp0' = s /\ esp' = prev /\ context' = ctx
    \/ \E i \in 1 .. MaxTerminals :
         LET at(j) == act[NextTerm(term_num[prev], j)]
             next  == at(i)
         IN  /\ next # None
             /\ \A j \in 1 .. i - 1 : at(j) = None
             /\ esp' = next
             /\ context' = [ctx EXCEPT ![next] = "stale"]
             /\ IF next = prev
                THEN cr3' = c /\ tss_esp0' = s /\ UNCHANGED fate
                ELSE /\ LoadSpace(next)
                     /\ fate' = IF ctx[next] = "valid" THEN fate ELSE "wild"

-----------------------------------------------------------------------------
schedule_for_execution == next_execute' = TRUE

(* start_terminal(t).  A shell for a terminal without one is left to the    *)
(* next PIT interrupt, unless the displayed terminal had none either: then  *)
(* it is executed right here, on the stack the caller runs on.              *)
StartTerminal(t) ==
    /\ fate = "ok"
    /\ t # current_terminal
    /\ free_procs \/ active_processes[t] # None
    /\ current_terminal' = t
    /\ UNCHANGED rtc_users
    /\ \/ /\ active_processes[t] # None
          /\ UNCHANGED <<tableVars, active_processes, next_execute, pcbVars,
                         context, cpuVars, pc, fate>>
       \/ /\ active_processes[t] = None
          /\ get_active_process(active_processes, current_terminal) # None
          /\ schedule_for_execution
          /\ UNCHANGED <<tableVars, active_processes, pcbVars, context,
                         cpuVars, pc, fate>>
       \/ /\ active_processes[t] = None
          /\ get_active_process(active_processes, current_terminal) = None
          /\ ExecuteLoop(esp, "start", procs, proc_count, active_processes, t,
                         cr3, tss_esp0)
          /\ UNCHANGED next_execute

(* The last statement of entry(). *)
BootStart == esp = Boot /\ StartTerminal(0)

(* Alt+F1 .. Alt+F3: the keyboard interrupt on whatever stack is current.   *)
SwitchKey(t) ==
    /\ "key" \in Races \/ ~next_execute
    /\ StartTerminal(t)

-----------------------------------------------------------------------------
(* System calls of the running process. *)

InUser == fate = "ok" /\ esp \in Pids /\ pc[esp] = "user"

(* The execute system call naming a valid program.  (When the name is not   *)
(* one, or no slot is free, execute returns -1 and changes nothing.)        *)
UserExecute ==
    /\ InUser
    /\ "exec" \in Races \/ ~next_execute
    /\ Execute(esp, "syscall", procs, proc_count, active_processes,
               current_terminal, context)
    /\ UNCHANGED <<termVars, rtc_users, fate>>

(* open and close of the RTC device (rtc.c is modelled in module Rtc).      *)
OpenRtc ==
    /\ InUser
    /\ rtc_users' = rtc_users \cup {esp}
    /\ UNCHANGED <<tableVars, active_processes, termVars, pcbVars, context,
                   cpuVars, pc, fate>>

CloseRtc ==
    /\ InUser
    /\ esp \in rtc_users
    /\ rtc_users' = rtc_users \ {esp}
    /\ UNCHANGED <<tableVars, active_processes, termVars, pcbVars, context,
                   cpuVars, pc, fate>>

(* The jump of halt to halt_ret_label in the execute that suspended the     *)
(* parent q, which then continues according to its frame.                   *)
ReturnTo(q, pr, n, act, c, s) ==
    \/ /\ esp_parent[esp] = "syscall"
       /\ procs' = pr /\ proc_count' = n
       /\ active_processes' = act
       /\ cr3' = c /\ tss_esp0' = s /\ esp' = q
       /\ UNCHANGED <<pcbVars, context, pc, fate>>
    \/ /\ esp_parent[esp] = "pit"
       /\ procs' = pr /\ proc_count' = n
       /\ active_processes' = act
       /\ Schedule(q, act, context, c, s)
       /\ UNCHANGED <<pcbVars, pc>>
    \/ /\ esp_parent[esp] \in {"halt", "start"}
       /\ ExecuteLoop(q, esp_parent[esp], pr, n, act, current_terminal, c, s)
    \/ /\ esp_parent[esp] = "gone"
       /\ fate' = "wild"
       /\ procs' = pr /\ proc_count' = n
       /\ active_processes' = act
       /\ cr3' = c /\ tss_esp0' = s /\ esp' = q
       /\ UNCHANGED <<pcbVars, context, pc>>

BaseHaltAllowed ==
    "halt" \in Races \/ parent_pcb[esp] # NULL \/ term_num[esp] = current_terminal

(* halt, by the system call or from fault_handler after an exception: the   *)
(* slot is freed and the files are closed, then the parent is resumed; a    *)
(* base shell is replaced by a new shell.  Interrupts stay off when closing *)
(* the files does not turn the RTC off.                                     *)
Halt ==
    /\ InUser
    /\ rtc_users # {esp}
    /\ BaseHaltAllowed
    /\ rtc_users' = rtc_users \ {esp}
    /\ LET q  == parent_pcb[esp]
           pr == delete_process(procs, esp)
           n  == proc_count - 1
       IN  \/ /\ q # NULL
              /\ ReturnTo(q, pr, n, set_active_process(term_num[q], q), q, q)
           \/ /\ q = NULL
              /\ ExecuteLoop(esp, "halt", pr, n,
                             set_active_process(term_num[esp], None),
                             current_terminal, Boot, tss_esp0)
    /\ UNCHANGED termVars

(* halt of the last process that has the RTC open: rtc_close ends in sti(), *)
(* and each of the following assignments can be preempted.                  *)
HaltClose ==
    /\ "rtc" \in Races
    /\ InUser
    /\ rtc_users = {esp}
    /\ BaseHaltAllowed
    /\ procs' = delete_process(procs, esp)
    /\ proc_count' = proc_count - 1
    /\ rtc_users' = {}
    /\ pc' = [pc EXCEPT ![esp] = "closed"]
    /\ UNCHANGED <<active_processes, termVars, pcbVars, context, cpuVars, fate>>

At(phase) == fate = "ok" /\ esp \in Pids /\ pc[esp] = phase

HaltSetPd ==
    /\ At("closed")
    /\ cr3' = parent_pcb[esp]       \* set_pd(NULL) loads pd_first, Boot
    /\ pc' = [pc EXCEPT ![esp] = IF parent_pcb[esp] = NULL THEN "tssset" ELSE "pdset"]
    /\ UNCHANGED <<tableVars, active_processes, termVars, pcbVars, context,
                   tss_esp0, esp, rtc_users, fate>>

HaltSetTss ==
    /\ At("pdset")
    /\ tss_esp0' = parent_pcb[esp]
    /\ pc' = [pc EXCEPT ![esp] = "tssset"]
    /\ UNCHANGED <<tableVars, active_processes, termVars, pcbVars, context,
                   cr3, esp, rtc_users, fate>>

HaltSetActive ==
    /\ At("tssset")
    /\ LET q == parent_pcb[esp]
       IN  active_processes' =
             IF q = NULL THEN set_active_process(term_num[esp], None)
                         ELSE set_active_process(term_num[q], q)
    /\ pc' = [pc EXCEPT ![esp] = "activeset"]
    /\ UNCHANGED <<tableVars, termVars, pcbVars, context, cpuVars, rtc_users,
                   fate>>

HaltJump ==
    /\ At("activeset")
    /\ LET q == parent_pcb[esp]
       IN  \/ /\ q # NULL
              /\ ReturnTo(q, procs, proc_count, active_processes, cr3, tss_esp0)
           \/ /\ q = NULL
              /\ ExecuteLoop(esp, "halt", procs, proc_count, active_processes,
                             current_terminal, cr3, tss_esp0)
    /\ UNCHANGED <<termVars, rtc_users>>

-----------------------------------------------------------------------------
SavedContexts_None == context   \* variant: esp and ebp not stored

SavedContexts == [context EXCEPT ![esp] = "valid"]

(* pit_handler_main: nothing to switch without a process; else save the     *)
(* context of the interrupted process, launch a scheduled shell, and when   *)
(* there is none, or it cannot be launched, schedule.                       *)
PitIdle == fate = "ok" /\ proc_count = 0 /\ UNCHANGED vars

Pit_Busy ==    \* variant: launches the shell only when nothing else is active
    /\ fate = "ok"
    /\ proc_count # 0
    /\ esp \in Pids
    /\ LET alone == \A t \in Terms : active_processes[t] \in {None, esp}
       IN  \/ /\ next_execute /\ alone
              /\ Execute(esp, "pit", procs, proc_count, active_processes,
                         current_terminal, SavedContexts)
              /\ next_execute' = FALSE
              /\ UNCHANGED fate
           \/ /\ ~next_execute \/ ~alone
              /\ Schedule(esp, active_processes, SavedContexts, cr3, tss_esp0)
              /\ UNCHANGED <<tableVars, active_processes, pcbVars, pc, next_execute>>
    /\ UNCHANGED <<current_terminal, rtc_users>>

Pit ==
    /\ fate = "ok"
    /\ proc_count # 0
    /\ esp \in Pids
    /\ \/ /\ next_execute
          /\ Execute(esp, "pit", procs, proc_count, active_processes,
                     current_terminal, SavedContexts)
          /\ UNCHANGED fate
       \/ /\ ~next_execute \/ TableFull(procs)
          /\ Schedule(esp, active_processes, SavedContexts, cr3, tss_esp0)
          /\ UNCHANGED <<tableVars, active_processes, pcbVars, pc>>
    /\ next_execute' = FALSE
    /\ UNCHANGED <<current_terminal, rtc_users>>

-----------------------------------------------------------------------------
Init ==
    /\ procs = [p \in Pids |-> FALSE]
    /\ proc_count = 0
    /\ active_processes = [t \in Terms |-> None]
    /\ current_terminal = None
    /\ next_execute = FALSE
    /\ parent_pcb = [p \in Pids |-> NULL]
    /\ term_num = [p \in Pids |-> 0]
    /\ esp_parent = [p \in Pids |-> "gone"]
    /\ context = [p \in Pids |-> "stale"]
    /\ cr3 = Boot /\ tss_esp0 = Boot /\ esp = Boot
    /\ pc = [p \in Pids |-> "user"]
    /\ rtc_users = {}
    /\ fate = "ok"

Next ==
    \/ BootStart
    \/ \E t \in Terms : SwitchKey(t)
    \/ UserExecute
    \/ OpenRtc
    \/ CloseRtc
    \/ Halt
    \/ HaltClose
    \/ HaltSetPd
    \/ HaltSetTss
    \/ HaltSetActive
    \/ HaltJump
    \/ PitIdle
    \/ Pit

Spec == Init /\ [][Next]_vars

(* The PIT is rearmed on every path of its handler and user programs run    *)
(* with interrupts on; the boot code runs to its end.                       *)
FairSpec == Spec /\ WF_vars(BootStart) /\ WF_vars(Pit)

-----------------------------------------------------------------------------
TypeOK ==
    /\ procs \in [Pids -> BOOLEAN]
    /\ proc_count \in Int
    /\ active_processes \in [Terms -> Pids \cup {None}]
    /\ current_terminal \in Terms \cup {None}
    /\ next_execute \in BOOLEAN
    /\ parent_pcb \in [Pids -> Pids \cup {NULL}]
    /\ term_num \in [Pids -> Terms]
    /\ esp_parent \in [Pids -> Frames]
    /\ context \in [Pids -> {"valid", "stale"}]
    /\ cr3 \in Pids \cup {Boot}
    /\ tss_esp0 \in Pids \cup {Boot}
    /\ esp \in Pids \cup {Boot}
    /\ pc \in [Pids -> Phases]
    /\ rtc_users \subseteq Pids
    /\ fate \in {"ok", "wild", "hung"}

-----------------------------------------------------------------------------
(* Parts of the process tree. *)

(* What the scheduler can pick is alive and belongs to that terminal. *)
ActiveLive ==
    \A t \in Terms : active_processes[t] # None =>
        procs[active_processes[t]] /\ term_num[active_processes[t]] = t

(* A parent is alive, on the terminal of its child, and is not scheduled. *)
ParentWaits ==
    \A p \in Live : parent_pcb[p] # NULL =>
        /\ procs[parent_pcb[p]]
        /\ term_num[parent_pcb[p]] = term_num[p]
        /\ active_processes[term_num[p]] # parent_pcb[p]

OneChild ==
    \A p, q \in Live :
        parent_pcb[p] = parent_pcb[q] /\ parent_pcb[p] # NULL => p = q

OneBaseShell ==
    \A p, q \in Live :
        (/\ parent_pcb[p] = NULL
         /\ parent_pcb[q] = NULL
         /\ term_num[p] = term_num[q]) => p = q

LeafActive ==
    \A p \in Live :
        \/ active_processes[term_num[p]] = p
        \/ \E q \in Live : parent_pcb[q] = p

(* The live processes of a terminal form one chain of execute calls whose   *)
(* end, and nothing else, is the terminal's active process: execute, halt,  *)
(* the launch of shells and slot reuse never orphan a process, schedule a   *)
(* dead one or give a terminal two base shells (process.c, sys_calls.c).    *)
ProcessTree ==
    /\ ActiveLive
    /\ ParentWaits
    /\ OneChild
    /\ OneBaseShell
    /\ LeafActive

(* proc_count is the number of used slots whatever the interleaving of      *)
(* add_process, delete_process and the windows of halt; it is what          *)
(* free_procs and the idle test of the PIT handler rely on.                 *)
CountExact == proc_count = Cardinality(Live)

(* A terminal that has any live process has one the scheduler can pick.     *)
LiveHasActive == \A p \in Live : active_processes[term_num[p]] # None

(* The CPU runs on the stack of a live process that is the active one of    *)
(* its terminal (the boot stack before the first shell).                    *)
RunningActive ==
    esp \in Pids => procs[esp] /\ active_processes[term_num[esp]] = esp

(* The loaded page directory and the stack for the next trap belong to the  *)
(* process whose stack the CPU runs on: every path of execute, halt and the *)
(* PIT handler that changes one changes all three.                          *)
AddressSpace == cr3 = esp /\ tss_esp0 = esp

(* Every context the scheduler may switch to was saved when its process was *)
(* suspended, every frame halt may return to still exists, and so the CPU   *)
(* never leaves the kernel's code and never spins without a slot.           *)
SavedContext ==
    \A t \in Terms :
        active_processes[t] # None /\ active_processes[t] # esp =>
            context[active_processes[t]] = "valid"

FramesWait ==
    \A p \in Live : parent_pcb[p] # NULL => esp_parent[p] = "syscall"

ControlSafe == fate = "ok" /\ SavedContext /\ FramesWait

(* A shell is scheduled exactly while the displayed terminal has none, and  *)
(* the slot start_terminal found free is still free when the PIT launches   *)
(* the shell (free_procs is tested at the key press, add_process runs at    *)
(* the next PIT interrupt).                                                 *)
PendingShell ==
    esp \in Pids =>
        /\ current_terminal # None
        /\ next_execute <=> active_processes[current_terminal] = None
        /\ next_execute => ~TableFull(procs)

(* Before the first shell nothing is in use. *)
BootEmpty ==
    esp = Boot => /\ Live = {}
                  /\ current_terminal = None
                  /\ ~next_execute
                  /\ \A t \in Terms : active_processes[t] = None

(* Outside the window of rtc_close no process is seen inside halt. *)
NoHaltWindow == \A p \in Pids : pc[p] = "user"

(* Round robin: the terminal of an active process gets the CPU again and    *)
(* again, whatever the other terminals execute (pit_handler_main).          *)
EveryTerminalRuns ==
    \A t \in Terms :
        active_processes[t] # None ~> (esp \in Pids /\ term_num[esp] = t)

(* A terminal that is displayed without a shell gets one (start_terminal,   *)
(* schedule_for_execution), unless the user switches away first.            *)
ShownTerminalGetsShell ==
    \A t \in Terms :
        current_terminal = t /\ active_processes[t] = None ~>
            \/ active_processes[t] # None
            \/ current_terminal # t
            \/ fate # "ok"

(* execute hands the CPU to the new program until it terminates: the caller *)
(* is not one of the processes the scheduler may pick meanwhile.            *)
ExecuteHandsOff ==
    [][UserExecute => \A t \in Terms : active_processes'[t] # esp]_vars
=============================================================================
