---------------------------- MODULE KernelProofs ----------------------------
(***************************************************************************)
(* Proofs about module Kernel, for every number of processes and terminals.*)
(***************************************************************************)
EXTENDS KernelRefinement, FiniteSetTheorems, WellFoundedInduction, SequenceTheorems, TLAPS

(* These only name an update; the proofs always see through them. *)
USE DEF delete_process, set_active_process, SavedContexts, LoadSpace,
        schedule_for_execution

-----------------------------------------------------------------------------
(* Typing. *)

(* The scan of pit_handler_main stays inside the terminals: the index       *)
(* (running_term + i) % MAX_TERMINALS is a terminal.                        *)
LEMMA ModRange ==
    ASSUME NEW t \in Terms, NEW j \in 1 .. MaxTerminals
    PROVE  NextTerm(t, j) \in Terms
  BY KernelAssumption DEF Terms, NextTerm

(* A process runs only once a terminal is displayed; this is what types the *)
(* terminal that execute gives to a base shell.                             *)
TypeInv == TypeOK /\ (esp \in Pids => current_terminal \in Terms)

(* execute keeps the types of everything it writes. *)
LEMMA ExecuteType ==
    ASSUME TypeOK,
           NEW stk \in Pids \cup {Boot}, NEW how \in Frames,
           NEW pr \in [Pids -> BOOLEAN], NEW n \in Int,
           NEW act \in [Terms -> Pids \cup {None}], NEW cur \in Terms,
           NEW ctx \in [Pids -> {"valid", "stale"}],
           stk = Boot => act[cur] = None,
           Execute(stk, how, pr, n, act, cur, ctx)
    PROVE  /\ procs' \in [Pids -> BOOLEAN]
           /\ proc_count' \in Int
           /\ active_processes' \in [Terms -> Pids \cup {None}]
           /\ parent_pcb' \in [Pids -> Pids \cup {NULL}]
           /\ term_num' \in [Pids -> Terms]
           /\ esp_parent' \in [Pids -> Frames]
           /\ context' \in [Pids -> {"valid", "stale"}]
           /\ cr3' \in Pids /\ tss_esp0' \in Pids /\ esp' \in Pids
           /\ pc' \in [Pids -> Phases]
  <1> DEFINE parent == NewParent(stk, act, cur)
             term   == NewTerminal(stk, act, cur)
  <1>1. PICK pid \in Pids :
          /\ procs' = [pr EXCEPT ![pid] = TRUE]
          /\ proc_count' = n + 1
          /\ parent_pcb' = [parent_pcb EXCEPT ![pid] = parent]
          /\ term_num' = [term_num EXCEPT ![pid] = term]
          /\ esp_parent' = [q \in Pids |->
                  IF q = pid
                  THEN IF parent = pid THEN "gone" ELSE how
                  ELSE IF parent_pcb[q] = pid THEN "gone" ELSE esp_parent[q]]
          /\ context' = [ctx EXCEPT ![pid] = "stale"]
          /\ active_processes' = [act EXCEPT ![term] = pid]
          /\ cr3' = pid
          /\ tss_esp0' = pid
          /\ esp' = pid
          /\ pc' = [pc EXCEPT ![pid] = "user"]
    BY DEF Execute
  <1>2. act[cur] # None => stk \in Pids
    OBVIOUS
  <1>3. parent \in Pids \cup {NULL} /\ term \in Terms
    BY <1>2 DEF TypeOK, NewParent, NewTerminal, curr_terminal_running_process,
       get_active_process
  <1> HIDE DEF parent, term
  <1> QED
    BY <1>1, <1>3 DEF TypeOK, Frames, Phases

(* So does the scheduling logic. *)
LEMMA ScheduleType ==
    ASSUME TypeOK,
           NEW prev \in Pids,
           NEW act \in [Terms -> Pids \cup {None}],
           NEW ctx \in [Pids -> {"valid", "stale"}],
           NEW c \in Pids \cup {Boot}, NEW s \in Pids \cup {Boot},
           Schedule(prev, act, ctx, c, s)
    PROVE  /\ esp' \in Pids
           /\ cr3' \in Pids \cup {Boot} /\ tss_esp0' \in Pids \cup {Boot}
           /\ context' \in [Pids -> {"valid", "stale"}]
           /\ fate' \in {"ok", "wild", "hung"}
  <1>1. CASE \A t \in Terms : act[t] = None
    <2>1. \A i \in 1 .. MaxTerminals :
            act[NextTerm(term_num[prev], i)] = None
      BY <1>1, ModRange DEF TypeOK
    <2> QED BY <2>1 DEF Schedule
  <1>2. CASE \E t \in Terms : act[t] # None
    <2>1. PICK i \in 1 .. MaxTerminals :
            LET next == act[NextTerm(term_num[prev], i)]
            IN  /\ next # None
                /\ esp' = next
                /\ context' = [ctx EXCEPT ![next] = "stale"]
                /\ IF next = prev
                   THEN cr3' = c /\ tss_esp0' = s /\ UNCHANGED fate
                   ELSE /\ cr3' = next
                        /\ tss_esp0' = next
                        /\ fate' = IF ctx[next] = "valid" THEN fate ELSE "wild"
      BY <1>2, Zenon DEF Schedule
    <2>2. act[NextTerm(term_num[prev], i)] \in Pids \cup {None}
      BY ModRange DEF TypeOK
    <2> QED BY <2>1, <2>2 DEF TypeOK
  <1> QED BY <1>1, <1>2

(* The loops around execute. *)
LEMMA ExecuteLoopType ==
    ASSUME TypeInv,
           NEW stk \in Pids \cup {Boot}, NEW how \in Frames,
           NEW pr \in [Pids -> BOOLEAN], NEW n \in Int,
           NEW act \in [Terms -> Pids \cup {None}], NEW cur \in Terms,
           NEW c \in Pids \cup {Boot}, NEW s \in Pids \cup {Boot},
           stk = Boot => act[cur] = None,
           ExecuteLoop(stk, how, pr, n, act, cur, c, s),
           current_terminal' \in Terms, next_execute' \in BOOLEAN,
           rtc_users' \subseteq Pids
    PROVE  TypeInv'
  <1>1. CASE Execute(stk, how, pr, n, act, cur, context) /\ UNCHANGED fate
    <2>1. TypeOK
      BY DEF TypeInv
    <2>2. context \in [Pids -> {"valid", "stale"}]
      BY DEF TypeInv, TypeOK
    <2>3. /\ procs' \in [Pids -> BOOLEAN]
          /\ proc_count' \in Int
          /\ active_processes' \in [Terms -> Pids \cup {None}]
          /\ parent_pcb' \in [Pids -> Pids \cup {NULL}]
          /\ term_num' \in [Pids -> Terms]
          /\ esp_parent' \in [Pids -> Frames]
          /\ context' \in [Pids -> {"valid", "stale"}]
          /\ cr3' \in Pids /\ tss_esp0' \in Pids /\ esp' \in Pids
          /\ pc' \in [Pids -> Phases]
      BY <1>1, <2>1, <2>2, ExecuteType
    <2> QED BY <1>1, <2>3 DEF TypeInv, TypeOK
  <1>2. CASE ~(Execute(stk, how, pr, n, act, cur, context) /\ UNCHANGED fate)
    BY <1>2 DEF ExecuteLoop, TypeInv, TypeOK, pcbVars
  <1> QED BY <1>1, <1>2

(* start_terminal, called from the boot code or the keyboard interrupt. *)
LEMMA StartTerminalType ==
    ASSUME TypeInv, NEW t \in Terms, StartTerminal(t)
    PROVE  TypeInv'
  <1>1. CASE UNCHANGED <<tableVars, active_processes, pcbVars, context,
                         cpuVars, pc, fate>> /\ next_execute' \in BOOLEAN
    BY <1>1 DEF StartTerminal, TypeInv, TypeOK, tableVars, pcbVars, cpuVars
  <1>2. CASE /\ active_processes[t] = None
             /\ ExecuteLoop(esp, "start", procs, proc_count, active_processes,
                            t, cr3, tss_esp0)
             /\ UNCHANGED next_execute
    <2>1. /\ esp \in Pids \cup {Boot} /\ "start" \in Frames
          /\ procs \in [Pids -> BOOLEAN] /\ proc_count \in Int
          /\ active_processes \in [Terms -> Pids \cup {None}]
          /\ cr3 \in Pids \cup {Boot} /\ tss_esp0 \in Pids \cup {Boot}
      BY DEF TypeInv, TypeOK, Frames
    <2>2. /\ current_terminal' \in Terms /\ next_execute' \in BOOLEAN
          /\ rtc_users' \subseteq Pids
      BY <1>2 DEF StartTerminal, TypeInv, TypeOK
    <2> QED BY <1>2, <2>1, <2>2, ExecuteLoopType
  <1>3. next_execute \in BOOLEAN
    BY DEF TypeInv, TypeOK
  <1> QED BY <1>1, <1>2, <1>3 DEF StartTerminal

(* The return of halt into the execute of the parent q. *)
LEMMA ReturnToType ==
    ASSUME TypeInv, esp \in Pids, NEW q \in Pids,
           NEW pr \in [Pids -> BOOLEAN], NEW n \in Int,
           NEW act \in [Terms -> Pids \cup {None}],
           NEW c \in Pids \cup {Boot}, NEW s \in Pids \cup {Boot},
           ReturnTo(q, pr, n, act, c, s),
           UNCHANGED termVars, rtc_users' \subseteq Pids
    PROVE  TypeInv'
  <1> USE DEF termVars
  <1>1. CASE esp_parent[esp] \in {"syscall", "gone"}
    BY <1>1 DEF ReturnTo, TypeInv, TypeOK, pcbVars
  <1>2. CASE esp_parent[esp] = "pit"
    <2>1. TypeOK /\ context \in [Pids -> {"valid", "stale"}]
      BY DEF TypeInv, TypeOK
    <2>2. /\ Schedule(q, act, context, c, s)
          /\ procs' = pr /\ proc_count' = n /\ active_processes' = act
          /\ UNCHANGED <<pcbVars, pc>>
      BY <1>2 DEF ReturnTo
    <2>3. /\ esp' \in Pids
          /\ cr3' \in Pids \cup {Boot} /\ tss_esp0' \in Pids \cup {Boot}
          /\ context' \in [Pids -> {"valid", "stale"}]
          /\ fate' \in {"ok", "wild", "hung"}
      BY <2>1, <2>2, ScheduleType
    <2> QED BY <2>2, <2>3 DEF TypeInv, TypeOK, pcbVars
  <1>3. CASE esp_parent[esp] \in {"halt", "start"}
    <2>1. ExecuteLoop(q, esp_parent[esp], pr, n, act, current_terminal, c, s)
      BY <1>3 DEF ReturnTo
    <2>2. /\ esp_parent[esp] \in Frames
          /\ current_terminal \in Terms /\ current_terminal' \in Terms
          /\ next_execute' \in BOOLEAN
          /\ q \in Pids \cup {Boot} /\ q # Boot
      BY DEF TypeInv, TypeOK, Boot, Pids
    <2> QED BY <2>1, <2>2, ExecuteLoopType
  <1>4. esp_parent[esp] \in Frames
    BY DEF TypeInv, TypeOK
  <1> QED BY <1>1, <1>2, <1>3, <1>4 DEF Frames

(* pit_handler_main. *)
LEMMA PitType ==
    ASSUME TypeInv, Pit
    PROVE  TypeInv'
  <1> DEFINE saved == SavedContexts
  <1>1. /\ TypeOK /\ esp \in Pids /\ current_terminal \in Terms
        /\ saved \in [Pids -> {"valid", "stale"}]
        /\ procs \in [Pids -> BOOLEAN] /\ proc_count \in Int
        /\ active_processes \in [Terms -> Pids \cup {None}]
        /\ cr3 \in Pids \cup {Boot} /\ tss_esp0 \in Pids \cup {Boot}
    BY DEF TypeInv, TypeOK, Pit
  <1>2. /\ next_execute' = FALSE /\ UNCHANGED <<current_terminal, rtc_users>>
    BY DEF Pit
  <1>3. CASE /\ Execute(esp, "pit", procs, proc_count, active_processes,
                        current_terminal, saved)
             /\ UNCHANGED fate
    <2>1. "pit" \in Frames /\ esp # Boot /\ esp \in Pids \cup {Boot}
      BY <1>1 DEF Frames, Boot, Pids
    <2> HIDE DEF saved
    <2>2. /\ procs' \in [Pids -> BOOLEAN]
          /\ proc_count' \in Int
          /\ active_processes' \in [Terms -> Pids \cup {None}]
          /\ parent_pcb' \in [Pids -> Pids \cup {NULL}]
          /\ term_num' \in [Pids -> Terms]
          /\ esp_parent' \in [Pids -> Frames]
          /\ context' \in [Pids -> {"valid", "stale"}]
          /\ cr3' \in Pids /\ tss_esp0' \in Pids /\ esp' \in Pids
          /\ pc' \in [Pids -> Phases]
      BY <1>1, <1>3, <2>1, ExecuteType
    <2> QED BY <1>1, <1>2, <1>3, <2>2 DEF TypeInv, TypeOK
  <1>4. CASE /\ Schedule(esp, active_processes, saved, cr3, tss_esp0)
             /\ UNCHANGED <<tableVars, active_processes, pcbVars, pc>>
    <2> HIDE DEF saved
    <2>1. /\ esp' \in Pids
          /\ cr3' \in Pids \cup {Boot} /\ tss_esp0' \in Pids \cup {Boot}
          /\ context' \in [Pids -> {"valid", "stale"}]
          /\ fate' \in {"ok", "wild", "hung"}
      BY <1>1, <1>4, ScheduleType
    <2> QED BY <1>1, <1>2, <1>4, <2>1 DEF TypeInv, TypeOK, tableVars, pcbVars
  <1> QED BY <1>3, <1>4 DEF Pit

(* Both forms of halt. *)
LEMMA HaltType ==
    ASSUME TypeInv, Halt \/ HaltJump
    PROVE  TypeInv'
  <1> DEFINE q == parent_pcb[esp]
             gone == delete_process(procs, esp)
             back == set_active_process(term_num[q], q)
             bare == set_active_process(term_num[esp], None)
  <1>1. /\ esp \in Pids /\ esp # Boot /\ current_terminal \in Terms
        /\ q \in Pids \cup {NULL}
        /\ procs \in [Pids -> BOOLEAN] /\ gone \in [Pids -> BOOLEAN]
        /\ proc_count \in Int /\ proc_count - 1 \in Int
        /\ active_processes \in [Terms -> Pids \cup {None}]
        /\ bare \in [Terms -> Pids \cup {None}]
        /\ cr3 \in Pids \cup {Boot} /\ tss_esp0 \in Pids \cup {Boot}
        /\ rtc_users' \subseteq Pids /\ UNCHANGED termVars
        /\ current_terminal' \in Terms /\ next_execute' \in BOOLEAN
        /\ "halt" \in Frames /\ Boot \in Pids \cup {Boot}
    <2>1. esp \in Pids /\ UNCHANGED termVars
      BY DEF Halt, HaltJump, InUser, At
    <2>2. rtc_users' \subseteq Pids
      BY DEF Halt, HaltJump, TypeInv, TypeOK
    <2> QED BY <2>1, <2>2 DEF TypeInv, TypeOK, Boot, Pids, termVars, Frames
  <1>2. CASE q # NULL
    <2>1. q \in Pids /\ back \in [Terms -> Pids \cup {None}]
      BY <1>1, <1>2 DEF TypeInv, TypeOK
    <2>2. \/ ReturnTo(q, gone, proc_count - 1, back, q, q)
          \/ ReturnTo(q, procs, proc_count, active_processes, cr3, tss_esp0)
      BY <1>2 DEF Halt, HaltJump
    <2> HIDE DEF q, gone, back, bare
    <2>3. q \in Pids \cup {Boot}
      BY <2>1
    <2> QED BY <1>1, <2>1, <2>2, <2>3, ReturnToType
  <1>3. CASE q = NULL
    <2>1. \/ ExecuteLoop(esp, "halt", gone, proc_count - 1, bare,
                         current_terminal, Boot, tss_esp0)
          \/ ExecuteLoop(esp, "halt", procs, proc_count, active_processes,
                         current_terminal, cr3, tss_esp0)
      BY <1>3 DEF Halt, HaltJump
    <2> HIDE DEF q, gone, back, bare
    <2>2. esp \in Pids \cup {Boot}
      BY <1>1
    <2> QED BY <1>1, <2>1, <2>2, ExecuteLoopType
  <1> QED BY <1>2, <1>3

(* Every step keeps the types, whatever races. *)
LEMMA TypeInvStep == TypeInv /\ [Next]_vars => TypeInv'
  <1> SUFFICES ASSUME TypeInv, [Next]_vars PROVE TypeInv'
    OBVIOUS
  <1>1. CASE BootStart
    <2>1. 0 \in Terms
      BY KernelAssumption DEF Terms
    <2> QED BY <1>1, <2>1, StartTerminalType DEF BootStart
  <1>2. ASSUME NEW t \in Terms, SwitchKey(t) PROVE TypeInv'
    BY <1>2, StartTerminalType DEF SwitchKey
  <1>3. CASE UserExecute
    <2>1. /\ TypeOK /\ esp \in Pids /\ esp \in Pids \cup {Boot} /\ esp # Boot
          /\ "syscall" \in Frames /\ current_terminal \in Terms
          /\ procs \in [Pids -> BOOLEAN] /\ proc_count \in Int
          /\ active_processes \in [Terms -> Pids \cup {None}]
          /\ context \in [Pids -> {"valid", "stale"}]
      BY <1>3 DEF UserExecute, InUser, TypeInv, TypeOK, Frames, Boot, Pids
    <2>2. /\ Execute(esp, "syscall", procs, proc_count, active_processes,
                     current_terminal, context)
          /\ UNCHANGED <<termVars, rtc_users, fate>>
      BY <1>3 DEF UserExecute
    <2>3. /\ procs' \in [Pids -> BOOLEAN]
          /\ proc_count' \in Int
          /\ active_processes' \in [Terms -> Pids \cup {None}]
          /\ parent_pcb' \in [Pids -> Pids \cup {NULL}]
          /\ term_num' \in [Pids -> Terms]
          /\ esp_parent' \in [Pids -> Frames]
          /\ context' \in [Pids -> {"valid", "stale"}]
          /\ cr3' \in Pids /\ tss_esp0' \in Pids /\ esp' \in Pids
          /\ pc' \in [Pids -> Phases]
      BY <2>1, <2>2, ExecuteType
    <2> QED BY <2>1, <2>2, <2>3 DEF TypeInv, TypeOK, termVars
  <1>4. CASE OpenRtc \/ CloseRtc \/ HaltClose
    <2>1. rtc_users' \subseteq Pids
      BY <1>4 DEF OpenRtc, CloseRtc, HaltClose, InUser, TypeInv, TypeOK
    <2>2. CASE OpenRtc \/ CloseRtc
      BY <2>1, <2>2 DEF OpenRtc, CloseRtc, TypeInv, TypeOK, tableVars, pcbVars,
                        termVars, cpuVars
    <2>3. CASE HaltClose
      BY <2>1, <2>3 DEF HaltClose, InUser, TypeInv, TypeOK, Phases, pcbVars,
                        termVars, cpuVars
    <2> QED BY <1>4, <2>2, <2>3
  <1>5. CASE HaltSetPd \/ HaltSetTss \/ HaltSetActive
    BY <1>5 DEF HaltSetPd, HaltSetTss, HaltSetActive, At, TypeInv, TypeOK,
                Phases, Boot, NULL, tableVars, pcbVars, termVars, cpuVars
  <1>6. CASE Halt \/ HaltJump
    BY <1>6, HaltType
  <1>7. CASE Pit
    BY <1>7, PitType
  <1>8. CASE PitIdle \/ UNCHANGED vars
    BY <1>8 DEF PitIdle, vars, TypeInv, TypeOK, tableVars, pcbVars, termVars,
                cpuVars
  <1> QED
    BY <1>1, <1>2, <1>3, <1>4, <1>5, <1>6, <1>7, <1>8 DEF Next

(* The kernel boots in a well-typed state. *)
LEMMA TypeInvInit == Init => TypeInv
  <1> SUFFICES ASSUME Init PROVE TypeInv
    OBVIOUS
  <1>1. /\ procs \in [Pids -> BOOLEAN]
        /\ next_execute \in BOOLEAN
        /\ rtc_users \subseteq Pids
    BY Zenon DEF Init
  <1>2. term_num \in [Pids -> Terms]
    BY KernelAssumption DEF Init, Terms
  <1>3. esp \notin Pids
    BY KernelAssumption DEF Init, Boot, Pids
  <1> QED BY <1>1, <1>2, <1>3 DEF Init, TypeInv, TypeOK, Frames, Phases

(* The variables always have their types: in particular no index of         *)
(* active_processes, no pcb pointer and no stack ever leaves its range, in  *)
(* every environment.                                                       *)
THEOREM TypeCorrect == Spec => []TypeOK
  <1>1. TypeInv => TypeOK
    BY DEF TypeInv
  <1> QED BY <1>1, TypeInvInit, TypeInvStep, PTL DEF Spec

-----------------------------------------------------------------------------
(* The process tree.  Keys and execute calls may race with a scheduled      *)
(* shell, but base shells halt on the displayed terminal only and the last  *)
(* user of the RTC closes it before it halts.                               *)

(* Only execute calls made by a program or by the PIT handler leave a frame *)
(* that a child returns to; the loops around execute start base shells.     *)
ParentFrames ==
    \A p \in Live : parent_pcb[p] # NULL => esp_parent[p] \in {"syscall", "pit"}

(* The parts of the invariant that talk about the table and the pcbs ... *)
TableInv ==
    /\ ProcessTree
    /\ LiveHasActive
    /\ ParentFrames
    /\ CountExact

(* ... and the ones that talk about the CPU. *)
CpuInv ==
    /\ NoHaltWindow
    /\ RunningActive
    /\ AddressSpace
    /\ BootEmpty

TreeInv == TypeInv /\ TableInv /\ CpuInv

Used(pr) == {p \in Pids : pr[p]}

(* The tree, as it must be in the middle of a handler before execute runs   *)
(* there with the table pr and the active processes act: all of it holds    *)
(* except that terminal cur may have lost its only shell.                   *)
ReadyFor(pr, act, cur) ==
    /\ \A t \in Terms : act[t] # None => pr[act[t]] /\ term_num[act[t]] = t
    /\ \A p \in Used(pr) : parent_pcb[p] # NULL =>
            /\ pr[parent_pcb[p]]
            /\ term_num[parent_pcb[p]] = term_num[p]
            /\ act[term_num[p]] # parent_pcb[p]
            /\ esp_parent[p] \in {"syscall", "pit"}
    /\ \A p, q \in Used(pr) :
            parent_pcb[p] = parent_pcb[q] /\ parent_pcb[p] # NULL => p = q
    /\ \A p, q \in Used(pr) :
            (/\ parent_pcb[p] = NULL
             /\ parent_pcb[q] = NULL
             /\ term_num[p] = term_num[q]) => p = q
    /\ \A p \in Used(pr) :
            act[term_num[p]] = p \/ \E q \in Used(pr) : parent_pcb[q] = p
    /\ \A p \in Used(pr) : act[term_num[p]] = None =>
            term_num[p] = cur /\ parent_pcb[p] # NULL

(* The number of used slots is finite and below the bound while one is free. *)
LEMMA UsedFinite ==
    ASSUME NEW pr \in [Pids -> BOOLEAN]
    PROVE  IsFiniteSet(Used(pr))
  <1>1. IsFiniteSet(Pids)
    BY KernelAssumption, FS_Interval DEF Pids
  <1>2. Used(pr) \in SUBSET Pids
    BY DEF Used
  <1> QED BY <1>1, <1>2, FS_Subset

(* execute extends a tree that is ready for it by one leaf, and runs it.    *)
LEMMA ExecuteTree ==
    ASSUME TypeOK, NoHaltWindow,
           NEW stk \in Pids \cup {Boot}, NEW how \in Frames,
           NEW pr \in [Pids -> BOOLEAN], NEW n \in Int,
           NEW act \in [Terms -> Pids \cup {None}], NEW cur \in Terms,
           NEW ctx \in [Pids -> {"valid", "stale"}],
           ReadyFor(pr, act, cur),
           n = Cardinality(Used(pr)),
           act[cur] # None => /\ stk \in Pids
                              /\ pr[stk]
                              /\ act[term_num[stk]] = stk
                              /\ how \in {"syscall", "pit"},
           Execute(stk, how, pr, n, act, cur, ctx)
    PROVE  TableInv' /\ CpuInv'
  <1> DEFINE parent == NewParent(stk, act, cur)
             term   == NewTerminal(stk, act, cur)
  <1>1. PICK pid \in Pids :
          /\ AddProcess(pr, pid)
          /\ procs' = [pr EXCEPT ![pid] = TRUE]
          /\ proc_count' = n + 1
          /\ parent_pcb' = [parent_pcb EXCEPT ![pid] = parent]
          /\ term_num' = [term_num EXCEPT ![pid] = term]
          /\ esp_parent' = [q \in Pids |->
                  IF q = pid
                  THEN IF parent = pid THEN "gone" ELSE how
                  ELSE IF parent_pcb[q] = pid THEN "gone" ELSE esp_parent[q]]
          /\ active_processes' = [act EXCEPT ![term] = pid]
          /\ cr3' = pid
          /\ tss_esp0' = pid
          /\ esp' = pid
          /\ pc' = [pc EXCEPT ![pid] = "user"]
    BY DEF Execute
  <1>2. /\ parent \in Pids \cup {NULL} /\ term \in Terms
        /\ ~pr[pid] /\ pid # NULL /\ pid # None /\ pid # Boot
    BY <1>1 DEF TypeOK, AddProcess, NULL, None, Boot, Pids,
       NewParent, NewTerminal, curr_terminal_running_process, get_active_process
  <1>3. /\ parent # NULL => /\ pr[parent] /\ term_num[parent] = term
                            /\ act[term] = parent /\ how \in {"syscall", "pit"}
        /\ parent = NULL => act[term] = None /\ term = cur
        /\ act[cur] = None => term = cur
    BY DEF NULL, Pids, NewParent, NewTerminal, curr_terminal_running_process,
       get_active_process
  <1>4. parent # pid
    BY <1>2, <1>3
  <1> HIDE DEF parent, term
  <1>5. Used(procs)' = Used(pr) \cup {pid} /\ pid \notin Used(pr)
        /\ Live' = Used(pr) \cup {pid}
    BY <1>1, <1>2 DEF Used, Live
  <1>6. /\ \A p \in Used(pr) : /\ p # pid
                              /\ parent_pcb'[p] = parent_pcb[p]
                              /\ term_num'[p] = term_num[p]
        /\ parent_pcb'[pid] = parent /\ term_num'[pid] = term
        /\ \A p \in Used(pr) : parent_pcb[p] # pid
        /\ \A p \in Used(pr) : esp_parent'[p] = esp_parent[p]
        /\ esp_parent'[pid] = how
        /\ \A t \in Terms : active_processes'[t] = IF t = term THEN pid ELSE act[t]
        /\ \A p \in Used(pr) : term_num[p] \in Terms
    BY <1>1, <1>2, <1>4, <1>5 DEF TypeOK, Used, ReadyFor, NULL
  <1>7. ActiveLive'
    BY <1>1, <1>2, <1>3, <1>5, <1>6 DEF ActiveLive, ReadyFor, Live, Used
  <1>8. ParentWaits' /\ ParentFrames'
    BY <1>1, <1>2, <1>3, <1>5, <1>6 DEF ParentWaits, ParentFrames, ReadyFor, Used
  <1>9. OneChild'
    BY <1>2, <1>3, <1>5, <1>6 DEF OneChild, ReadyFor
  <1>10. OneBaseShell'
    BY <1>2, <1>3, <1>5, <1>6 DEF OneBaseShell, ReadyFor
  <1>11. LeafActive'
    <2>1. active_processes'[term_num'[pid]] = pid
      BY <1>2, <1>6
    <2>2. ASSUME NEW p \in Used(pr), act[term_num[p]] = p
          PROVE  active_processes'[term_num'[p]] = p \/ parent_pcb'[pid] = p
      BY <1>2, <1>3, <1>6, <2>2 DEF None, Used, Pids
    <2>3. ASSUME NEW p \in Used(pr), act[term_num[p]] # p
          PROVE  \E q \in Used(pr) : parent_pcb'[q] = p
      BY <1>6, <2>3 DEF ReadyFor
    <2> QED BY <1>5, <2>1, <2>2, <2>3 DEF LeafActive
  <1>12. LiveHasActive'
    <2>1. ASSUME NEW p \in Used(pr), term_num[p] # term
          PROVE  act[term_num[p]] # None
      BY <1>3, <2>1 DEF ReadyFor
    <2> QED BY <1>2, <1>5, <1>6, <2>1 DEF LiveHasActive
  <1>13. CountExact'
    <2>1. IsFiniteSet(Used(pr))
      BY UsedFinite
    <2>2. Cardinality(Used(pr) \cup {pid}) = Cardinality(Used(pr)) + 1
      BY <1>5, <2>1, FS_AddElement
    <2> QED BY <1>1, <1>5, <2>2 DEF CountExact
  <1>14. CpuInv'
    BY <1>1, <1>2, <1>6 DEF CpuInv, NoHaltWindow, RunningActive, AddressSpace,
                            BootEmpty, TypeOK
  <1> QED
    BY <1>7, <1>8, <1>9, <1>10, <1>11, <1>12, <1>13, <1>14
       DEF TableInv, ProcessTree

(* With nothing deleted the tree is ready for execute on any terminal. *)
LEMMA TreeReady ==
    ASSUME TableInv, TypeOK, NEW cur \in Terms
    PROVE  /\ ReadyFor(procs, active_processes, cur)
           /\ proc_count = Cardinality(Used(procs))
  <1>1. Used(procs) = Live
    BY DEF Used, Live
  <1> QED
    BY <1>1 DEF TableInv, ProcessTree, ActiveLive, ParentWaits, OneChild,
       OneBaseShell, LeafActive, LiveHasActive, ParentFrames, CountExact, ReadyFor

(* The scheduling logic resumes the active process of some terminal and     *)
(* loads its address space.                                                 *)
LEMMA ScheduleRuns ==
    ASSUME TypeOK,
           NEW prev \in Pids,
           NEW act \in [Terms -> Pids \cup {None}],
           NEW ctx,
           \E t \in Terms : act[t] # None,
           Schedule(prev, act, ctx, prev, prev)
    PROVE  /\ \E t \in Terms : act[t] = esp' /\ esp' \in Pids
           /\ cr3' = esp' /\ tss_esp0' = esp'
           /\ fate' = IF esp' = prev \/ ctx[esp'] = "valid" THEN fate ELSE "wild"
           /\ context' = [ctx EXCEPT ![esp'] = "stale"]
  <1>1. PICK i \in 1 .. MaxTerminals :
          LET next == act[NextTerm(term_num[prev], i)]
          IN  /\ next # None
              /\ esp' = next
              /\ context' = [ctx EXCEPT ![next] = "stale"]
              /\ IF next = prev
                 THEN cr3' = prev /\ tss_esp0' = prev /\ UNCHANGED fate
                 ELSE /\ cr3' = next
                      /\ tss_esp0' = next
                      /\ fate' = IF ctx[next] = "valid" THEN fate ELSE "wild"
    BY Zenon DEF Schedule
  <1>2. NextTerm(term_num[prev], i) \in Terms
    BY ModRange DEF TypeOK
  <1> QED BY <1>1, <1>2

(* A table step that leaves the pcbs alone and runs an active process keeps *)
(* the invariant of the CPU.                                                *)
LEMMA ActiveRuns ==
    ASSUME TypeOK, NoHaltWindow, UNCHANGED <<pcbVars, pc>>, ActiveLive',
           esp' \in Pids, \E t \in Terms : active_processes'[t] = esp',
           cr3' = esp', tss_esp0' = esp'
    PROVE  CpuInv'
  <1>1. esp' # Boot /\ esp' # None
    BY DEF Boot, None, Pids
  <1> QED
    BY <1>1 DEF CpuInv, NoHaltWindow, RunningActive, AddressSpace, BootEmpty,
                ActiveLive, pcbVars

(* halt of a process that has a parent, as far as the table goes. *)
LEMMA ReturnTable ==
    ASSUME TreeInv, esp \in Pids, parent_pcb[esp] # NULL,
           procs' = [procs EXCEPT ![esp] = FALSE],
           proc_count' = proc_count - 1,
           active_processes' = [active_processes EXCEPT
                ![term_num[parent_pcb[esp]]] = parent_pcb[esp]],
           UNCHANGED pcbVars
    PROVE  TableInv'
  <1> DEFINE q == parent_pcb[esp]
             t == term_num[esp]
  <1>1. /\ TypeOK /\ procs[esp] /\ active_processes[t] = esp
        /\ q \in Pids /\ procs[q] /\ term_num[q] = t /\ q # esp /\ t \in Terms
        /\ q # NULL
    BY DEF TreeInv, TypeInv, TypeOK, CpuInv, RunningActive, TableInv,
           ProcessTree, ParentWaits, Live
  <1> HIDE DEF q, t
  <1>2. Live' = Live \ {esp} /\ esp \in Live /\ q \in Live'
    BY <1>1 DEF Live, TypeOK
  <1>3. /\ \A u \in Terms : active_processes'[u] =
                IF u = t THEN q ELSE active_processes[u]
        /\ parent_pcb' = parent_pcb /\ term_num' = term_num
        /\ esp_parent' = esp_parent
    BY <1>1 DEF TypeOK, pcbVars, q
  <1>4. \A p \in Live : parent_pcb[p] # esp
    <2>1. esp # NULL
      BY DEF NULL, Pids
    <2> QED BY <1>1, <2>1 DEF TreeInv, TableInv, ProcessTree, ParentWaits, t
  <1>5. \A p \in Live : parent_pcb[p] = q => p = esp
    BY <1>1, <1>2 DEF TreeInv, TableInv, ProcessTree, OneChild, q
  <1>6. ActiveLive'
    BY <1>1, <1>2, <1>3 DEF TreeInv, TableInv, ProcessTree, ActiveLive, Live
  <1>7. ParentWaits' /\ ParentFrames'
    BY <1>1, <1>2, <1>3, <1>4, <1>5 DEF TreeInv, TableInv, ProcessTree,
       ParentWaits, ParentFrames, Live
  <1>8. OneChild' /\ OneBaseShell'
    BY <1>2, <1>3 DEF TreeInv, TableInv, ProcessTree, OneChild, OneBaseShell
  <1>9. LeafActive'
    <2> SUFFICES ASSUME NEW p \in Live', active_processes'[term_num'[p]] # p
                 PROVE  \E r \in Live' : parent_pcb'[r] = p
      BY DEF LeafActive
    <2>1. p # q /\ p # esp /\ p \in Live
      BY <1>1, <1>2, <1>3
    <2>2. active_processes[term_num[p]] # p
      BY <1>1, <1>3, <2>1 DEF TypeOK, Live
    <2>3. PICK r \in Live : parent_pcb[r] = p
      BY <2>1, <2>2 DEF TreeInv, TableInv, ProcessTree, LeafActive
    <2> QED BY <1>2, <1>3, <2>1, <2>3 DEF q
  <1>10. LiveHasActive'
    BY <1>1, <1>2, <1>3 DEF TreeInv, TableInv, LiveHasActive, None, Pids, TypeOK, Live
  <1>11. CountExact'
    <2>1. IsFiniteSet(Live)
      BY <1>1, UsedFinite DEF TypeOK, Used, Live
    <2>2. Cardinality(Live \ {esp}) = Cardinality(Live) - 1
      BY <1>2, <2>1, FS_RemoveElement
    <2> QED BY <1>2, <2>2 DEF TreeInv, TableInv, CountExact
  <1> QED
    BY <1>6, <1>7, <1>8, <1>9, <1>10, <1>11 DEF TableInv, ProcessTree

(* free_procs is right: a count below the bound means a free slot. *)
LEMMA FreeSlot ==
    ASSUME TypeOK, CountExact, free_procs
    PROVE  ~TableFull(procs)
  <1> SUFFICES ASSUME TableFull(procs) PROVE FALSE
    OBVIOUS
  <1>1. Live = 1 .. MaxProcesses
    BY DEF Live, TableFull, Pids
  <1>2. Cardinality(1 .. MaxProcesses) = MaxProcesses
    BY KernelAssumption, FS_Interval
  <1> QED BY <1>1, <1>2, KernelAssumption DEF CountExact, free_procs

(* start_terminal. *)
LEMMA StartTree ==
    ASSUME TreeInv, NEW t \in Terms, StartTerminal(t)
    PROVE  TableInv' /\ CpuInv'
  <1>1. TypeOK /\ NoHaltWindow /\ TableInv /\ CpuInv /\ CountExact
    BY DEF TreeInv, TypeInv, CpuInv, TableInv
  <1>2. CASE /\ UNCHANGED <<tableVars, active_processes, pcbVars, context,
                            cpuVars, pc, fate>>
             /\ \/ active_processes[t] # None
                \/ get_active_process(active_processes, current_terminal) # None
    <2>1. esp # Boot
      BY <1>1, <1>2 DEF CpuInv, BootEmpty, get_active_process
    <2>2. CpuInv'
      BY <1>1, <1>2, <2>1 DEF CpuInv, NoHaltWindow, RunningActive, AddressSpace,
         BootEmpty, tableVars, pcbVars, cpuVars
    <2>3. TableInv'
      BY <1>1, <1>2 DEF TableInv, ProcessTree, ActiveLive, ParentWaits, OneChild,
         OneBaseShell, LeafActive, LiveHasActive, ParentFrames, CountExact, Live,
         tableVars, pcbVars
    <2> QED BY <2>2, <2>3
  <1>3. CASE /\ active_processes[t] = None
             /\ ExecuteLoop(esp, "start", procs, proc_count, active_processes,
                            t, cr3, tss_esp0)
    <2>1. ~TableFull(procs)
      BY <1>1, <1>3, FreeSlot DEF StartTerminal
    <2>2. Execute(esp, "start", procs, proc_count, active_processes, t, context)
      BY <1>3, <2>1 DEF ExecuteLoop
    <2>3. /\ ReadyFor(procs, active_processes, t)
          /\ proc_count = Cardinality(Used(procs))
      BY <1>1, TreeReady
    <2>4. /\ esp \in Pids \cup {Boot} /\ "start" \in Frames
          /\ procs \in [Pids -> BOOLEAN] /\ proc_count \in Int
          /\ active_processes \in [Terms -> Pids \cup {None}]
          /\ context \in [Pids -> {"valid", "stale"}]
      BY <1>1 DEF TypeOK, Frames
    <2> QED BY <1>1, <1>3, <2>2, <2>3, <2>4, ExecuteTree
  <1> QED BY <1>2, <1>3 DEF StartTerminal

(* The execute system call. *)
LEMMA UserExecuteTree ==
    ASSUME TreeInv, UserExecute
    PROVE  TableInv' /\ CpuInv'
  <1>1. /\ TypeOK /\ NoHaltWindow /\ TableInv
        /\ esp \in Pids /\ current_terminal \in Terms
        /\ procs[esp] /\ active_processes[term_num[esp]] = esp
    BY DEF TreeInv, TypeInv, CpuInv, RunningActive, UserExecute, InUser
  <1>2. Execute(esp, "syscall", procs, proc_count, active_processes,
                current_terminal, context)
    BY DEF UserExecute
  <1>3. /\ ReadyFor(procs, active_processes, current_terminal)
        /\ proc_count = Cardinality(Used(procs))
    BY <1>1, TreeReady
  <1>4. /\ esp \in Pids \cup {Boot}
        /\ "syscall" \in Frames /\ "syscall" \in {"syscall", "pit"}
        /\ procs \in [Pids -> BOOLEAN] /\ proc_count \in Int
        /\ active_processes \in [Terms -> Pids \cup {None}]
        /\ context \in [Pids -> {"valid", "stale"}]
    BY <1>1 DEF TypeOK, Frames
  <1> QED BY <1>1, <1>2, <1>3, <1>4, ExecuteTree

(* pit_handler_main. *)
LEMMA PitTree ==
    ASSUME TreeInv, Pit
    PROVE  TableInv' /\ CpuInv'
  <1> DEFINE saved == SavedContexts
  <1>1. /\ TypeOK /\ NoHaltWindow /\ TableInv
        /\ esp \in Pids /\ current_terminal \in Terms
        /\ procs[esp] /\ active_processes[term_num[esp]] = esp
        /\ cr3 = esp /\ tss_esp0 = esp
    BY DEF TreeInv, TypeInv, CpuInv, RunningActive, AddressSpace, Pit
  <1>2. /\ procs \in [Pids -> BOOLEAN] /\ proc_count \in Int
        /\ active_processes \in [Terms -> Pids \cup {None}]
        /\ saved \in [Pids -> {"valid", "stale"}]
        /\ term_num[esp] \in Terms /\ esp # None
    BY <1>1 DEF TypeOK, None, Pids
  <1>3. CASE Execute(esp, "pit", procs, proc_count, active_processes,
                     current_terminal, saved)
    <2>1. /\ ReadyFor(procs, active_processes, current_terminal)
          /\ proc_count = Cardinality(Used(procs))
      BY <1>1, TreeReady
    <2>2. esp \in Pids \cup {Boot} /\ "pit" \in Frames /\ "pit" \in {"syscall", "pit"}
      BY <1>1 DEF Frames
    <2> HIDE DEF saved
    <2> QED BY <1>1, <1>2, <1>3, <2>1, <2>2, ExecuteTree
  <1>4. CASE /\ Schedule(esp, active_processes, saved, cr3, tss_esp0)
             /\ UNCHANGED <<tableVars, active_processes, pcbVars, pc>>
    <2> HIDE DEF saved
    <2>1. Schedule(esp, active_processes, saved, esp, esp)
      BY <1>1, <1>4
    <2>2. /\ \E t \in Terms : active_processes[t] = esp' /\ esp' \in Pids
          /\ cr3' = esp' /\ tss_esp0' = esp'
      BY <1>1, <1>2, <2>1, ScheduleRuns
    <2>3. TableInv'
      BY <1>1, <1>4 DEF TableInv, ProcessTree, ActiveLive, ParentWaits, OneChild,
         OneBaseShell, LeafActive, LiveHasActive, ParentFrames, CountExact, Live,
         tableVars, pcbVars
    <2> QED BY <1>1, <1>4, <2>2, <2>3, ActiveRuns DEF TableInv, ProcessTree
  <1> QED BY <1>3, <1>4 DEF Pit

(* halt of a base shell on the displayed terminal: what is left is ready    *)
(* for the new shell.                                                       *)
LEMMA RespawnReady ==
    ASSUME TreeInv, esp \in Pids, parent_pcb[esp] = NULL
    PROVE  /\ ReadyFor([procs EXCEPT ![esp] = FALSE],
                       [active_processes EXCEPT ![term_num[esp]] = None],
                       term_num[esp])
           /\ proc_count - 1 = Cardinality(Used([procs EXCEPT ![esp] = FALSE]))
  <1> DEFINE pr  == [procs EXCEPT ![esp] = FALSE]
             act == [active_processes EXCEPT ![term_num[esp]] = None]
             t   == term_num[esp]
  <1>1. /\ TypeOK /\ TableInv /\ procs[esp] /\ active_processes[t] = esp
        /\ esp \in Live /\ esp # NULL /\ esp # None /\ t \in Terms
    BY DEF TreeInv, TypeInv, TypeOK, CpuInv, RunningActive, Live, NULL, None, Pids
  <1>2. Used(pr) = Live \ {esp} /\ \A p \in Pids : pr[p] <=> p \in Live /\ p # esp
    BY <1>1 DEF Used, Live, TypeOK
  <1>3. \A u \in Terms : act[u] = IF u = t THEN None ELSE active_processes[u]
    BY <1>1 DEF TypeOK
  <1>4. \A p \in Live : parent_pcb[p] # esp /\ term_num[p] \in Terms /\ p \in Pids
    BY <1>1 DEF TableInv, ProcessTree, ParentWaits, TypeOK, Live
  <1>5. \A p \in Live : procs[p]
    BY DEF Live
  <1>6. /\ \A p \in Live : parent_pcb[p] # NULL => parent_pcb[p] \in Live
        /\ \A u \in Terms : active_processes[u] # None => active_processes[u] \in Live
    BY <1>1 DEF TableInv, ProcessTree, ParentWaits, ActiveLive, TypeOK, Live
  <1> HIDE DEF pr, act, t
  <1>7. \A u \in Terms : act[u] # None => pr[act[u]] /\ term_num[act[u]] = u
    <2> SUFFICES ASSUME NEW u \in Terms, act[u] # None
                 PROVE  pr[act[u]] /\ term_num[act[u]] = u
      OBVIOUS
    <2>1. u # t /\ act[u] = active_processes[u] /\ act[u] \in Live
      BY <1>3, <1>6
    <2>2. term_num[act[u]] = u
      BY <1>1, <2>1 DEF TableInv, ProcessTree, ActiveLive
    <2>3. act[u] # esp
      BY <2>1, <2>2 DEF t
    <2> QED BY <1>2, <1>4, <2>1, <2>2, <2>3
  <1>8. \A p \in Used(pr) : parent_pcb[p] # NULL =>
            /\ pr[parent_pcb[p]]
            /\ term_num[parent_pcb[p]] = term_num[p]
            /\ act[term_num[p]] # parent_pcb[p]
            /\ esp_parent[p] \in {"syscall", "pit"}
    <2> SUFFICES ASSUME NEW p \in Used(pr), parent_pcb[p] # NULL
                 PROVE  /\ pr[parent_pcb[p]]
                        /\ term_num[parent_pcb[p]] = term_num[p]
                        /\ act[term_num[p]] # parent_pcb[p]
                        /\ esp_parent[p] \in {"syscall", "pit"}
      OBVIOUS
    <2>1. /\ p \in Live /\ parent_pcb[p] \in Live /\ parent_pcb[p] # esp
          /\ parent_pcb[p] # None
      BY <1>2, <1>4, <1>6 DEF None, Pids
    <2>2. /\ term_num[parent_pcb[p]] = term_num[p]
          /\ active_processes[term_num[p]] # parent_pcb[p]
          /\ esp_parent[p] \in {"syscall", "pit"}
      BY <1>1, <2>1 DEF TableInv, ProcessTree, ParentWaits, ParentFrames
    <2> QED BY <1>2, <1>3, <1>4, <2>1, <2>2
  <1>9. \A p \in Used(pr) : act[term_num[p]] = None =>
            term_num[p] = t /\ parent_pcb[p] # NULL
    BY <1>1, <1>2, <1>3, <1>4 DEF TableInv, ProcessTree, LiveHasActive,
       OneBaseShell, t
  <1>10. \A p \in Used(pr) :
            act[term_num[p]] = p \/ \E q \in Used(pr) : parent_pcb[q] = p
    <2> SUFFICES ASSUME NEW p \in Used(pr), act[term_num[p]] # p
                 PROVE  \E q \in Used(pr) : parent_pcb[q] = p
      OBVIOUS
    <2>1. p \in Live /\ p # esp /\ active_processes[term_num[p]] # p
      BY <1>1, <1>2, <1>3, <1>4
    <2>2. PICK q \in Live : parent_pcb[q] = p
      BY <1>1, <2>1 DEF TableInv, ProcessTree, LeafActive
    <2>3. q # esp
      BY <2>1, <2>2 DEF NULL, Live, Pids
    <2> QED BY <1>2, <2>2, <2>3
  <1>11. /\ \A p, q \in Used(pr) :
              parent_pcb[p] = parent_pcb[q] /\ parent_pcb[p] # NULL => p = q
         /\ \A p, q \in Used(pr) :
              (/\ parent_pcb[p] = NULL
               /\ parent_pcb[q] = NULL
               /\ term_num[p] = term_num[q]) => p = q
    BY <1>1, <1>2 DEF TableInv, ProcessTree, OneChild, OneBaseShell
  <1>12. ReadyFor(pr, act, t)
    BY <1>7, <1>8, <1>9, <1>10, <1>11 DEF ReadyFor
  <1>13. proc_count - 1 = Cardinality(Used(pr))
    <2>1. IsFiniteSet(Live)
      BY <1>1, UsedFinite DEF TypeOK, Used, Live
    <2>2. Cardinality(Live \ {esp}) = Cardinality(Live) - 1
      BY <1>1, <2>1, FS_RemoveElement
    <2> QED BY <1>1, <1>2, <2>2 DEF TableInv, CountExact
  <1> QED BY <1>12, <1>13 DEF pr, act, t

(* halt. *)
LEMMA HaltTree ==
    ASSUME TreeInv, Halt, "halt" \notin Races
    PROVE  TableInv' /\ CpuInv'
  <1> DEFINE q    == parent_pcb[esp]
             gone == delete_process(procs, esp)
             back == set_active_process(term_num[q], q)
             bare == set_active_process(term_num[esp], None)
  <1>1. /\ TypeOK /\ NoHaltWindow /\ TableInv
        /\ esp \in Pids /\ current_terminal \in Terms
        /\ procs[esp] /\ active_processes[term_num[esp]] = esp
        /\ cr3 = esp /\ tss_esp0 = esp /\ esp \in Live
    BY DEF TreeInv, TypeInv, CpuInv, RunningActive, AddressSpace, Halt, InUser, Live
  <1>2. CASE q # NULL
    <2>1. ReturnTo(q, gone, proc_count - 1, back, q, q)
      BY <1>2 DEF Halt
    <2>2. q \in Pids /\ q # None /\ term_num[q] \in Terms
      BY <1>1, <1>2 DEF TypeOK, None, Pids
    <2>3. esp_parent[esp] \in {"syscall", "pit"}
      BY <1>1, <1>2 DEF TableInv, ParentFrames
    <2>4. /\ procs' = gone /\ proc_count' = proc_count - 1
          /\ active_processes' = back /\ UNCHANGED <<pcbVars, pc>>
      BY <2>1, <2>3 DEF ReturnTo
    <2>5. TableInv'
      BY <1>1, <1>2, <2>4, ReturnTable
    <2>6. back \in [Terms -> Pids \cup {None}] /\ back[term_num[q]] = q
      BY <1>1, <2>2 DEF TypeOK
    <2>7. /\ \E t \in Terms : back[t] = esp' /\ esp' \in Pids
          /\ cr3' = esp' /\ tss_esp0' = esp'
      <3> HIDE DEF q, gone, back, bare
      <3>1. CASE esp_parent[esp] = "syscall"
        BY <2>1, <2>2, <2>6, <3>1 DEF ReturnTo
      <3>2. CASE esp_parent[esp] = "pit"
        <4>1. Schedule(q, back, context, q, q)
          BY <2>1, <3>2 DEF ReturnTo
        <4> QED BY <1>1, <2>2, <2>6, <4>1, ScheduleRuns
      <3> QED BY <2>3, <3>1, <3>2
    <2> HIDE DEF q, gone, back, bare
    <2>8. ActiveLive' /\ \E t \in Terms : active_processes'[t] = esp'
      BY <2>4, <2>5, <2>7 DEF TableInv, ProcessTree
    <2> QED BY <1>1, <2>4, <2>5, <2>7, <2>8, ActiveRuns
  <1>3. CASE q = NULL
    <2>1. ExecuteLoop(esp, "halt", gone, proc_count - 1, bare,
                      current_terminal, Boot, tss_esp0)
      BY <1>3 DEF Halt
    <2>2. current_terminal = term_num[esp]
      BY <1>3 DEF Halt, BaseHaltAllowed
    <2>3. /\ gone \in [Pids -> BOOLEAN] /\ bare \in [Terms -> Pids \cup {None}]
          /\ ~gone[esp] /\ bare[current_terminal] = None
          /\ proc_count - 1 \in Int /\ "halt" \in Frames
          /\ esp \in Pids \cup {Boot}
          /\ context \in [Pids -> {"valid", "stale"}]
      BY <1>1, <2>2 DEF TypeOK, Frames
    <2>4. /\ ReadyFor(gone, bare, current_terminal)
          /\ proc_count - 1 = Cardinality(Used(gone))
      BY <1>1, <1>3, <2>2, RespawnReady
    <2> HIDE DEF q, gone, back, bare
    <2>5. ~TableFull(gone)
      BY <1>1, <2>3 DEF TableFull
    <2>6. Execute(esp, "halt", gone, proc_count - 1, bare, current_terminal,
                  context)
      BY <2>1, <2>5 DEF ExecuteLoop
    <2> QED BY <1>1, <2>3, <2>4, <2>6, ExecuteTree
  <1> QED BY <1>2, <1>3

(* One step, in the environments considered. *)
LEMMA TreeInvStep ==
    ASSUME "halt" \notin Races, "rtc" \notin Races
    PROVE  TreeInv /\ [Next]_vars => TreeInv'
  <1> SUFFICES ASSUME TreeInv, [Next]_vars PROVE TreeInv'
    OBVIOUS
  <1>1. TypeInv'
    BY TypeInvStep DEF TreeInv
  <1> SUFFICES TableInv' /\ CpuInv'
    BY <1>1 DEF TreeInv
  <1>2. CASE BootStart
    <2>1. 0 \in Terms
      BY KernelAssumption DEF Terms
    <2> QED BY <1>2, <2>1, StartTree DEF BootStart
  <1>3. ASSUME NEW t \in Terms, SwitchKey(t) PROVE TableInv' /\ CpuInv'
    BY <1>3, StartTree DEF SwitchKey
  <1>4. CASE UserExecute
    BY <1>4, UserExecuteTree
  <1>5. CASE \/ OpenRtc \/ CloseRtc \/ PitIdle \/ UNCHANGED vars
    <2>1. UNCHANGED <<procs, proc_count, active_processes, current_terminal,
                      next_execute, parent_pcb, term_num, esp_parent, cr3,
                      tss_esp0, esp, pc>>
      BY <1>5 DEF OpenRtc, CloseRtc, PitIdle, vars, tableVars, pcbVars, termVars,
                  cpuVars
    <2>2. TableInv'
      BY <2>1 DEF TreeInv, TableInv, ProcessTree, ActiveLive, ParentWaits,
         OneChild, OneBaseShell, LeafActive, LiveHasActive, ParentFrames,
         CountExact, Live
    <2>3. CpuInv'
      BY <2>1 DEF TreeInv, CpuInv, NoHaltWindow, RunningActive, AddressSpace,
         BootEmpty, Live
    <2> QED BY <2>2, <2>3
  <1>6. CASE Halt
    BY <1>6, HaltTree
  <1>7. CASE HaltClose
    BY <1>7 DEF HaltClose
  <1>8. CASE HaltSetPd \/ HaltSetTss \/ HaltSetActive \/ HaltJump
    BY <1>8 DEF HaltSetPd, HaltSetTss, HaltSetActive, HaltJump, At, TreeInv,
                CpuInv, NoHaltWindow
  <1>9. CASE Pit
    BY <1>9, PitTree
  <1> QED
    BY <1>2, <1>3, <1>4, <1>5, <1>6, <1>7, <1>8, <1>9 DEF Next

(* It boots with an empty tree. *)
LEMMA TreeInvInit == Init => TreeInv
  <1> SUFFICES ASSUME Init PROVE TreeInv
    OBVIOUS
  <1>1. TypeInv
    BY TypeInvInit
  <1>2. Live = {} /\ esp \notin Pids
    BY DEF Init, Live, Boot, Pids
  <1>3. CountExact
    BY <1>2, FS_EmptySet DEF Init, CountExact
  <1>4. TableInv
    BY <1>2, <1>3 DEF Init, TableInv, ProcessTree, ActiveLive, ParentWaits,
       OneChild, OneBaseShell, LeafActive, LiveHasActive, ParentFrames
  <1>5. CpuInv
    BY <1>2 DEF Init, CpuInv, NoHaltWindow, RunningActive, AddressSpace, BootEmpty
  <1> QED BY <1>1, <1>4, <1>5 DEF TreeInv

(* Even when keys and execute calls race with a scheduled shell, the        *)
(* processes of every terminal form one chain that ends in its active       *)
(* process.                                                                 *)
THEOREM ProcessTreeHolds ==
    ASSUME "halt" \notin Races, "rtc" \notin Races
    PROVE  Spec => []ProcessTree
  <1>1. TreeInv => ProcessTree
    BY DEF TreeInv, TableInv
  <1> QED BY <1>1, TreeInvInit, TreeInvStep, PTL DEF Spec

(* In the same environments the CPU runs a live, active process in its own  *)
(* address space and on its own trap stack.                                 *)
THEOREM RunningHolds ==
    ASSUME "halt" \notin Races, "rtc" \notin Races
    PROVE  Spec => [](RunningActive /\ AddressSpace)
  <1>1. TreeInv => RunningActive /\ AddressSpace
    BY DEF TreeInv, CpuInv
  <1> QED BY <1>1, TreeInvInit, TreeInvStep, PTL DEF Spec

(* And the count that free_procs and the PIT handler test is exact. *)
THEOREM CountHolds ==
    ASSUME "halt" \notin Races, "rtc" \notin Races
    PROVE  Spec => []CountExact
  <1>1. TreeInv => CountExact
    BY DEF TreeInv, TableInv
  <1> QED BY <1>1, TreeInvInit, TreeInvStep, PTL DEF Spec

-----------------------------------------------------------------------------
(* The environment that races nothing: control never leaves the kernel.     *)

CalmInv == TreeInv /\ ControlSafe /\ PendingShell

(* execute leaves every process it does not run with a saved context, and   *)
(* every waiting parent in its system call.                                 *)
LEMMA ExecuteControl ==
    ASSUME TypeOK,
           NEW stk \in Pids \cup {Boot}, NEW how \in Frames,
           NEW pr \in [Pids -> BOOLEAN], NEW n \in Int,
           NEW act \in [Terms -> Pids \cup {None}], NEW cur \in Terms,
           NEW ctx \in [Pids -> {"valid", "stale"}],
           ReadyFor(pr, act, cur),
           act[cur] # None => stk \in Pids /\ how = "syscall",
           \A p \in Used(pr) : parent_pcb[p] # NULL => esp_parent[p] = "syscall",
           \A u \in Terms :
              /\ act[u] # None
              /\ u # IF act[cur] # None THEN term_num[stk] ELSE cur
              => ctx[act[u]] = "valid",
           act[cur] # None => pr[stk],
           Execute(stk, how, pr, n, act, cur, ctx)
    PROVE  /\ SavedContext' /\ FramesWait' /\ esp' \in Pids
           /\ active_processes'[cur] # None
  <1> DEFINE parent == NewParent(stk, act, cur)
             term   == NewTerminal(stk, act, cur)
  <1>1. PICK pid \in Pids :
          /\ AddProcess(pr, pid)
          /\ procs' = [pr EXCEPT ![pid] = TRUE]
          /\ parent_pcb' = [parent_pcb EXCEPT ![pid] = parent]
          /\ esp_parent' = [q \in Pids |->
                  IF q = pid
                  THEN IF parent = pid THEN "gone" ELSE how
                  ELSE IF parent_pcb[q] = pid THEN "gone" ELSE esp_parent[q]]
          /\ context' = [ctx EXCEPT ![pid] = "stale"]
          /\ active_processes' = [act EXCEPT ![term] = pid]
          /\ esp' = pid
    BY DEF Execute
  <1>2. /\ parent \in Pids \cup {NULL} /\ term \in Terms
        /\ ~pr[pid] /\ pid # NULL /\ pid # None
        /\ parent # NULL => how = "syscall" /\ pr[parent]
        /\ term = IF act[cur] # None THEN term_num[stk] ELSE cur
        /\ act[cur] # None \/ term = cur
    BY <1>1 DEF TypeOK, AddProcess, NULL, None, Pids, NewParent, NewTerminal,
       curr_terminal_running_process, get_active_process
  <1> HIDE DEF parent, term
  <1>3. \A u \in Terms : active_processes'[u] = IF u = term THEN pid ELSE act[u]
    BY <1>1, <1>2
  <1>4. SavedContext'
    <2> SUFFICES ASSUME NEW u \in Terms, active_processes'[u] # None,
                        active_processes'[u] # esp'
                 PROVE  context'[active_processes'[u]] = "valid"
      BY DEF SavedContext
    <2>1. u # term /\ active_processes'[u] = act[u] /\ act[u] \in Pids
      BY <1>1, <1>3
    <2>2. ctx[act[u]] = "valid" /\ act[u] # pid
      BY <1>1, <1>2, <2>1
    <2> QED BY <1>1, <2>1, <2>2
  <1>5. FramesWait'
    <2> SUFFICES ASSUME NEW p \in Pids, procs'[p], parent_pcb'[p] # NULL
                 PROVE  esp_parent'[p] = "syscall"
      BY DEF FramesWait, Live
    <2>1. CASE p = pid
      BY <1>1, <1>2, <2>1 DEF TypeOK
    <2>2. CASE p # pid
      <3>1. /\ pr[p] /\ p \in Used(pr)
            /\ parent_pcb'[p] = parent_pcb[p] /\ parent_pcb[p] # NULL
        BY <1>1, <2>2 DEF TypeOK, Used
      <3>2. parent_pcb[p] # pid
        BY <1>2, <3>1 DEF ReadyFor
      <3> QED BY <1>1, <2>2, <3>1, <3>2
    <2> QED BY <2>1, <2>2
  <1> QED BY <1>1, <1>2, <1>3, <1>4, <1>5 DEF None, Pids

(* start_terminal. *)
LEMMA StartControl ==
    ASSUME CalmInv, NEW t \in Terms, StartTerminal(t), ~next_execute
    PROVE  ControlSafe' /\ PendingShell'
  <1>1. TypeOK /\ TableInv /\ CpuInv /\ CountExact /\ t # None
    BY DEF CalmInv, TreeInv, TypeInv, TableInv, None, Terms
  <1>2. CASE active_processes[t] # None
    BY <1>1, <1>2 DEF StartTerminal, CalmInv, ControlSafe, SavedContext, FramesWait,
       PendingShell, Live, tableVars, pcbVars, cpuVars, TableFull
  <1>3. CASE /\ active_processes[t] = None
             /\ get_active_process(active_processes, current_terminal) # None
    <2>1. ~TableFull(procs)
      BY <1>1, <1>3, FreeSlot DEF StartTerminal
    <2> QED
      BY <1>1, <1>3, <2>1 DEF StartTerminal, CalmInv, ControlSafe, SavedContext,
         FramesWait, PendingShell, Live, tableVars, pcbVars, cpuVars, TableFull
  <1>4. CASE /\ active_processes[t] = None
             /\ get_active_process(active_processes, current_terminal) = None
    <2>1. esp = Boot
      BY <1>1, <1>4 DEF CalmInv, PendingShell, get_active_process, TypeOK
    <2>2. \A u \in Terms : active_processes[u] = None
      BY <1>1, <2>1 DEF CpuInv, BootEmpty
    <2>3. ~TableFull(procs)
      BY <1>1, <1>4, FreeSlot DEF StartTerminal
    <2>4. /\ Execute(esp, "start", procs, proc_count, active_processes, t, context)
          /\ UNCHANGED <<fate, next_execute>> /\ current_terminal' = t
      BY <1>4, <2>3 DEF StartTerminal, ExecuteLoop
    <2>5. /\ ReadyFor(procs, active_processes, t)
          /\ \A p \in Used(procs) : parent_pcb[p] # NULL => esp_parent[p] = "syscall"
      BY <1>1, TreeReady DEF CalmInv, ControlSafe, FramesWait, Live, Used
    <2>6. /\ esp \in Pids \cup {Boot} /\ "start" \in Frames
          /\ procs \in [Pids -> BOOLEAN] /\ proc_count \in Int
          /\ active_processes \in [Terms -> Pids \cup {None}]
          /\ context \in [Pids -> {"valid", "stale"}]
      BY <1>1 DEF TypeOK, Frames
    <2>7. /\ SavedContext' /\ FramesWait' /\ esp' \in Pids
          /\ active_processes'[t] # None
      BY <1>1, <2>2, <2>4, <2>5, <2>6, ExecuteControl
    <2> QED BY <1>1, <2>4, <2>7 DEF CalmInv, ControlSafe, PendingShell
  <1> QED BY <1>2, <1>3, <1>4

(* An active process other than the running one belongs to another terminal. *)
LEMMA OtherActive ==
    ASSUME TreeInv, esp \in Pids, NEW u \in Terms, u # term_num[esp]
    PROVE  active_processes[u] # esp
  <1>1. esp # None
    BY DEF None, Pids
  <1> QED BY <1>1 DEF TreeInv, TableInv, ProcessTree, ActiveLive

(* The execute system call, with no shell scheduled. *)
LEMMA UserExecuteControl ==
    ASSUME CalmInv, UserExecute, ~next_execute
    PROVE  ControlSafe' /\ PendingShell'
  <1>1. /\ TypeOK /\ TableInv /\ esp \in Pids /\ current_terminal \in Terms
        /\ procs[esp] /\ active_processes[current_terminal] # None
    BY DEF CalmInv, TreeInv, TypeInv, CpuInv, RunningActive, PendingShell,
           UserExecute, InUser
  <1>2. /\ Execute(esp, "syscall", procs, proc_count, active_processes,
                   current_terminal, context)
        /\ UNCHANGED <<fate, next_execute, current_terminal>>
    BY DEF UserExecute, termVars
  <1>3. /\ ReadyFor(procs, active_processes, current_terminal)
        /\ \A p \in Used(procs) : parent_pcb[p] # NULL => esp_parent[p] = "syscall"
    BY <1>1, TreeReady DEF CalmInv, ControlSafe, FramesWait, Live, Used
  <1>4. \A u \in Terms : active_processes[u] # None /\ u # term_num[esp]
            => context[active_processes[u]] = "valid"
    BY <1>1, OtherActive DEF CalmInv, ControlSafe, SavedContext
  <1>5. /\ esp \in Pids \cup {Boot} /\ "syscall" \in Frames
        /\ procs \in [Pids -> BOOLEAN] /\ proc_count \in Int
        /\ active_processes \in [Terms -> Pids \cup {None}]
        /\ context \in [Pids -> {"valid", "stale"}]
        /\ current_terminal # None
    BY <1>1 DEF TypeOK, Frames, None, Terms
  <1>6. /\ SavedContext' /\ FramesWait' /\ esp' \in Pids
        /\ active_processes'[current_terminal] # None
    BY <1>1, <1>2, <1>3, <1>4, <1>5, ExecuteControl
  <1> QED BY <1>2, <1>5, <1>6 DEF CalmInv, ControlSafe, PendingShell

(* pit_handler_main. *)
LEMMA PitControl ==
    ASSUME CalmInv, Pit
    PROVE  ControlSafe' /\ PendingShell'
  <1> DEFINE saved == SavedContexts
  <1>1. /\ TypeOK /\ TableInv /\ esp \in Pids /\ current_terminal \in Terms
        /\ procs[esp] /\ active_processes[term_num[esp]] = esp
        /\ cr3 = esp /\ tss_esp0 = esp /\ current_terminal # None
    BY DEF CalmInv, TreeInv, TypeInv, CpuInv, RunningActive, AddressSpace, Pit,
           None, Terms
  <1>2. /\ procs \in [Pids -> BOOLEAN] /\ proc_count \in Int
        /\ active_processes \in [Terms -> Pids \cup {None}]
        /\ saved \in [Pids -> {"valid", "stale"}]
        /\ term_num[esp] \in Terms /\ esp # None
    BY <1>1 DEF TypeOK, None, Pids
  <1>3. \A u \in Terms : active_processes[u] # None =>
            saved[active_processes[u]] = "valid"
    BY <1>1, <1>2 DEF CalmInv, ControlSafe, SavedContext, TypeOK
  <1>4. next_execute' = FALSE /\ UNCHANGED current_terminal
    BY DEF Pit
  <1>5. CASE next_execute
    <2>1. ~TableFull(procs) /\ active_processes[current_terminal] = None
      BY <1>1, <1>5 DEF CalmInv, PendingShell
    <2>2. /\ Execute(esp, "pit", procs, proc_count, active_processes,
                     current_terminal, saved)
          /\ UNCHANGED fate
      BY <1>5, <2>1 DEF Pit
    <2>3. /\ ReadyFor(procs, active_processes, current_terminal)
          /\ \A p \in Used(procs) : parent_pcb[p] # NULL => esp_parent[p] = "syscall"
      BY <1>1, TreeReady DEF CalmInv, ControlSafe, FramesWait, Live, Used
    <2>4. esp \in Pids \cup {Boot} /\ "pit" \in Frames
      BY <1>1 DEF Frames
    <2> HIDE DEF saved
    <2>5. /\ SavedContext' /\ FramesWait' /\ esp' \in Pids
          /\ active_processes'[current_terminal] # None
      BY <1>1, <1>2, <1>3, <2>1, <2>2, <2>3, <2>4, ExecuteControl
    <2> QED BY <1>1, <1>4, <2>2, <2>5 DEF CalmInv, ControlSafe, PendingShell
  <1>6. CASE ~next_execute
    <2>1. /\ Schedule(esp, active_processes, saved, esp, esp)
          /\ UNCHANGED <<tableVars, active_processes, pcbVars, pc>>
      BY <1>1, <1>6 DEF Pit
    <2> HIDE DEF saved
    <2>2. /\ \E t \in Terms : active_processes[t] = esp' /\ esp' \in Pids
          /\ fate' = IF esp' = esp \/ saved[esp'] = "valid" THEN fate ELSE "wild"
          /\ context' = [saved EXCEPT ![esp'] = "stale"]
      BY <1>1, <1>2, <2>1, ScheduleRuns
    <2>3. fate' = fate
      BY <1>3, <2>2 DEF None, Pids
    <2>4. SavedContext'
      BY <1>2, <1>3, <2>1, <2>2 DEF SavedContext
    <2>5. FramesWait'
      BY <2>1 DEF CalmInv, ControlSafe, FramesWait, Live, tableVars, pcbVars
    <2>6. PendingShell'
      BY <1>1, <1>4, <1>6, <2>1 DEF CalmInv, PendingShell
    <2> QED BY <2>3, <2>4, <2>5, <2>6 DEF CalmInv, ControlSafe
  <1> QED BY <1>5, <1>6

(* halt. *)
LEMMA HaltControl ==
    ASSUME CalmInv, Halt, "halt" \notin Races
    PROVE  ControlSafe' /\ PendingShell'
  <1> DEFINE q    == parent_pcb[esp]
             gone == delete_process(procs, esp)
             back == set_active_process(term_num[q], q)
             bare == set_active_process(term_num[esp], None)
  <1>1. /\ TreeInv /\ TypeOK /\ TableInv /\ esp \in Live
        /\ esp \in Pids /\ current_terminal \in Terms /\ current_terminal # None
        /\ procs[esp] /\ active_processes[term_num[esp]] = esp
        /\ UNCHANGED <<current_terminal, next_execute>>
    BY DEF CalmInv, TreeInv, TypeInv, CpuInv, RunningActive, Halt, InUser, Live,
           None, Terms, termVars
  <1>2. term_num[esp] \in Terms /\ esp # None /\ ~gone[esp]
    BY <1>1 DEF TypeOK, None, Pids
  <1>3. CASE q # NULL
    <2>1. /\ q \in Pids /\ term_num[q] = term_num[esp] /\ q # None
          /\ esp_parent[esp] = "syscall"
      BY <1>1, <1>3 DEF TypeOK, None, Pids, TableInv, ProcessTree, ParentWaits,
         CalmInv, ControlSafe, FramesWait
    <2>2. ReturnTo(q, gone, proc_count - 1, back, q, q)
      BY <1>3 DEF Halt
    <2>3. /\ procs' = gone /\ active_processes' = back /\ esp' = q
          /\ UNCHANGED <<pcbVars, context, fate>>
      BY <2>1, <2>2 DEF ReturnTo
    <2>4. \A u \in Terms : active_processes'[u] =
              IF u = term_num[esp] THEN q ELSE active_processes[u]
      BY <1>1, <1>2, <2>1, <2>3 DEF TypeOK
    <2>5. SavedContext'
      BY <1>1, <2>3, <2>4, OtherActive DEF CalmInv, ControlSafe, SavedContext
    <2>6. FramesWait'
      BY <1>1, <2>3 DEF CalmInv, ControlSafe, FramesWait, Live, pcbVars, TypeOK
    <2>7. PendingShell'
      BY <1>1, <1>2, <2>1, <2>3, <2>4 DEF CalmInv, PendingShell, TableFull
    <2> QED BY <2>3, <2>5, <2>6, <2>7 DEF CalmInv, ControlSafe
  <1>4. CASE q = NULL
    <2>1. ExecuteLoop(esp, "halt", gone, proc_count - 1, bare,
                      current_terminal, Boot, tss_esp0)
      BY <1>4 DEF Halt
    <2>2. current_terminal = term_num[esp]
      BY <1>4 DEF Halt, BaseHaltAllowed
    <2>3. /\ gone \in [Pids -> BOOLEAN] /\ bare \in [Terms -> Pids \cup {None}]
          /\ bare[current_terminal] = None
          /\ proc_count - 1 \in Int /\ "halt" \in Frames
          /\ esp \in Pids \cup {Boot}
          /\ context \in [Pids -> {"valid", "stale"}]
      BY <1>1, <2>2 DEF TypeOK, Frames
    <2>4. ReadyFor(gone, bare, current_terminal)
      BY <1>1, <1>4, <2>2, RespawnReady
    <2>5. \A p \in Used(gone) : parent_pcb[p] # NULL => esp_parent[p] = "syscall"
      BY <1>1 DEF CalmInv, ControlSafe, FramesWait, Live, Used, TypeOK
    <2>6. \A u \in Terms : bare[u] # None /\ u # current_terminal =>
              context[bare[u]] = "valid"
      BY <1>1, <2>2, OtherActive DEF CalmInv, ControlSafe, SavedContext, TypeOK
    <2>7. ~next_execute
      BY <1>1, <1>2, <2>2 DEF CalmInv, PendingShell
    <2> HIDE DEF q, gone, back, bare
    <2>8. /\ Execute(esp, "halt", gone, proc_count - 1, bare, current_terminal,
                     context)
          /\ UNCHANGED fate
      BY <1>1, <1>2, <2>1 DEF ExecuteLoop, TableFull
    <2>9. /\ SavedContext' /\ FramesWait' /\ esp' \in Pids
          /\ active_processes'[current_terminal] # None
      BY <1>1, <2>3, <2>4, <2>5, <2>6, <2>8, ExecuteControl
    <2> QED BY <1>1, <2>7, <2>8, <2>9 DEF CalmInv, ControlSafe, PendingShell
  <1> QED BY <1>3, <1>4

(* One step of the calm environment. *)
LEMMA CalmInvStep ==
    ASSUME Races = {}
    PROVE  CalmInv /\ [Next]_vars => CalmInv'
  <1> SUFFICES ASSUME CalmInv, [Next]_vars PROVE CalmInv'
    OBVIOUS
  <1>1. TreeInv'
    BY TreeInvStep DEF CalmInv
  <1> SUFFICES ControlSafe' /\ PendingShell'
    BY <1>1 DEF CalmInv
  <1>2. CASE BootStart
    <2>1. 0 \in Terms /\ ~next_execute
      BY <1>2, KernelAssumption DEF Terms, BootStart, CalmInv, TreeInv, CpuInv,
         BootEmpty
    <2> QED BY <1>2, <2>1, StartControl DEF BootStart
  <1>3. ASSUME NEW t \in Terms, SwitchKey(t) PROVE ControlSafe' /\ PendingShell'
    BY <1>3, StartControl DEF SwitchKey
  <1>4. CASE UserExecute
    BY <1>4, UserExecuteControl DEF UserExecute
  <1>5. CASE OpenRtc \/ CloseRtc \/ PitIdle \/ UNCHANGED vars
    <2>1. UNCHANGED <<procs, active_processes, current_terminal, next_execute,
                      parent_pcb, esp_parent, context, esp, fate>>
      BY <1>5 DEF OpenRtc, CloseRtc, PitIdle, vars, tableVars, pcbVars, termVars,
                  cpuVars
    <2> QED
      BY <2>1 DEF CalmInv, ControlSafe, SavedContext, FramesWait, PendingShell,
         Live, TableFull
  <1>6. CASE Halt
    BY <1>6, HaltControl
  <1>7. CASE HaltClose
    BY <1>7 DEF HaltClose
  <1>8. CASE HaltSetPd \/ HaltSetTss \/ HaltSetActive \/ HaltJump
    BY <1>8 DEF HaltSetPd, HaltSetTss, HaltSetActive, HaltJump, At, CalmInv,
                TreeInv, CpuInv, NoHaltWindow
  <1>9. CASE Pit
    BY <1>9, PitControl
  <1> QED
    BY <1>2, <1>3, <1>4, <1>5, <1>6, <1>7, <1>8, <1>9 DEF Next

(* It boots under control. *)
LEMMA CalmInvInit == Init => CalmInv
  <1> SUFFICES ASSUME Init PROVE CalmInv
    OBVIOUS
  <1>1. esp \notin Pids /\ Live = {}
    BY DEF Init, Boot, Pids, Live
  <1>2. ControlSafe /\ PendingShell
    BY <1>1 DEF Init, ControlSafe, SavedContext, FramesWait, PendingShell
  <1> QED BY <1>2, TreeInvInit DEF CalmInv

(* When nothing races with a scheduled shell, base shells halt on screen    *)
(* and the RTC is closed before its last user halts, the scheduler only     *)
(* switches to saved contexts, halt only returns to execute frames that     *)
(* still exist, and the machine neither runs wild nor hangs.                *)
THEOREM ControlHolds ==
    ASSUME Races = {}
    PROVE  Spec => []ControlSafe
  <1>1. CalmInv => ControlSafe
    BY DEF CalmInv
  <1> QED BY <1>1, CalmInvInit, CalmInvStep, PTL DEF Spec

(* And a scheduled shell still finds its terminal empty and a slot free     *)
(* when the PIT interrupt launches it.                                      *)
THEOREM PendingHolds ==
    ASSUME Races = {}
    PROVE  Spec => []PendingShell
  <1>1. CalmInv => PendingShell
    BY DEF CalmInv
  <1> QED BY <1>1, CalmInvInit, CalmInvStep, PTL DEF Spec

-----------------------------------------------------------------------------
(* The stacks of module TermStacks.  Chained is what makes the mapping of   *)
(* KernelRefinement a stack at all: following parent_pcb from the active    *)
(* process ends, at a base shell, and meets no process twice.               *)

(* s is the stack of terminal t: its live processes, each the parent of the *)
(* next, from the base shell to the active process.                         *)
Chain(t, s) ==
    /\ s \in Seq(Live)
    /\ \A i, j \in 1 .. Len(s) : s[i] = s[j] => i = j
    /\ \A i \in 1 .. Len(s) : /\ term_num[s[i]] = t
                              /\ parent_pcb[s[i]] = IF i = 1 THEN NULL ELSE s[i - 1]
    /\ active_processes[t] = IF Len(s) = 0 THEN None ELSE s[Len(s)]

Chained == \A t \in Terms : Chain(t, StackOf(t))

(* Induction over the natural numbers, for a set. *)
LEMMA NatInduct ==
    ASSUME NEW T, 0 \in T, \A k \in Nat : k \in T => k + 1 \in T
    PROVE  Nat \subseteq T
  <1> DEFINE U == {k \in Nat : k \notin T}
             R == OpToRel(<, Nat)
  <1>1. IsWellFoundedOn(R, Nat)
    BY NatLessThanWellFounded
  <1>2. \A x, y \in Nat : <<y, x>> \in R <=> y < x
    BY DEF OpToRel
  <1> HIDE DEF R
  <1>3. ASSUME U # {} PROVE FALSE
    <2>1. PICK x \in U : \A y \in U : ~(<<y, x>> \in R)
      BY <1>1, <1>3, WFMin
    <2>2. x # 0 /\ x - 1 \in Nat /\ x - 1 < x
      OBVIOUS
    <2>3. x - 1 \notin U
      BY <1>2, <2>1, <2>2
    <2> QED BY <2>2, <2>3
  <1> QED BY <1>3

(* A stack holds no more processes than there are slots. *)
LEMMA ChainShort ==
    ASSUME NEW t, NEW s, Chain(t, s)
    PROVE  Len(s) \in Nat /\ Len(s) <= MaxProcesses
  <1> DEFINE n == Len(s)
  <1>1. s \in Seq(Live) /\ n \in Nat
    BY LenProperties DEF Chain
  <1>2. s \in [1 .. n -> Pids]
    <2>1. s \in [1 .. n -> Live]
      BY <1>1, LenProperties
    <2> QED BY <2>1 DEF Live
  <1>3. s \in Injection(1 .. n, Pids)
    BY <1>2 DEF Chain, Injection, IsInjective
  <1>4. /\ IsFiniteSet(Pids) /\ Cardinality(Pids) = MaxProcesses
        /\ Cardinality(1 .. n) = n
    <2> HIDE DEF n
    <2>1. /\ IsFiniteSet(1 .. MaxProcesses)
          /\ Cardinality(1 .. MaxProcesses) = MaxProcesses
      BY KernelAssumption, FS_Interval
    <2>2. Cardinality(1 .. n) = n
      BY <1>1, FS_Interval
    <2> QED BY <2>1, <2>2 DEF Pids
  <1>5. Cardinality(1 .. n) <= Cardinality(Pids)
    BY <1>3, <1>4, FS_Injection
  <1> QED BY <1>1, <1>4, <1>5

(* The k-th process below the top of stack s. *)
Below(s, k) ==
    IF k < Len(s) THEN s[Len(s) - k] ELSE IF k = 0 THEN None ELSE NULL

(* parent_pcb of one is the next one. *)
LEMMA ParentBelow ==
    ASSUME NEW t, NEW s, Chain(t, s), NEW k \in Nat
    PROVE  Parent(Below(s, k)) = Below(s, k + 1)
  <1> DEFINE n == Len(s)
  <1>1. s \in Seq(Live) /\ n \in Nat
    BY LenProperties DEF Chain
  <1>2. CASE k < n
    <2>1. n - k \in 1 .. n
      BY <1>1, <1>2
    <2>2. s[n - k] \in Pids
      BY <1>1, <2>1, ElementOfSeq DEF Live
    <2>3. parent_pcb[s[n - k]] = IF n - k = 1 THEN NULL ELSE s[n - k - 1]
      BY <2>1 DEF Chain
    <2>4. Parent(Below(s, k)) = IF n - k = 1 THEN NULL ELSE s[n - k - 1]
      BY <1>2, <2>2, <2>3 DEF Parent, Below
    <2>5. CASE n - k = 1
      BY <1>1, <2>4, <2>5 DEF Below
    <2>6. CASE n - k # 1
      <3>1. k + 1 < n /\ n - k - 1 = n - (k + 1)
        BY <1>1, <1>2, <2>6
      <3> QED BY <2>4, <2>6, <3>1 DEF Below
    <2> QED BY <2>5, <2>6
  <1>3. CASE ~(k < n)
    <2>1. Below(s, k) \notin Pids
      BY <1>3 DEF Below, None, NULL, Pids
    <2>2. ~(k + 1 < n) /\ k + 1 # 0
      BY <1>1, <1>3
    <2> QED BY <2>1, <2>2 DEF Parent, Below
  <1> QED BY <1>2, <1>3

(* Following parent_pcb from the active process walks down the stack. *)
LEMMA AncestorBelow ==
    ASSUME NEW t, NEW s, Chain(t, s), NEW k \in 0 .. MaxProcesses
    PROVE  Ancestor(t)[k] = Below(s, k)
  <1> DEFINE M == MaxProcesses
             E(f) == f = [i \in 0 .. M |-> IF i = 0 THEN active_processes[t]
                                                    ELSE Parent(f[i - 1])]
             g == [i \in 0 .. M |-> Below(s, i)]
             up[i \in 0 .. M] == IF i = 0 THEN active_processes[t] ELSE Parent(up[i - 1])
  <1>1. M \in Nat
    BY KernelAssumption
  <1>2. Below(s, 0) = active_processes[t]
    <2>1. Len(s) \in Nat
      BY ChainShort
    <2> QED BY <2>1 DEF Below, Chain
  <1>3. E(g)
    <2>1. ASSUME NEW i \in 0 .. M
          PROVE  g[i] = IF i = 0 THEN active_processes[t] ELSE Parent(g[i - 1])
      <3>1. CASE i = 0
        BY <1>2, <3>1
      <3>2. CASE i # 0
        <4>1. i - 1 \in Nat /\ i - 1 \in 0 .. M /\ (i - 1) + 1 = i
          BY <1>1, <3>2
        <4>2. Parent(Below(s, i - 1)) = Below(s, i)
          BY <4>1, ParentBelow
        <4> QED BY <3>2, <4>1, <4>2
      <3> QED BY <3>1, <3>2
    <2> QED BY <2>1
  <1>4. up = CHOOSE f : E(f)
    BY Zenon
  <1> HIDE DEF up
  <1>5. E(up)
    <2> HIDE DEF E, g
    <2> QED BY <1>3, <1>4, Zenon
  <1>6. \A i \in 0 .. M : up[i] = Below(s, i)
    <2> DEFINE T == {i \in Nat : i \in 0 .. M => up[i] = Below(s, i)}
    <2>1. 0 \in T
      BY <1>2, <1>5
    <2>2. ASSUME NEW i \in Nat, i \in T PROVE i + 1 \in T
      <3>1. SUFFICES ASSUME i + 1 \in 0 .. M PROVE up[i + 1] = Below(s, i + 1)
        OBVIOUS
      <3>2. i \in 0 .. M /\ i + 1 # 0 /\ (i + 1) - 1 = i
        BY <1>1, <3>1
      <3>3. up[i + 1] = Parent(up[i])
        BY <1>5, <3>1, <3>2
      <3>4. up[i] = Below(s, i)
        BY <2>2, <3>2
      <3> QED BY <3>3, <3>4, ParentBelow
    <2> HIDE DEF T
    <2>3. Nat \subseteq T
      BY <2>1, <2>2, NatInduct
    <2> QED BY <1>1, <2>3 DEF T
  <1>7. Ancestor(t) = up
    BY Zenon DEF Ancestor, up
  <1> QED BY <1>6, <1>7

(* The mapping finds the stack. *)
LEMMA StackIs == \A t, s : Chain(t, s) => StackOf(t) = s
  <1> SUFFICES ASSUME NEW t, NEW s, Chain(t, s) PROVE StackOf(t) = s
    OBVIOUS
  <1> DEFINE n == Len(s)
             K == {k \in 0 .. MaxProcesses : Ancestor(t)[k] \in Pids}
  <1>1. /\ n \in Nat /\ n <= MaxProcesses /\ MaxProcesses \in Nat
        /\ s \in Seq(Live) /\ s \in [1 .. n -> Live]
    BY ChainShort, KernelAssumption, LenProperties DEF Chain
  <1>2. \A k \in 0 .. MaxProcesses : Ancestor(t)[k] = Below(s, k)
    BY AncestorBelow
  <1>3. \A k \in 0 .. MaxProcesses : Below(s, k) \in Pids <=> k < n
    <2> SUFFICES ASSUME NEW k \in 0 .. MaxProcesses PROVE Below(s, k) \in Pids <=> k < n
      OBVIOUS
    <2>1. CASE k < n
      <3>1. n - k \in 1 .. n
        BY <1>1, <2>1
      <3>2. s[n - k] \in Pids
        BY <1>1, <3>1 DEF Live
      <3> QED BY <2>1, <3>2 DEF Below
    <2>2. CASE ~(k < n)
      BY <2>2 DEF Below, None, NULL, Pids
    <2> QED BY <2>1, <2>2
  <1>4. K = 0 .. n - 1
    BY <1>1, <1>2, <1>3
  <1>5. Depth(t) = n
    <2>1. Cardinality(0 .. n - 1) = n
      <3> HIDE DEF n
      <3>1. 0 \in Int /\ n - 1 \in Int
        BY <1>1
      <3>2. Cardinality(0 .. n - 1) = IF 0 > n - 1 THEN 0 ELSE n - 1 - 0 + 1
        BY <3>1, FS_Interval
      <3> QED BY <1>1, <3>2
    <2> QED BY <1>4, <2>1 DEF Depth
  <1>6. ASSUME NEW i \in 1 .. n PROVE Ancestor(t)[n - i] = s[i]
    <2>1. n - i \in 0 .. MaxProcesses /\ n - i < n /\ n - (n - i) = i
      BY <1>1
    <2> QED BY <1>2, <2>1 DEF Below
  <1>7. StackOf(t) = [i \in 1 .. n |-> s[i]]
    BY <1>5, <1>6 DEF StackOf
  <1> QED BY <1>1, <1>7

-----------------------------------------------------------------------------
(* The stacks the mapping gives to TermStacks. *)
Stacks == [t \in Terms |-> StackOf(t)]

(* The same after a step. *)
LEMMA StackIsNext == \A t, s : Chain(t, s)' => StackOf(t)' = s
  <1>1. (\A t, s : Chain(t, s) => StackOf(t) = s)'
    BY StackIs, PTL
  <1> QED BY <1>1

(* What the stacks are after a step. *)
LEMMA StacksNext ==
    ASSUME NEW f, f = [t \in Terms |-> f[t]], \A t \in Terms : Chain(t, f[t])'
    PROVE  Stacks' = f /\ Chained'
  <1>1. \A t \in Terms : StackOf(t)' = f[t]
    BY StackIsNext
  <1>2. Chained'
    BY <1>1 DEF Chained
  <1> QED BY <1>1, <1>2 DEF Stacks

(* A function on 1 .. n is a sequence. *)
LEMMA SeqOfElements ==
    ASSUME NEW s, NEW S, NEW n \in Nat, s \in [1 .. n -> S]
    PROVE  s \in Seq(S) /\ Len(s) = n
  OBVIOUS

(* A terminal whose processes a step leaves alone keeps its stack. *)
LEMMA ChainKept ==
    ASSUME NEW u, NEW s, Chain(u, s), active_processes'[u] = active_processes[u],
           \A p \in Live : term_num[p] = u =>
               procs'[p] /\ term_num'[p] = u /\ parent_pcb'[p] = parent_pcb[p]
    PROVE  Chain(u, s)'
  <1> DEFINE n == Len(s)
  <1>1. s \in Seq(Live) /\ n \in Nat /\ s \in [1 .. n -> Live]
    BY LenProperties DEF Chain
  <1>2. \A i \in 1 .. n : /\ s[i] \in Live /\ s[i] \in Live'
                           /\ term_num'[s[i]] = u /\ parent_pcb'[s[i]] = parent_pcb[s[i]]
    BY <1>1 DEF Chain, Live
  <1>3. s \in Seq(Live')
    <2>1. s \in [1 .. n -> Live']
      BY <1>1, <1>2
    <2> QED BY <1>1, <2>1, SeqOfElements
  <1> QED BY <1>2, <1>3 DEF Chain

(* A new base shell on terminal cur, which has no other process. *)
LEMMA ShellStack ==
    ASSUME TypeOK, Chained, NEW cur \in Terms, NEW pid \in Pids, NEW pr, NEW act,
           \A p \in Live : term_num[p] # cur => pr[p],
           \A u \in Terms : u # cur => act[u] = active_processes[u],
           pr \in [Pids -> BOOLEAN], act \in [Terms -> Pids \cup {None}],
           ~pr[pid],
           procs' = [pr EXCEPT ![pid] = TRUE],
           parent_pcb' = [parent_pcb EXCEPT ![pid] = NULL],
           term_num' = [term_num EXCEPT ![pid] = cur],
           active_processes' = [act EXCEPT ![cur] = pid]
    PROVE  Stacks' = [Stacks EXCEPT ![cur] = <<pid>>] /\ Chained'
  <1>1. PICK f : f = [Stacks EXCEPT ![cur] = <<pid>>]
    OBVIOUS
  <1>2. /\ f = [t \in Terms |-> f[t]]
        /\ \A t \in Terms : f[t] = IF t = cur THEN <<pid>> ELSE StackOf(t)
    BY <1>1 DEF Stacks
  <1>3. /\ procs'[pid] /\ parent_pcb'[pid] = NULL /\ term_num'[pid] = cur
        /\ active_processes'[cur] = pid
    BY DEF TypeOK
  <1>4. Chain(cur, f[cur])'
    <2>1. pid \in Live'
      BY <1>3 DEF Live
    <2>2. <<pid>> \in Seq(Live') /\ Len(<<pid>>) = 1 /\ <<pid>>[1] = pid
      BY <2>1
    <2>3. f[cur] = <<pid>>
      BY <1>2
    <2> QED BY <1>3, <2>2, <2>3 DEF Chain
  <1>5. ASSUME NEW u \in Terms, u # cur PROVE Chain(u, f[u])'
    <2>1. Chain(u, f[u])
      BY <1>2, <1>5 DEF Chained
    <2>2. active_processes'[u] = active_processes[u]
      BY <1>5
    <2>3. ASSUME NEW p \in Live, term_num[p] = u
          PROVE  procs'[p] /\ term_num'[p] = u /\ parent_pcb'[p] = parent_pcb[p]
      <3>1. p \in Pids /\ pr[p] /\ p # pid
        BY <1>5, <2>3 DEF Live
      <3> QED BY <2>3, <3>1 DEF TypeOK
    <2> QED BY <2>1, <2>2, <2>3, ChainKept
  <1>6. \A u \in Terms : Chain(u, f[u])'
    BY <1>4, <1>5
  <1> QED BY <1>1, <1>2, <1>6, StacksNext

(* execute by the active process of terminal t. *)
LEMMA PushedStack ==
    ASSUME TypeOK, ActiveLive, Chained, NEW t \in Terms, NEW pid \in Pids, ~procs[pid],
           active_processes[t] # None,
           procs' = [procs EXCEPT ![pid] = TRUE],
           parent_pcb' = [parent_pcb EXCEPT ![pid] = active_processes[t]],
           term_num' = [term_num EXCEPT ![pid] = t],
           active_processes' = [active_processes EXCEPT ![t] = pid]
    PROVE  Stacks' = [Stacks EXCEPT ![t] = Append(@, pid)] /\ Chained'
  <1>1. PICK s : s = StackOf(t)
    OBVIOUS
  <1>2. PICK f : f = [Stacks EXCEPT ![t] = Append(s, pid)]
    OBVIOUS
  <1>3. /\ f = [u \in Terms |-> f[u]]
        /\ f[t] = Append(s, pid) /\ \A u \in Terms : u # t => f[u] = StackOf(u)
    BY <1>2 DEF Stacks
  <1>4. /\ procs'[pid] /\ parent_pcb'[pid] = active_processes[t] /\ term_num'[pid] = t
        /\ active_processes'[t] = pid
    BY DEF TypeOK
  <1>5. \A p \in Live : /\ p # pid /\ procs'[p]
                         /\ term_num'[p] = term_num[p] /\ parent_pcb'[p] = parent_pcb[p]
    BY DEF TypeOK, Live
  <1>6. Chain(t, f[t])'
    <2> DEFINE n == Len(s)
               e == Append(s, pid)
    <2>1. Chain(t, s)
      BY <1>1 DEF Chained
    <2>2. s \in Seq(Live) /\ n \in Nat /\ s \in [1 .. n -> Live]
      BY <2>1, LenProperties DEF Chain
    <2>3. \A i \in 1 .. n : s[i] \in Live
      BY <2>2
    <2>4. n # 0 /\ s[n] = active_processes[t] /\ n \in 1 .. n
      BY <2>1, <2>2 DEF Chain
    <2>5. /\ Len(e) = n + 1 /\ e[n + 1] = pid
          /\ \A i \in 1 .. n : e[i] = s[i]
      BY <2>2
    <2>6. e \in Seq(Live')
      <3>1. pid \in Live' /\ Live \subseteq Live'
        BY <1>4, <1>5 DEF Live
      <3>2. s \in Seq(Live')
        BY <2>2, <3>1, SeqOfElements
      <3> QED BY <3>1, <3>2, AppendProperties
    <2> HIDE DEF e
    <2>7. \A i, j \in 1 .. n + 1 : e[i] = e[j] => i = j
      <3> SUFFICES ASSUME NEW i \in 1 .. n + 1, NEW j \in 1 .. n + 1, e[i] = e[j] PROVE i = j
        OBVIOUS
      <3>1. CASE i \in 1 .. n /\ j \in 1 .. n
        BY <2>1, <2>5, <3>1 DEF Chain
      <3>2. CASE i = n + 1 /\ j \in 1 .. n
        BY <1>5, <2>3, <2>5, <3>2
      <3>3. CASE i \in 1 .. n /\ j = n + 1
        BY <1>5, <2>3, <2>5, <3>3
      <3> QED BY <2>2, <3>1, <3>2, <3>3
    <2>8. ASSUME NEW i \in 1 .. n + 1
          PROVE  /\ term_num'[e[i]] = t
                 /\ parent_pcb'[e[i]] = IF i = 1 THEN NULL ELSE e[i - 1]
      <3>1. CASE i = n + 1
        <4>1. i # 1 /\ i - 1 = n
          BY <2>2, <2>4, <3>1
        <4> QED BY <1>4, <2>4, <2>5, <3>1, <4>1
      <3>2. CASE i # n + 1
        <4>1. i \in 1 .. n /\ (i # 1 => i - 1 \in 1 .. n)
          BY <2>2, <3>2
        <4>2. /\ term_num[s[i]] = t
              /\ parent_pcb[s[i]] = IF i = 1 THEN NULL ELSE s[i - 1]
          BY <2>1, <4>1 DEF Chain
        <4> QED BY <1>5, <2>3, <2>5, <4>1, <4>2
      <3> QED BY <3>1, <3>2
    <2>9. Len(e) # 0
      BY <2>2, <2>5
    <2>10. Chain(t, e)'
      BY <1>4, <2>5, <2>6, <2>7, <2>8, <2>9 DEF Chain
    <2> QED BY <1>3, <2>10 DEF e
  <1>7. ASSUME NEW u \in Terms, u # t PROVE Chain(u, f[u])'
    <2>1. Chain(u, f[u])
      BY <1>3, <1>7 DEF Chained
    <2>2. active_processes'[u] = active_processes[u]
      BY <1>7 DEF TypeOK
    <2> QED BY <1>5, <2>1, <2>2, ChainKept
  <1>8. \A u \in Terms : Chain(u, f[u])'
    BY <1>6, <1>7
  <1>9. f = [Stacks EXCEPT ![t] = Append(@, pid)]
    BY <1>1, <1>2 DEF Stacks
  <1> QED BY <1>3, <1>8, <1>9, StacksNext

(* halt of the active process of terminal t back to its parent. *)
LEMMA PoppedStack ==
    ASSUME TypeOK, Chained, NEW t \in Terms, NEW p \in Pids, NEW q \in Pids,
           active_processes[t] = p, term_num[p] = t, parent_pcb[p] = q,
           procs' = [procs EXCEPT ![p] = FALSE],
           UNCHANGED <<parent_pcb, term_num>>,
           active_processes' = [active_processes EXCEPT ![t] = q]
    PROVE  /\ Len(Stacks[t]) > 1
           /\ Stacks' = [Stacks EXCEPT ![t] = SubSeq(@, 1, Len(@) - 1)] /\ Chained'
  <1>1. PICK s : s = StackOf(t)
    OBVIOUS
  <1> DEFINE n == Len(s)
             e == SubSeq(s, 1, n - 1)
  <1>2. PICK f : f = [Stacks EXCEPT ![t] = e]
    OBVIOUS
  <1>3. /\ f = [u \in Terms |-> f[u]]
        /\ f[t] = e /\ \A u \in Terms : u # t => f[u] = StackOf(u)
    BY <1>2 DEF Stacks
  <1>4. Chain(t, s)
    BY <1>1 DEF Chained
  <1>5. s \in Seq(Live) /\ n \in Nat /\ s \in [1 .. n -> Live]
    BY <1>4, LenProperties DEF Chain
  <1>6. n # 0 /\ s[n] = p /\ n \in 1 .. n
    BY <1>4, <1>5 DEF Chain, None, Pids
  <1>7. n # 1 /\ s[n - 1] = q
    <2>1. parent_pcb[s[n]] = IF n = 1 THEN NULL ELSE s[n - 1]
      BY <1>4, <1>6 DEF Chain
    <2>2. q # NULL
      BY DEF NULL, Pids
    <2> HIDE DEF n
    <2> QED BY <1>6, <2>1, <2>2
  <1>8. \A r \in Live : r # p => procs'[r]
    BY DEF TypeOK, Live
  <1>9. Chain(t, e)'
    <2>1. /\ Len(e) = n - 1 /\ n - 1 \in Nat /\ n - 1 # 0
          /\ \A i \in 1 .. n - 1 : e[i] = s[i] /\ i \in 1 .. n /\ s[i] # p
          /\ e \in [1 .. n - 1 -> Live]
      <3>1. n - 1 \in Nat /\ n - 1 # 0
        BY <1>5, <1>6, <1>7
      <3>2. Len(e) = n - 1 /\ \A i \in 1 .. n - 1 : e[i] = s[i] /\ i \in 1 .. n
        BY <1>5, <3>1
      <3>3. \A i \in 1 .. n - 1 : s[i] # p
        <4>1. \A i \in 1 .. n : s[i] = s[n] => i = n
          BY <1>4, <1>6 DEF Chain
        <4> HIDE DEF n
        <4> QED BY <1>5, <1>6, <3>1, <4>1
      <3>4. e \in [1 .. n - 1 -> Live]
        <4>1. e \in Seq(Live)
          <5> HIDE DEF n
          <5> QED BY <1>5, <3>1
        <4>2. e \in [1 .. Len(e) -> Live]
          BY <4>1, LenProperties
        <4> QED BY <3>2, <4>2
      <3> QED BY <3>1, <3>2, <3>3, <3>4
    <2> HIDE DEF e
    <2>2. \A i \in 1 .. n - 1 : s[i] \in Live' /\ s[i] \in Live
      BY <1>5, <1>8, <2>1 DEF Live
    <2>3. e \in Seq(Live')
      <3>1. e \in [1 .. n - 1 -> Live']
        BY <2>1, <2>2
      <3> QED BY <2>1, <3>1, SeqOfElements
    <2>4. \A i, j \in 1 .. n - 1 : e[i] = e[j] => i = j
      BY <1>4, <2>1 DEF Chain
    <2>5. ASSUME NEW i \in 1 .. n - 1
          PROVE  /\ term_num'[e[i]] = t
                 /\ parent_pcb'[e[i]] = IF i = 1 THEN NULL ELSE e[i - 1]
      <3>1. i # 1 => i - 1 \in 1 .. n - 1
        BY <1>5
      <3>2. /\ term_num[s[i]] = t
            /\ parent_pcb[s[i]] = IF i = 1 THEN NULL ELSE s[i - 1]
        BY <1>4, <2>1 DEF Chain
      <3> QED BY <2>1, <3>1, <3>2
    <2>6. active_processes'[t] = e[n - 1]
      <3>1. active_processes'[t] = q
        BY DEF TypeOK
      <3> QED BY <1>7, <2>1, <3>1
    <2> QED BY <2>1, <2>3, <2>4, <2>5, <2>6 DEF Chain
  <1>10. ASSUME NEW u \in Terms, u # t PROVE Chain(u, f[u])'
    <2>1. Chain(u, f[u])
      BY <1>3, <1>10 DEF Chained
    <2>2. active_processes'[u] = active_processes[u]
      BY <1>10 DEF TypeOK
    <2> QED BY <1>8, <1>10, <2>1, <2>2, ChainKept
  <1>11. \A u \in Terms : Chain(u, f[u])'
    BY <1>3, <1>9, <1>10
  <1>12. Stacks[t] = s /\ f = [Stacks EXCEPT ![t] = SubSeq(@, 1, Len(@) - 1)]
    BY <1>1, <1>2 DEF Stacks
  <1>13. n > 1
    BY <1>5, <1>6, <1>7
  <1> QED BY <1>3, <1>11, <1>12, <1>13, StacksNext

(* A step that leaves the process table alone keeps every stack. *)
LEMMA SameStacks ==
    ASSUME Chained, UNCHANGED <<procs, parent_pcb, term_num, active_processes>>
    PROVE  Stacks' = Stacks /\ Chained'
  <1>1. PICK f : f = Stacks
    OBVIOUS
  <1>2. f = [t \in Terms |-> f[t]] /\ \A t \in Terms : Chain(t, f[t])
    BY <1>1 DEF Stacks, Chained
  <1>3. ASSUME NEW t \in Terms PROVE Chain(t, f[t])'
    BY <1>2, ChainKept DEF Live
  <1> QED BY <1>1, <1>2, <1>3, StacksNext

-----------------------------------------------------------------------------
(* The steps of the kernel are steps of TermStacks. *)

(* The terminal it puts on the CPU. *)
OnCpu == IF esp \in Pids THEN term_num[esp] ELSE None

(* A slot that is not in use is on no stack. *)
LEMMA FreeIsFresh ==
    ASSUME Chained, NEW p \in Pids, ~procs[p]
    PROVE  TS!Fresh(p)
  <1> SUFFICES ASSUME NEW t \in Terms, NEW i \in DOMAIN StackOf(t), p = StackOf(t)[i]
               PROVE  FALSE
    BY DEF TS!Fresh, TS!ToSet
  <1>1. StackOf(t) \in Seq(Live)
    BY DEF Chained, Chain
  <1>2. StackOf(t)[i] \in Live
    BY <1>1
  <1> QED BY <1>2 DEF Live

(* An empty stack is one without an active process. *)
LEMMA StackTop ==
    ASSUME Chained, TypeOK, NEW t \in Terms
    PROVE  /\ Len(Stacks[t]) \in Nat
           /\ active_processes[t] = None <=> Stacks[t] = <<>>
           /\ Len(Stacks[t]) = 0 <=> Stacks[t] = <<>>
  <1> DEFINE s == Stacks[t]
  <1>1. Chain(t, s)
    BY DEF Chained, Stacks
  <1> HIDE DEF s
  <1>2. s \in Seq(Live) /\ Len(s) \in Nat
    BY <1>1, LenProperties DEF Chain
  <1>3. Len(s) = 0 <=> s = <<>>
    BY <1>2, EmptySeq
  <1>4. Len(s) # 0 => s[Len(s)] # None
    <2> SUFFICES ASSUME Len(s) # 0 PROVE s[Len(s)] # None
      OBVIOUS
    <2>1. Len(s) \in 1 .. Len(s)
      BY <1>2
    <2>2. s[Len(s)] \in Live
      BY <1>2, <2>1, ElementOfSeq
    <2> QED BY <2>2 DEF Live, Pids, None
  <1>5. active_processes[t] = IF Len(s) = 0 THEN None ELSE s[Len(s)]
    BY <1>1 DEF Chain
  <1> QED BY <1>2, <1>3, <1>4, <1>5 DEF s

(* What execute does to the tables. *)
LEMMA ExecuteAdds ==
    ASSUME NEW stk, NEW how, NEW pr, NEW n, NEW act, NEW cur, NEW ctx,
           Execute(stk, how, pr, n, act, cur, ctx)
    PROVE  \E pid \in Pids :
             /\ ~pr[pid]
             /\ procs' = [pr EXCEPT ![pid] = TRUE]
             /\ parent_pcb' = [parent_pcb EXCEPT ![pid] = NewParent(stk, act, cur)]
             /\ term_num' = [term_num EXCEPT ![pid] = NewTerminal(stk, act, cur)]
             /\ active_processes' = [act EXCEPT ![NewTerminal(stk, act, cur)] = pid]
             /\ esp' = pid
  BY DEF Execute, AddProcess

(* start_terminal displays a terminal; from the boot code it also runs the  *)
(* first shell there.                                                       *)
LEMMA StartStacks ==
    ASSUME CalmInv, Chained, NEW t \in Terms, StartTerminal(t), ~next_execute
    PROVE  TS!Next /\ Chained'
  <1>1. TypeOK /\ TableInv /\ CpuInv /\ CountExact
    BY DEF CalmInv, TreeInv, TypeInv, TableInv
  <1>2. t # current_terminal /\ current_terminal' = t
    BY DEF StartTerminal
  <1>3. CASE \/ active_processes[t] # None
             \/ get_active_process(active_processes, current_terminal) # None
    <2>1. UNCHANGED <<procs, parent_pcb, term_num, active_processes, esp>>
      BY <1>3 DEF StartTerminal, tableVars, pcbVars, cpuVars
    <2>2. Stacks' = Stacks /\ Chained'
      BY <2>1, SameStacks
    <2>3. OnCpu' = OnCpu
      BY <2>1 DEF OnCpu
    <2>4. TS!Show(t)
      BY <1>2, <2>2, <2>3 DEF TS!Show, Stacks, OnCpu
    <2> QED BY <2>2, <2>4 DEF TS!Next
  <1>4. CASE /\ active_processes[t] = None
             /\ get_active_process(active_processes, current_terminal) = None
    <2>1. esp = Boot
      BY <1>1, <1>4 DEF CalmInv, PendingShell, get_active_process, TypeOK
    <2>2. \A u \in Terms : active_processes[u] = None
      BY <1>1, <2>1 DEF CpuInv, BootEmpty
    <2>3. ~TableFull(procs)
      BY <1>1, <1>4, FreeSlot DEF StartTerminal
    <2>4. Execute(esp, "start", procs, proc_count, active_processes, t, context)
      BY <1>4, <2>3 DEF StartTerminal, ExecuteLoop
    <2>5. NewParent(esp, active_processes, t) = NULL /\ NewTerminal(esp, active_processes, t) = t
      BY <1>4 DEF NewParent, NewTerminal, curr_terminal_running_process, get_active_process
    <2>6. PICK pid \in Pids :
             /\ ~procs[pid]
             /\ procs' = [procs EXCEPT ![pid] = TRUE]
             /\ parent_pcb' = [parent_pcb EXCEPT ![pid] = NULL]
             /\ term_num' = [term_num EXCEPT ![pid] = t]
             /\ active_processes' = [active_processes EXCEPT ![t] = pid]
             /\ esp' = pid
      BY <2>4, <2>5, ExecuteAdds
    <2>7. /\ procs \in [Pids -> BOOLEAN] /\ active_processes \in [Terms -> Pids \cup {None}]
          /\ \A p \in Live : term_num[p] # t => procs[p]
      BY <1>1 DEF TypeOK, Live
    <2>8. Stacks' = [Stacks EXCEPT ![t] = <<pid>>] /\ Chained'
      BY <1>1, <2>6, <2>7, ShellStack
    <2>9. OnCpu = None /\ OnCpu' = t
      BY <1>1, <2>1, <2>6 DEF OnCpu, Boot, Pids, TypeOK
    <2>10. TS!First(t, pid)
      BY <1>2, <2>8, <2>9 DEF TS!First, Stacks, OnCpu
    <2> QED BY <2>8, <2>10 DEF TS!Next
  <1> QED BY <1>3, <1>4

(* The execute system call pushes the new program on its caller's stack. *)
LEMMA UserExecuteStacks ==
    ASSUME CalmInv, Chained, UserExecute, ~next_execute
    PROVE  TS!Next /\ Chained'
  <1> DEFINE t == term_num[esp]
  <1>1. /\ TypeOK /\ TableInv /\ ActiveLive /\ esp \in Pids /\ current_terminal \in Terms
        /\ t \in Terms /\ active_processes[t] = esp
        /\ active_processes[current_terminal] # None
        /\ esp # None /\ t # None
    BY DEF CalmInv, TreeInv, TypeInv, TypeOK, TableInv, ProcessTree, CpuInv, RunningActive,
           PendingShell, UserExecute, InUser, None, Pids, Terms
  <1>2. /\ Execute(esp, "syscall", procs, proc_count, active_processes,
                   current_terminal, context)
        /\ current_terminal' = current_terminal
    BY DEF UserExecute, termVars
  <1>3. /\ NewParent(esp, active_processes, current_terminal) = esp
        /\ NewTerminal(esp, active_processes, current_terminal) = t
    BY <1>1 DEF NewParent, NewTerminal, curr_terminal_running_process, get_active_process
  <1>4. PICK pid \in Pids :
           /\ ~procs[pid]
           /\ procs' = [procs EXCEPT ![pid] = TRUE]
           /\ parent_pcb' = [parent_pcb EXCEPT ![pid] = esp]
           /\ term_num' = [term_num EXCEPT ![pid] = t]
           /\ active_processes' = [active_processes EXCEPT ![t] = pid]
           /\ esp' = pid
    BY <1>2, <1>3, ExecuteAdds
  <1>5. PICK u \in Terms : u = t
    BY <1>1
  <1>6. /\ active_processes[u] # None /\ parent_pcb' = [parent_pcb EXCEPT ![pid] = active_processes[u]]
        /\ term_num' = [term_num EXCEPT ![pid] = u]
        /\ active_processes' = [active_processes EXCEPT ![u] = pid]
    BY <1>1, <1>4, <1>5
  <1>7. Stacks' = [Stacks EXCEPT ![u] = Append(@, pid)] /\ Chained'
    BY <1>1, <1>4, <1>6, PushedStack
  <1>8. OnCpu = u /\ OnCpu' = u /\ u # None
    BY <1>1, <1>4, <1>5 DEF OnCpu, TypeOK
  <1>9. TS!Fresh(pid)
    BY <1>4, FreeIsFresh
  <1>10. TS!Call(pid)
    BY <1>2, <1>7, <1>8, <1>9 DEF TS!Call, Stacks, OnCpu
  <1> QED BY <1>7, <1>10 DEF TS!Next

(* The PIT launches a scheduled shell on the displayed terminal, which has  *)
(* none, or dispatches a terminal.                                          *)
LEMMA PitStacks ==
    ASSUME CalmInv, Chained, Pit
    PROVE  TS!Next /\ Chained'
  <1> DEFINE saved == SavedContexts
  <1>1. /\ TypeOK /\ TableInv /\ ActiveLive /\ esp \in Pids /\ current_terminal \in Terms
        /\ active_processes[term_num[esp]] = esp /\ term_num[esp] \in Terms
        /\ cr3 = esp /\ tss_esp0 = esp /\ current_terminal # None /\ esp # None
        /\ current_terminal' = current_terminal
    BY DEF CalmInv, TreeInv, TypeInv, TypeOK, TableInv, ProcessTree, CpuInv, RunningActive,
           AddressSpace, Pit, None, Terms, Pids
  <1>2. CASE next_execute
    <2>1. ~TableFull(procs) /\ active_processes[current_terminal] = None
      BY <1>1, <1>2 DEF CalmInv, PendingShell
    <2>2. Execute(esp, "pit", procs, proc_count, active_processes, current_terminal, saved)
      BY <1>2, <2>1 DEF Pit
    <2>3. /\ NewParent(esp, active_processes, current_terminal) = NULL
          /\ NewTerminal(esp, active_processes, current_terminal) = current_terminal
      BY <2>1 DEF NewParent, NewTerminal, curr_terminal_running_process, get_active_process
    <2> HIDE DEF saved
    <2>4. PICK pid \in Pids :
             /\ ~procs[pid]
             /\ procs' = [procs EXCEPT ![pid] = TRUE]
             /\ parent_pcb' = [parent_pcb EXCEPT ![pid] = NULL]
             /\ term_num' = [term_num EXCEPT ![pid] = current_terminal]
             /\ active_processes' = [active_processes EXCEPT ![current_terminal] = pid]
             /\ esp' = pid
      BY <2>2, <2>3, ExecuteAdds
    <2>5. /\ procs \in [Pids -> BOOLEAN] /\ active_processes \in [Terms -> Pids \cup {None}]
          /\ \A p \in Live : procs[p]
      BY <1>1 DEF TypeOK, Live
    <2>6. PICK cur \in Terms : cur = current_terminal
      BY <1>1
    <2>7. Stacks' = [Stacks EXCEPT ![cur] = <<pid>>] /\ Chained'
      BY <1>1, <2>4, <2>5, <2>6, ShellStack
    <2>8. Stacks[cur] = <<>> /\ cur # None
      BY <1>1, <2>1, <2>6, StackTop
    <2>9. OnCpu' = cur
      BY <1>1, <2>4, <2>6 DEF OnCpu, TypeOK
    <2>10. TS!Fresh(pid)
      BY <2>4, FreeIsFresh
    <2>11. TS!Launch(pid)
      BY <1>1, <2>6, <2>7, <2>8, <2>9, <2>10 DEF TS!Launch, Stacks, OnCpu
    <2> QED BY <2>7, <2>11 DEF TS!Next
  <1>3. CASE ~next_execute
    <2>1. /\ Schedule(esp, active_processes, saved, esp, esp)
          /\ UNCHANGED <<procs, active_processes, parent_pcb, term_num>>
      BY <1>1, <1>3 DEF Pit, tableVars, pcbVars
    <2>2. active_processes \in [Terms -> Pids \cup {None}] /\ term_num[esp] \in Terms
      BY <1>1 DEF TypeOK
    <2> HIDE DEF saved
    <2>3. PICK t \in Terms : active_processes[t] = esp' /\ esp' \in Pids
      BY <1>1, <2>1, <2>2, ScheduleRuns
    <2>4. Stacks' = Stacks /\ Chained'
      BY <2>1, SameStacks
    <2>5. active_processes[t] # None /\ term_num[esp'] = t
      BY <1>1, <2>3 DEF ActiveLive, None, Pids
    <2>6. Stacks[t] # <<>>
      BY <1>1, <2>5, StackTop
    <2>7. OnCpu' = t
      BY <2>1, <2>3, <2>5 DEF OnCpu
    <2>8. TS!Dispatch(t)
      BY <1>1, <2>4, <2>6, <2>7 DEF TS!Dispatch, Stacks, OnCpu
    <2> QED BY <2>4, <2>8 DEF TS!Next
  <1> QED BY <1>2, <1>3

(* The base shell of a terminal is all of its stack when it is active. *)
LEMMA BaseStack ==
    ASSUME Chained, NEW t \in Terms, NEW p \in Pids, active_processes[t] = p,
           parent_pcb[p] = NULL
    PROVE  Stacks[t] = <<p>>
  <1> DEFINE s == Stacks[t]
             n == Len(s)
  <1>1. Chain(t, s)
    BY DEF Chained, Stacks
  <1> HIDE DEF s
  <1>2. s \in Seq(Live) /\ n \in Nat /\ s \in [1 .. n -> Live]
    BY <1>1, LenProperties DEF Chain
  <1>3. n # 0 /\ s[n] = p /\ n \in 1 .. n
    BY <1>1, <1>2 DEF Chain, None, Pids
  <1>4. n = 1
    <2> SUFFICES ASSUME n # 1 PROVE FALSE
      OBVIOUS
    <2>1. NULL = s[n - 1] /\ n - 1 \in 1 .. n
      <3>1. parent_pcb[s[n]] = IF n = 1 THEN NULL ELSE s[n - 1]
        BY <1>1, <1>3 DEF Chain
      <3>2. n - 1 \in 1 .. n
        BY <1>2, <1>3
      <3> QED BY <1>3, <3>1, <3>2
    <2>2. s[n - 1] \in Live
      BY <1>2, <2>1
    <2> QED BY <2>1, <2>2 DEF Live, NULL, Pids
  <1>5. s = <<p>>
    BY <1>2, <1>3, <1>4
  <1> QED BY <1>5 DEF s

(* halt pops the program off its stack, or replaces the base shell. *)
LEMMA HaltStacks ==
    ASSUME CalmInv, Chained, Halt, "halt" \notin Races
    PROVE  TS!Next /\ Chained'
  <1> DEFINE q    == parent_pcb[esp]
             gone == delete_process(procs, esp)
             back == set_active_process(term_num[q], q)
             bare == set_active_process(term_num[esp], None)
  <1>1. /\ TreeInv /\ TypeOK /\ TableInv /\ esp \in Live
        /\ esp \in Pids /\ current_terminal \in Terms
        /\ active_processes[term_num[esp]] = esp /\ term_num[esp] \in Terms
        /\ current_terminal' = current_terminal /\ term_num[esp] # None
    BY DEF CalmInv, TreeInv, TypeInv, TypeOK, CpuInv, RunningActive, Halt, InUser, Live,
           None, Terms, termVars
  <1>2. PICK p \in Pids, t \in Terms : p = esp /\ t = term_num[esp]
    BY <1>1
  <1>3. OnCpu = t /\ t # None
    BY <1>1, <1>2 DEF OnCpu
  <1>4. CASE q # NULL
    <2>1. /\ q \in Pids /\ term_num[q] = t /\ esp_parent[esp] = "syscall"
      BY <1>1, <1>2, <1>4 DEF TypeOK, TableInv, ProcessTree, ParentWaits,
         CalmInv, ControlSafe, FramesWait
    <2>2. ReturnTo(q, gone, proc_count - 1, back, q, q)
      BY <1>4 DEF Halt
    <2>3. /\ procs' = gone /\ active_processes' = back /\ esp' = q
          /\ UNCHANGED <<parent_pcb, term_num>>
      BY <2>1, <2>2 DEF ReturnTo, pcbVars
    <2>4. PICK r \in Pids : r = q
      BY <2>1
    <2>5. /\ active_processes[t] = p /\ term_num[p] = t /\ parent_pcb[p] = r
          /\ procs' = [procs EXCEPT ![p] = FALSE]
          /\ active_processes' = [active_processes EXCEPT ![t] = r]
      BY <1>1, <1>2, <2>1, <2>3, <2>4 DEF delete_process, set_active_process
    <2>6. /\ Len(Stacks[t]) > 1
          /\ Stacks' = [Stacks EXCEPT ![t] = SubSeq(@, 1, Len(@) - 1)] /\ Chained'
      <3>1. TypeOK /\ UNCHANGED <<parent_pcb, term_num>>
        BY <1>1, <2>3
      <3> HIDE DEF q, gone, back, bare
      <3> QED BY <2>5, <3>1, PoppedStack
    <2>7. OnCpu' = t
      BY <2>1, <2>3 DEF OnCpu
    <2>8. TS!Return
      BY <1>1, <1>3, <2>6, <2>7 DEF TS!Return, TS!Front, Stacks, OnCpu
    <2> QED BY <2>6, <2>8 DEF TS!Next
  <1>5. CASE q = NULL
    <2>1. ExecuteLoop(esp, "halt", gone, proc_count - 1, bare,
                      current_terminal, Boot, tss_esp0)
      BY <1>5 DEF Halt
    <2>2. current_terminal = t
      BY <1>2, <1>5 DEF Halt, BaseHaltAllowed
    <2>3. /\ gone \in [Pids -> BOOLEAN] /\ bare \in [Terms -> Pids \cup {None}]
          /\ bare[t] = None /\ ~gone[esp]
          /\ \A u \in Terms : u # t => bare[u] = active_processes[u]
          /\ \A r \in Live : term_num[r] # t => gone[r]
          /\ \A r \in Pids : ~gone[r] => r = p \/ ~procs[r]
      BY <1>1, <1>2 DEF TypeOK, delete_process, set_active_process, Live
    <2> HIDE DEF q, gone, back, bare
    <2>4. Execute(esp, "halt", gone, proc_count - 1, bare, t, context)
      BY <1>1, <2>1, <2>2, <2>3 DEF ExecuteLoop, TableFull
    <2>5. NewParent(esp, bare, t) = NULL /\ NewTerminal(esp, bare, t) = t
      BY <2>3 DEF NewParent, NewTerminal, curr_terminal_running_process, get_active_process
    <2>6. PICK pid \in Pids :
             /\ ~gone[pid]
             /\ procs' = [gone EXCEPT ![pid] = TRUE]
             /\ parent_pcb' = [parent_pcb EXCEPT ![pid] = NULL]
             /\ term_num' = [term_num EXCEPT ![pid] = t]
             /\ active_processes' = [bare EXCEPT ![t] = pid]
             /\ esp' = pid
      BY <2>4, <2>5, ExecuteAdds
    <2>7. Stacks' = [Stacks EXCEPT ![t] = <<pid>>] /\ Chained'
      BY <1>1, <2>3, <2>6, ShellStack
    <2>8. OnCpu' = t
      BY <1>1, <2>6 DEF OnCpu, TypeOK
    <2>9. Stacks[t] = <<p>> /\ Len(Stacks[t]) = 1
      <3>1. active_processes[t] = p /\ parent_pcb[p] = NULL
        BY <1>1, <1>2, <1>5 DEF q
      <3>2. Stacks[t] = <<p>>
        BY <3>1, BaseStack
      <3> QED BY <3>2
    <2>10. TS!Fresh(pid) \/ Stacks[t] = <<pid>>
      BY <2>3, <2>6, <2>9, FreeIsFresh
    <2>11. TS!Respawn(pid)
      BY <1>1, <1>3, <2>7, <2>8, <2>9, <2>10 DEF TS!Respawn, Stacks, OnCpu
    <2> QED BY <2>7, <2>11 DEF TS!Next
  <1> QED BY <1>4, <1>5

(* One step of the calm environment is one of TermStacks or changes no     *)
(* stack.                                                                   *)
LEMMA StacksStep ==
    ASSUME Races = {}
    PROVE  CalmInv /\ Chained /\ [Next]_vars => [TS!Next]_TS!vars /\ Chained'
  <1> SUFFICES ASSUME CalmInv, Chained, [Next]_vars PROVE [TS!Next]_TS!vars /\ Chained'
    OBVIOUS
  <1>1. CASE BootStart
    <2>1. 0 \in Terms /\ ~next_execute
      BY <1>1, KernelAssumption DEF Terms, BootStart, CalmInv, TreeInv, CpuInv,
         BootEmpty
    <2> QED BY <1>1, <2>1, StartStacks DEF BootStart
  <1>2. ASSUME NEW t \in Terms, SwitchKey(t) PROVE [TS!Next]_TS!vars /\ Chained'
    BY <1>2, StartStacks DEF SwitchKey
  <1>3. CASE UserExecute
    BY <1>3, UserExecuteStacks DEF UserExecute
  <1>4. CASE OpenRtc \/ CloseRtc \/ PitIdle \/ UNCHANGED vars
    <2>1. UNCHANGED <<procs, active_processes, current_terminal, parent_pcb, term_num, esp>>
      BY <1>4 DEF OpenRtc, CloseRtc, PitIdle, vars, tableVars, pcbVars, termVars, cpuVars
    <2>2. Stacks' = Stacks /\ Chained'
      BY <2>1, SameStacks
    <2>3. OnCpu' = OnCpu
      BY <2>1 DEF OnCpu
    <2> QED BY <2>1, <2>2, <2>3 DEF TS!vars, Stacks, OnCpu
  <1>5. CASE Halt
    BY <1>5, HaltStacks
  <1>6. CASE HaltClose
    BY <1>6 DEF HaltClose
  <1>7. CASE HaltSetPd \/ HaltSetTss \/ HaltSetActive \/ HaltJump
    BY <1>7 DEF HaltSetPd, HaltSetTss, HaltSetActive, HaltJump, At, CalmInv,
                TreeInv, CpuInv, NoHaltWindow
  <1>8. CASE Pit
    BY <1>8, PitStacks
  <1> QED
    BY <1>1, <1>2, <1>3, <1>4, <1>5, <1>6, <1>7, <1>8 DEF Next

(* The kernel boots with empty stacks. *)
LEMMA StacksInit == Init => Chained /\ TS!Init
  <1> SUFFICES ASSUME Init PROVE Chained /\ TS!Init
    OBVIOUS
  <1>1. ASSUME NEW t \in Terms PROVE Chain(t, <<>>)
    <2>1. <<>> \in Seq(Live) /\ Len(<<>>) = 0
      OBVIOUS
    <2>2. active_processes[t] = None
      BY DEF Init
    <2> QED BY <2>1, <2>2 DEF Chain
  <1>2. \A t \in Terms : StackOf(t) = <<>>
    BY <1>1, StackIs
  <1>3. esp \notin Pids
    BY DEF Init, Boot, Pids
  <1>4. TS!Init
    BY <1>2, <1>3 DEF Init, TS!Init
  <1> QED BY <1>1, <1>2, <1>4 DEF Chained

(* When the environment races nothing, execute, halt, the scheduler and the *)
(* start of terminals are pushes, pops and dispatches on one stack of       *)
(* programs per terminal: halt always resumes the program that called       *)
(* execute, on its own terminal.                                            *)
THEOREM RefinesTermStacksHolds ==
    ASSUME Races = {}
    PROVE  Spec => RefinesTermStacks
  <1>1. Init => CalmInv /\ Chained /\ TS!Init
    BY CalmInvInit, StacksInit
  <1>2. CalmInv /\ Chained /\ [Next]_vars => CalmInv' /\ Chained' /\ [TS!Next]_TS!vars
    BY CalmInvStep, StacksStep
  <1> QED BY <1>1, <1>2, PTL DEF Spec, RefinesTermStacks, TS!Spec

-----------------------------------------------------------------------------
(* Keys may race with a scheduled shell, but execute calls may not: execute *)
(* hands the CPU over.                                                      *)

(* While the displayed terminal has no process its shell is scheduled and   *)
(* has a slot.                                                              *)
ShownHasShell ==
    (esp \in Pids /\ active_processes[current_terminal] = None) =>
        next_execute /\ ~TableFull(procs)

HandInv == TreeInv /\ ShownHasShell

(* execute never leaves the displayed terminal without a process. *)
LEMMA ExecuteShows ==
    ASSUME TypeOK, NEW stk \in Pids \cup {Boot}, NEW how, NEW pr, NEW n,
           NEW act \in [Terms -> Pids \cup {None}], NEW cur \in Terms, NEW ctx,
           act[cur] # None => stk \in Pids,
           Execute(stk, how, pr, n, act, cur, ctx)
    PROVE  active_processes'[cur] # None
  <1> DEFINE term == NewTerminal(stk, act, cur)
  <1>1. PICK pid \in Pids : active_processes' = [act EXCEPT ![term] = pid]
    BY ExecuteAdds
  <1>2. term \in Terms /\ (act[cur] = None => term = cur)
    BY DEF TypeOK, NewTerminal, curr_terminal_running_process, get_active_process
  <1> HIDE DEF term
  <1> QED BY <1>1, <1>2 DEF None, Pids

(* start_terminal. *)
LEMMA StartShows ==
    ASSUME HandInv, NEW t \in Terms, StartTerminal(t)
    PROVE  ShownHasShell'
  <1>1. TypeOK /\ TableInv /\ CountExact /\ current_terminal' = t
    BY DEF HandInv, TreeInv, TypeInv, TableInv, StartTerminal
  <1>2. CASE active_processes[t] # None
    BY <1>1, <1>2 DEF StartTerminal, ShownHasShell
  <1>3. CASE active_processes[t] = None
    <2>1. ~TableFull(procs)
      BY <1>1, <1>3, FreeSlot DEF StartTerminal
    <2>2. CASE get_active_process(active_processes, current_terminal) # None
      BY <1>1, <1>3, <2>1, <2>2 DEF StartTerminal, ShownHasShell, schedule_for_execution,
         tableVars, TableFull
    <2>3. CASE get_active_process(active_processes, current_terminal) = None
      <3>1. Execute(esp, "start", procs, proc_count, active_processes, t, context)
        BY <1>3, <2>1, <2>3 DEF StartTerminal, ExecuteLoop
      <3>2. active_processes'[t] # None
        BY <1>1, <1>3, <3>1, ExecuteShows DEF TypeOK
      <3> QED BY <1>1, <3>2 DEF ShownHasShell
    <2> QED BY <2>2, <2>3
  <1> QED BY <1>2, <1>3

(* halt. *)
LEMMA HaltShows ==
    ASSUME HandInv, Halt, "halt" \notin Races
    PROVE  ShownHasShell'
  <1> DEFINE q    == parent_pcb[esp]
             gone == delete_process(procs, esp)
             back == set_active_process(term_num[q], q)
             bare == set_active_process(term_num[esp], None)
  <1>1. /\ TypeOK /\ TableInv /\ esp \in Live /\ esp \in Pids /\ current_terminal \in Terms
        /\ UNCHANGED <<current_terminal, next_execute>> /\ term_num[esp] \in Terms
    BY DEF HandInv, TreeInv, TypeInv, TypeOK, CpuInv, RunningActive, Halt, InUser, Live, termVars
  <1>2. ~gone[esp] /\ ~TableFull(gone)
    BY <1>1 DEF TypeOK, TableFull, delete_process
  <1>3. CASE q # NULL
    <2>1. q \in Pids /\ q # None /\ esp_parent[esp] \in {"syscall", "pit"}
      BY <1>1, <1>3 DEF TypeOK, TableInv, ParentFrames, None, Pids
    <2>2. ReturnTo(q, gone, proc_count - 1, back, q, q)
      BY <1>3 DEF Halt
    <2>3. procs' = gone /\ active_processes' = back
      BY <2>1, <2>2 DEF ReturnTo
    <2>4. active_processes'[current_terminal] = None => active_processes[current_terminal] = None
      BY <1>1, <2>1, <2>3 DEF TypeOK, set_active_process
    <2> HIDE DEF gone
    <2> QED BY <1>1, <1>2, <2>3, <2>4 DEF HandInv, ShownHasShell, TableFull
  <1>4. CASE q = NULL
    <2>1. ExecuteLoop(esp, "halt", gone, proc_count - 1, bare,
                      current_terminal, Boot, tss_esp0)
      BY <1>4 DEF Halt
    <2>2. bare \in [Terms -> Pids \cup {None}]
      BY <1>1 DEF TypeOK, set_active_process
    <2> HIDE DEF q, gone, back, bare
    <2>3. Execute(esp, "halt", gone, proc_count - 1, bare, current_terminal, context)
      BY <1>2, <2>1 DEF ExecuteLoop
    <2>4. active_processes'[current_terminal] # None
      BY <1>1, <2>2, <2>3, ExecuteShows
    <2> QED BY <1>1, <2>4 DEF ShownHasShell
  <1> QED BY <1>3, <1>4

(* pit_handler_main. *)
LEMMA PitShows ==
    ASSUME HandInv, Pit
    PROVE  ShownHasShell'
  <1> DEFINE saved == SavedContexts
  <1>1. /\ TypeOK /\ esp \in Pids /\ current_terminal \in Terms
        /\ current_terminal' = current_terminal
        /\ active_processes \in [Terms -> Pids \cup {None}]
    BY DEF HandInv, TreeInv, TypeInv, TypeOK, CpuInv, RunningActive, Pit
  <1>2. CASE Execute(esp, "pit", procs, proc_count, active_processes, current_terminal, saved)
    <2> HIDE DEF saved
    <2>1. active_processes'[current_terminal] # None
      BY <1>1, <1>2, ExecuteShows
    <2> QED BY <1>1, <2>1 DEF ShownHasShell
  <1>3. CASE /\ ~next_execute \/ TableFull(procs)
             /\ UNCHANGED active_processes
    BY <1>1, <1>3 DEF HandInv, ShownHasShell
  <1> QED BY <1>2, <1>3 DEF Pit

(* One step, in the environments considered. *)
LEMMA HandInvStep ==
    ASSUME "exec" \notin Races, "halt" \notin Races, "rtc" \notin Races
    PROVE  HandInv /\ [Next]_vars => HandInv'
  <1> SUFFICES ASSUME HandInv, [Next]_vars PROVE ShownHasShell'
    BY TreeInvStep DEF HandInv
  <1>1. CASE BootStart
    <2>1. 0 \in Terms
      BY KernelAssumption DEF Terms
    <2> QED BY <1>1, <2>1, StartShows DEF BootStart
  <1>2. ASSUME NEW t \in Terms, SwitchKey(t) PROVE ShownHasShell'
    BY <1>2, StartShows DEF SwitchKey
  <1>3. CASE UserExecute
    <2>1. /\ TypeOK /\ esp \in Pids /\ current_terminal \in Terms
          /\ current_terminal' = current_terminal
          /\ active_processes \in [Terms -> Pids \cup {None}]
      BY <1>3 DEF HandInv, TreeInv, TypeInv, TypeOK, CpuInv, RunningActive, UserExecute,
         InUser, termVars
    <2>2. active_processes'[current_terminal] # None
      BY <1>3, <2>1, ExecuteShows DEF UserExecute
    <2> QED BY <2>1, <2>2 DEF ShownHasShell
  <1>4. CASE OpenRtc \/ CloseRtc \/ PitIdle \/ UNCHANGED vars
    <2>1. UNCHANGED <<procs, active_processes, current_terminal, next_execute, esp>>
      BY <1>4 DEF OpenRtc, CloseRtc, PitIdle, vars, tableVars, pcbVars, termVars, cpuVars
    <2> QED BY <2>1 DEF HandInv, ShownHasShell, TableFull
  <1>5. CASE Halt
    BY <1>5, HaltShows
  <1>6. CASE HaltClose
    BY <1>6 DEF HaltClose
  <1>7. CASE HaltSetPd \/ HaltSetTss \/ HaltSetActive \/ HaltJump
    BY <1>7 DEF HaltSetPd, HaltSetTss, HaltSetActive, HaltJump, At, HandInv,
                TreeInv, CpuInv, NoHaltWindow
  <1>8. CASE Pit
    BY <1>8, PitShows
  <1> QED
    BY <1>1, <1>2, <1>3, <1>4, <1>5, <1>6, <1>7, <1>8 DEF Next

(* After the execute system call its caller is active nowhere. *)
LEMMA HandsOver ==
    ASSUME HandInv, UserExecute, "exec" \notin Races
    PROVE  \A t \in Terms : active_processes'[t] # esp
  <1> DEFINE u == term_num[esp]
  <1>1. /\ TypeOK /\ TreeInv /\ esp \in Pids /\ procs[esp] /\ current_terminal \in Terms
        /\ u \in Terms /\ ~next_execute
    BY DEF HandInv, TreeInv, TypeInv, TypeOK, CpuInv, RunningActive, UserExecute, InUser
  <1>2. NewTerminal(esp, active_processes, current_terminal) = u
    BY <1>1 DEF HandInv, ShownHasShell, NewTerminal, curr_terminal_running_process,
       get_active_process
  <1>3. PICK pid \in Pids : ~procs[pid] /\ active_processes' = [active_processes EXCEPT ![u] = pid]
    BY <1>2, ExecuteAdds DEF UserExecute
  <1>4. \A t \in Terms : t # u => active_processes[t] # esp
    BY <1>1, OtherActive
  <1> QED BY <1>1, <1>3, <1>4 DEF TypeOK

(* As long as no program calls execute while a shell is scheduled, execute  *)
(* takes its caller off the scheduler's list until the new program halts,   *)
(* whatever keys race with the scheduled shell.                             *)
THEOREM ExecuteHandsOffHolds ==
    ASSUME "exec" \notin Races, "halt" \notin Races, "rtc" \notin Races
    PROVE  Spec => ExecuteHandsOff
  <1>1. Init => HandInv
    <2>1. Init => ShownHasShell
      BY DEF Init, ShownHasShell, Boot, Pids
    <2> QED BY <2>1, TreeInvInit DEF HandInv
  <1>2. HandInv /\ [Next]_vars => HandInv'
    BY HandInvStep
  <1>3. HandInv /\ [Next]_vars =>
          [UserExecute => \A t \in Terms : active_processes'[t] # esp]_vars
    BY HandsOver
  <1> QED BY <1>1, <1>2, <1>3, PTL DEF Spec, ExecuteHandsOff
=============================================================================
