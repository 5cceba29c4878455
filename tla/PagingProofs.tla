---------------------------- MODULE PagingProofs ----------------------------
(***************************************************************************)
(* Proofs about module Paging, for every number of slots and terminals and *)
(* with every race but that of rtc_close inside halt.  In particular base  *)
(* shells may end on any terminal, which breaks the process tree of module *)
(* Kernel, but not the address spaces.                                     *)
(***************************************************************************)
EXTENDS Paging, KernelProofs

Directories == [kernel : Terms, user : Terms, present : BOOLEAN,
                program : Pids \cup {NULL}]

(* The slots that a program was loaded into since the kernel booted. *)
Loaded == {p \in Pids : pd[p].program = p}

PdType ==
    /\ pd \in [Pids \cup {Boot} -> Directories]
    /\ asked \subseteq Pids

(* Every directory maps the screen of the terminal in its slot's pcb, and   *)
(* maps it for the user exactly if the slot's last program asked.           *)
PdScreens ==
    \A p \in Pids : /\ pd[p].kernel = term_num[p]
                    /\ pd[p].user = term_num[p]
                    /\ pd[p].present <=> p \in asked

(* Whatever the kernel may run or return to has been loaded: a dead parent  *)
(* or a dead active process has its directory still.                        *)
RunsLoaded ==
    /\ Live \subseteq Loaded
    /\ esp \in Loaded \cup {Boot}
    /\ \A t \in Terms : active_processes[t] \in Loaded \cup {None}
    /\ \A p \in Pids : parent_pcb[p] \in Loaded \cup {NULL}

PagingInv ==
    /\ TypeInv
    /\ NoHaltWindow
    /\ AddressSpace
    /\ PdType
    /\ PdScreens
    /\ RunsLoaded

-----------------------------------------------------------------------------
(* What a step of the kernel does to the state that the directories depend  *)
(* on: it starts a process, or it starts none.                              *)

Starts ==
    /\ esp' \in Pids /\ AddressSpace' /\ NoHaltWindow'
    /\ \E q \in Loaded \cup {NULL} : parent_pcb' = [parent_pcb EXCEPT ![esp'] = q]
    /\ \E t \in Terms : term_num' = [term_num EXCEPT ![esp'] = t]
    /\ \A t \in Terms : active_processes'[t] \in Loaded \cup {None, esp'}
    /\ \A p \in Pids : procs'[p] => procs[p] \/ p = esp'

StartsNone ==
    /\ esp' \in Loaded \cup {Boot} /\ AddressSpace' /\ NoHaltWindow'
    /\ UNCHANGED <<parent_pcb, term_num>>
    /\ \A t \in Terms : active_processes'[t] \in Loaded \cup {None}
    /\ \A p \in Pids : procs'[p] => procs[p]

(* execute. *)
LEMMA ExecuteStarts ==
    ASSUME TypeOK, NoHaltWindow,
           NEW stk \in Loaded \cup {Boot}, NEW how,
           NEW pr \in [Pids -> BOOLEAN], \A p \in Pids : pr[p] => procs[p],
           NEW n, NEW act \in [Terms -> Pids \cup {None}],
           \A t \in Terms : act[t] \in Loaded \cup {None},
           NEW cur \in Terms, NEW ctx,
           stk = Boot => act[cur] = None,
           Execute(stk, how, pr, n, act, cur, ctx)
    PROVE  Starts /\ proc_count' = n + 1
  <1> DEFINE parent == NewParent(stk, act, cur)
             term   == NewTerminal(stk, act, cur)
  <1>1. PICK pid \in Pids :
            /\ procs' = [pr EXCEPT ![pid] = TRUE]
            /\ proc_count' = n + 1
            /\ parent_pcb' = [parent_pcb EXCEPT ![pid] = parent]
            /\ term_num' = [term_num EXCEPT ![pid] = term]
            /\ active_processes' = [act EXCEPT ![term] = pid]
            /\ cr3' = pid /\ tss_esp0' = pid /\ esp' = pid
            /\ pc' = [pc EXCEPT ![pid] = "user"]
    BY DEF Execute
  <1>2. parent \in Loaded \cup {NULL}
    BY DEF NewParent, Boot, NULL
  <1>3. term \in Terms
    BY DEF NewTerminal, curr_terminal_running_process, get_active_process, TypeOK, Loaded
  <1> HIDE DEF parent, term
  <1>4. AddressSpace'
    BY <1>1 DEF AddressSpace
  <1>5. NoHaltWindow'
    BY <1>1 DEF NoHaltWindow, TypeOK
  <1>6. \A t \in Terms : active_processes'[t] \in Loaded \cup {None, esp'}
    BY <1>1, <1>3
  <1>7. \A p \in Pids : procs'[p] => procs[p] \/ p = esp'
    BY <1>1
  <1>8. \E q \in Loaded \cup {NULL} : parent_pcb' = [parent_pcb EXCEPT ![esp'] = q]
    BY <1>1, <1>2
  <1>9. \E t \in Terms : term_num' = [term_num EXCEPT ![esp'] = t]
    BY <1>1, <1>3
  <1> QED BY <1>1, <1>4, <1>5, <1>6, <1>7, <1>8, <1>9 DEF Starts

(* The scheduling logic runs the active process of a terminal, or, if there *)
(* is none, stays where it is.                                              *)
LEMMA ScheduleLoaded ==
    ASSUME TypeOK, NEW prev \in Loaded,
           NEW act \in [Terms -> Pids \cup {None}],
           \A t \in Terms : act[t] \in Loaded \cup {None}, NEW ctx,
           Schedule(prev, act, ctx, prev, prev)
    PROVE  esp' \in Loaded /\ AddressSpace'
  <1>1. CASE \E t \in Terms : act[t] # None
    <2>1. \E t \in Terms : act[t] = esp' /\ esp' \in Pids
      BY <1>1, ScheduleRuns DEF Loaded
    <2>2. cr3' = esp' /\ tss_esp0' = esp'
      BY <1>1, ScheduleRuns DEF Loaded
    <2>3. None \notin Pids
      BY DEF None, Pids
    <2> QED BY <2>1, <2>2, <2>3 DEF AddressSpace
  <1>2. CASE \A t \in Terms : act[t] = None
    <2>1. \A i \in 1 .. MaxTerminals : act[NextTerm(term_num[prev], i)] = None
      BY <1>2, ModRange DEF TypeOK, Loaded
    <2> QED BY <2>1 DEF Schedule, AddressSpace
  <1> QED BY <1>1, <1>2

(* The loops around execute. *)
LEMMA LoopStarts ==
    ASSUME TypeOK, NoHaltWindow,
           NEW stk \in Loaded \cup {Boot}, NEW how,
           NEW pr \in [Pids -> BOOLEAN], \A p \in Pids : pr[p] => procs[p],
           NEW n, NEW act \in [Terms -> Pids \cup {None}],
           \A t \in Terms : act[t] \in Loaded \cup {None},
           NEW cur \in Terms, NEW c, NEW s,
           stk = Boot => act[cur] = None,
           TableFull(pr) => c = stk /\ s = stk,
           ExecuteLoop(stk, how, pr, n, act, cur, c, s)
    PROVE  \/ Starts /\ proc_count' = n + 1
           \/ StartsNone /\ proc_count' = n
  <1>1. CASE Execute(stk, how, pr, n, act, cur, context)
    BY <1>1, ExecuteStarts
  <1>2. CASE ~Execute(stk, how, pr, n, act, cur, context)
    BY <1>2 DEF ExecuteLoop, StartsNone, AddressSpace, NoHaltWindow, pcbVars
  <1> QED BY <1>1, <1>2

-----------------------------------------------------------------------------
(* start_terminal. *)
LEMMA StartTerminalStarts ==
    ASSUME PagingInv, NEW t \in Terms, StartTerminal(t)
    PROVE  \/ Starts /\ proc_count' = proc_count + 1
           \/ StartsNone /\ proc_count' = proc_count
  <1>1. CASE UNCHANGED <<tableVars, active_processes, pcbVars, context, cpuVars, pc, fate>>
    BY <1>1 DEF PagingInv, StartsNone, AddressSpace, NoHaltWindow, RunsLoaded, tableVars,
       pcbVars, cpuVars
  <1>2. CASE /\ active_processes[t] = None
             /\ ExecuteLoop(esp, "start", procs, proc_count, active_processes, t,
                            cr3, tss_esp0)
    <2>1. /\ TypeOK /\ NoHaltWindow /\ esp \in Loaded \cup {Boot}
          /\ procs \in [Pids -> BOOLEAN]
          /\ active_processes \in [Terms -> Pids \cup {None}]
          /\ \A u \in Terms : active_processes[u] \in Loaded \cup {None}
          /\ cr3 = esp /\ tss_esp0 = esp
      BY DEF PagingInv, TypeInv, TypeOK, RunsLoaded, AddressSpace
    <2> QED BY <1>2, <2>1, LoopStarts
  <1> QED BY <1>1, <1>2 DEF StartTerminal

(* halt, and the continuation of the frame that it returns to. *)
LEMMA HaltStarts ==
    ASSUME PagingInv, Halt
    PROVE  \/ Starts /\ proc_count' = proc_count
           \/ StartsNone /\ proc_count' = proc_count - 1
  <1> DEFINE q    == parent_pcb[esp]
             gone == delete_process(procs, esp)
             back == set_active_process(term_num[q], q)
             bare == set_active_process(term_num[esp], None)
  <1>1. /\ TypeOK /\ NoHaltWindow /\ esp \in Loaded /\ esp \in Pids
        /\ current_terminal \in Terms /\ esp # Boot
        /\ q \in Loaded \cup {NULL} /\ proc_count \in Int
        /\ \A u \in Terms : active_processes[u] \in Loaded \cup {None}
    BY DEF PagingInv, TypeInv, TypeOK, RunsLoaded, Halt, InUser, Boot, Pids
  <1>2. /\ gone \in [Pids -> BOOLEAN] /\ \A p \in Pids : gone[p] => procs[p]
        /\ ~TableFull(gone)
    BY <1>1 DEF delete_process, TypeOK, TableFull
  <1>3. proc_count - 1 + 1 = proc_count
    BY <1>1
  <1>4. CASE q = NULL
    <2>1. /\ bare \in [Terms -> Pids \cup {None}]
          /\ \A u \in Terms : bare[u] \in Loaded \cup {None}
      BY <1>1 DEF set_active_process, TypeOK
    <2>2. ExecuteLoop(esp, "halt", gone, proc_count - 1, bare, current_terminal, Boot, tss_esp0)
      BY <1>4 DEF Halt
    <2> HIDE DEF gone, bare
    <2> QED BY <1>1, <1>2, <1>3, <2>1, <2>2, LoopStarts
  <1>5. CASE q # NULL
    <2>1. /\ q \in Loaded /\ q \in Pids /\ q # Boot
          /\ back \in [Terms -> Pids \cup {None}]
          /\ \A u \in Terms : back[u] \in Loaded \cup {None}
      BY <1>1, <1>5 DEF set_active_process, TypeOK, Loaded, Boot, NULL
    <2>2. ReturnTo(q, gone, proc_count - 1, back, q, q)
      BY <1>5 DEF Halt
    <2> HIDE DEF gone, back
    <2>3. CASE esp_parent[esp] \in {"syscall", "gone"}
      BY <1>1, <1>2, <2>1, <2>2, <2>3
         DEF ReturnTo, StartsNone, AddressSpace, NoHaltWindow, pcbVars
    <2>4. CASE esp_parent[esp] = "pit"
      <3>1. /\ procs' = gone /\ proc_count' = proc_count - 1 /\ active_processes' = back
            /\ Schedule(q, back, context, q, q)
            /\ UNCHANGED <<pcbVars, pc>>
        BY <2>2, <2>4 DEF ReturnTo
      <3>2. esp' \in Loaded /\ AddressSpace'
        BY <1>1, <2>1, <3>1, ScheduleLoaded
      <3> QED BY <1>1, <1>2, <2>1, <3>1, <3>2 DEF StartsNone, NoHaltWindow, pcbVars
    <2>5. CASE esp_parent[esp] \in {"halt", "start"}
      <3>1. ExecuteLoop(q, esp_parent[esp], gone, proc_count - 1, back, current_terminal, q, q)
        BY <2>2, <2>5 DEF ReturnTo
      <3> QED BY <1>1, <1>2, <1>3, <2>1, <3>1, LoopStarts
    <2>6. esp_parent[esp] \in {"syscall", "gone", "pit", "halt", "start"}
      BY <1>1 DEF TypeOK, Frames
    <2> QED BY <2>3, <2>4, <2>5, <2>6
  <1> QED BY <1>4, <1>5

(* The PIT handler. *)
LEMMA PitStarts ==
    ASSUME PagingInv, Pit
    PROVE  \/ Starts /\ proc_count' = proc_count + 1
           \/ StartsNone /\ proc_count' = proc_count
  <1>1. /\ TypeOK /\ NoHaltWindow /\ esp \in Loaded /\ esp # Boot
        /\ procs \in [Pids -> BOOLEAN]
        /\ current_terminal \in Terms /\ cr3 = esp /\ tss_esp0 = esp
        /\ active_processes \in [Terms -> Pids \cup {None}]
        /\ \A u \in Terms : active_processes[u] \in Loaded \cup {None}
    BY DEF PagingInv, TypeInv, TypeOK, RunsLoaded, AddressSpace, Pit, Boot, Pids
  <1>2. CASE Execute(esp, "pit", procs, proc_count, active_processes, current_terminal,
                     SavedContexts)
    BY <1>1, <1>2, ExecuteStarts
  <1>3. CASE /\ Schedule(esp, active_processes, SavedContexts, cr3, tss_esp0)
             /\ UNCHANGED <<tableVars, active_processes, pcbVars, pc>>
    <2>1. esp' \in Loaded /\ AddressSpace'
      BY <1>1, <1>3, ScheduleLoaded
    <2> QED BY <1>1, <1>3, <2>1 DEF StartsNone, NoHaltWindow, tableVars, pcbVars
  <1> QED BY <1>2, <1>3 DEF Pit

(* The execute system call. *)
LEMMA UserExecuteStarts ==
    ASSUME PagingInv, UserExecute
    PROVE  Starts /\ proc_count' = proc_count + 1
  <1>1. /\ TypeOK /\ NoHaltWindow /\ esp \in Loaded /\ esp # Boot
        /\ procs \in [Pids -> BOOLEAN] /\ current_terminal \in Terms
        /\ active_processes \in [Terms -> Pids \cup {None}]
        /\ \A u \in Terms : active_processes[u] \in Loaded \cup {None}
    BY DEF PagingInv, TypeInv, TypeOK, RunsLoaded, UserExecute, InUser, Boot, Pids
  <1>2. Execute(esp, "syscall", procs, proc_count, active_processes,
                current_terminal, context)
    BY DEF UserExecute
  <1> QED BY <1>1, <1>2, ExecuteStarts

-----------------------------------------------------------------------------
(* A step that starts a process builds its directory ... *)
LEMMA StartsKeeps ==
    ASSUME PagingInv, TypeInv', Starts, AfterExecute(TRUE)
    PROVE  PagingInv'
  <1> DEFINE p == esp'
             d == process_pd(p)
  <1>1. /\ p \in Pids /\ term_num' \in [Pids -> Terms]
        /\ parent_pcb \in [Pids -> Pids \cup {NULL}]
        /\ term_num \in [Pids -> Terms]
    BY DEF Starts, PagingInv, TypeInv, TypeOK
  <1>2. /\ d \in Directories
        /\ d.kernel = term_num'[p] /\ d.user = term_num'[p]
        /\ d.present = FALSE /\ d.program = p
    BY <1>1 DEF process_pd, set_pde, pd_init, Directories
  <1>3. pd' = [pd EXCEPT ![p] = d] /\ asked' = asked \ {p}
    BY DEF AfterExecute
  <1> HIDE DEF d
  <1>4. PdType'
    BY <1>1, <1>2, <1>3 DEF PagingInv, PdType
  <1>5. /\ pd \in [Pids \cup {Boot} -> Directories]
        /\ pd'[p] = d /\ \A q \in Pids \ {p} : pd'[q] = pd[q]
    BY <1>1, <1>3 DEF PagingInv, PdType
  <1>6. PdScreens'
    <2> SUFFICES ASSUME NEW q \in Pids
                 PROVE  /\ pd'[q].kernel = term_num'[q]
                        /\ pd'[q].user = term_num'[q]
                        /\ pd'[q].present <=> q \in asked'
      BY DEF PdScreens
    <2>1. CASE q = p
      BY <2>1, <1>2, <1>3, <1>5
    <2>2. CASE q # p
      <3>1. term_num'[q] = term_num[q]
        BY <2>2, <1>1 DEF Starts
      <3> QED BY <2>2, <3>1, <1>3, <1>5 DEF PagingInv, PdScreens
    <2> QED BY <2>1, <2>2
  <1>7. Loaded \cup {p} \subseteq Loaded'
    BY <1>1, <1>2, <1>5 DEF Loaded
  <1>8. RunsLoaded'
    <2>1. Live' \subseteq Loaded'
      BY <1>7 DEF Starts, Live, PagingInv, RunsLoaded
    <2>2. \A t \in Terms : active_processes'[t] \in Loaded' \cup {None}
      BY <1>7 DEF Starts
    <2>3. \A q \in Pids : parent_pcb'[q] \in Loaded' \cup {NULL}
      BY <1>1, <1>7 DEF Starts, PagingInv, RunsLoaded
    <2> QED BY <1>7, <2>1, <2>2, <2>3 DEF RunsLoaded
  <1> QED BY <1>4, <1>6, <1>8 DEF PagingInv, Starts

(* ... and any other leaves the directories alone. *)
LEMMA StartsNoneKeeps ==
    ASSUME PagingInv, TypeInv', StartsNone, UNCHANGED <<pd, asked>>
    PROVE  PagingInv'
  <1>1. Loaded' = Loaded
    BY DEF Loaded
  <1>2. PdType' /\ PdScreens'
    BY DEF PagingInv, PdType, PdScreens, StartsNone
  <1>3. RunsLoaded'
    BY <1>1 DEF PagingInv, RunsLoaded, StartsNone, Live
  <1> QED BY <1>2, <1>3 DEF PagingInv, StartsNone

(* Without the race of rtc_close every step keeps the address spaces. *)
LEMMA PagingStep ==
    ASSUME "rtc" \notin Races
    PROVE  PagingInv /\ [PagingNext]_pagingVars => PagingInv'
  <1> SUFFICES ASSUME PagingInv, [PagingNext]_pagingVars PROVE PagingInv'
    OBVIOUS
  <1>1. [Next]_vars
    BY DEF PagingNext, Executes, Halts, vidmap, Others, Next, pagingVars
  <1>2. TypeInv'
    BY <1>1, TypeInvStep DEF PagingInv
  <1>3. proc_count \in Int /\ proc_count # proc_count + 1 /\ proc_count # proc_count - 1
    BY DEF PagingInv, TypeInv, TypeOK
  <1>4. CASE Executes
    <2>1. \/ Starts /\ proc_count' = proc_count + 1
          \/ StartsNone /\ proc_count' = proc_count
      <3>1. CASE BootStart
        <4>1. 0 \in Terms
          BY KernelAssumption DEF Terms
        <4> QED BY <3>1, <4>1, StartTerminalStarts DEF BootStart
      <3>2. CASE \E t \in Terms : SwitchKey(t)
        BY <3>2, StartTerminalStarts DEF SwitchKey
      <3>3. CASE UserExecute
        BY <3>3, UserExecuteStarts
      <3>4. CASE Pit
        BY <3>4, PitStarts
      <3>5. ~HaltJump
        BY DEF HaltJump, At, PagingInv, NoHaltWindow
      <3> QED BY <1>4, <3>1, <3>2, <3>3, <3>4, <3>5 DEF Executes
    <2>2. CASE Starts /\ proc_count' = proc_count + 1
      <3>1. AfterExecute(TRUE)
        BY <1>4, <2>2 DEF Executes, AfterExecute
      <3> QED BY <1>2, <2>2, <3>1, StartsKeeps
    <2>3. CASE StartsNone /\ proc_count' = proc_count
      <3>1. UNCHANGED <<pd, asked>>
        BY <1>3, <1>4, <2>3 DEF Executes, AfterExecute
      <3> QED BY <1>2, <2>3, <3>1, StartsNoneKeeps
    <2> QED BY <2>1, <2>2, <2>3
  <1>5. CASE Halts
    <2>1. \/ Starts /\ proc_count' = proc_count
          \/ StartsNone /\ proc_count' = proc_count - 1
      BY <1>5, HaltStarts DEF Halts
    <2>2. CASE Starts /\ proc_count' = proc_count
      <3>1. AfterExecute(TRUE)
        BY <1>5, <2>2 DEF Halts, AfterExecute
      <3> QED BY <1>2, <2>2, <3>1, StartsKeeps
    <2>3. CASE StartsNone /\ proc_count' = proc_count - 1
      <3>1. UNCHANGED <<pd, asked>>
        BY <1>3, <1>5, <2>3 DEF Halts, AfterExecute
      <3> QED BY <1>2, <2>3, <3>1, StartsNoneKeeps
    <2> QED BY <2>1, <2>2, <2>3
  <1>6. CASE vidmap
    <2>1. /\ esp \in Pids /\ UNCHANGED vars
          /\ pd' = [pd EXCEPT ![esp] = [@ EXCEPT !.present = TRUE]]
          /\ asked' = asked \cup {esp}
      BY <1>6 DEF vidmap, InUser, set_pde_flags
    <2>2. /\ pd \in [Pids \cup {Boot} -> Directories]
          /\ \A p \in Pids \ {esp} : pd'[p] = pd[p]
          /\ pd'[esp] = [pd[esp] EXCEPT !.present = TRUE]
      BY <2>1 DEF PagingInv, PdType
    <2>3. pd'[esp] \in Directories
      BY <2>1, <2>2 DEF Directories
    <2>4. PdType'
      BY <2>1, <2>2, <2>3 DEF PagingInv, PdType
    <2>5. /\ pd'[esp].kernel = pd[esp].kernel /\ pd'[esp].user = pd[esp].user
          /\ pd'[esp].program = pd[esp].program /\ pd'[esp].present = TRUE
      BY <2>1, <2>2 DEF Directories
    <2>6. Loaded' = Loaded
      BY <2>2, <2>5 DEF Loaded
    <2>7. /\ UNCHANGED <<term_num, active_processes, parent_pcb, procs, cr3, tss_esp0, esp, pc>>
          /\ Live' = Live
      BY <2>1 DEF vars, tableVars, pcbVars, cpuVars, Live
    <2>8. PdScreens'
      BY <2>1, <2>2, <2>5, <2>7 DEF PagingInv, PdScreens
    <2> QED BY <1>2, <2>4, <2>6, <2>7, <2>8
            DEF PagingInv, RunsLoaded, NoHaltWindow, AddressSpace
  <1>7. CASE Others
    <2>1. UNCHANGED <<tableVars, active_processes, pcbVars, cpuVars, pc, pd, asked>>
      BY <1>7 DEF Others, OpenRtc, CloseRtc, HaltClose, HaltSetPd, HaltSetTss, HaltSetActive,
         PitIdle, At, PagingInv, NoHaltWindow, vars, tableVars, pcbVars, cpuVars
    <2>2. StartsNone
      BY <2>1 DEF PagingInv, StartsNone, RunsLoaded, AddressSpace, NoHaltWindow, tableVars,
         pcbVars, cpuVars
    <2> QED BY <1>2, <2>1, <2>2, StartsNoneKeeps
  <1>8. CASE UNCHANGED pagingVars
    <2>1. UNCHANGED <<tableVars, active_processes, pcbVars, cpuVars, pc, pd, asked>>
      BY <1>8 DEF pagingVars, vars
    <2>2. StartsNone
      BY <2>1 DEF PagingInv, StartsNone, RunsLoaded, AddressSpace, NoHaltWindow, tableVars,
         pcbVars, cpuVars
    <2> QED BY <1>2, <2>1, <2>2, StartsNoneKeeps
  <1> QED BY <1>4, <1>5, <1>6, <1>7, <1>8 DEF PagingNext

(* The boot directory and the empty table satisfy the invariant. *)
LEMMA PagingInitial == PagingInit => PagingInv
  <1> SUFFICES ASSUME PagingInit PROVE PagingInv
    OBVIOUS
  <1>1. Init /\ TypeInv
    BY TypeInvInit DEF PagingInit
  <1>2. 0 \in Terms
    BY KernelAssumption DEF Terms
  <1>3. NoHaltWindow /\ AddressSpace
    BY <1>1 DEF Init, NoHaltWindow, AddressSpace
  <1>4. PdType /\ PdScreens
    BY <1>1, <1>2 DEF PagingInit, Init, PdType, PdScreens, Directories
  <1>5. RunsLoaded
    BY <1>1 DEF Init, RunsLoaded, Live
  <1> QED BY <1>1, <1>3, <1>4, <1>5 DEF PagingInv

-----------------------------------------------------------------------------
(* Whatever switches, execute calls and ends of base shells race, the page  *)
(* directory, the trap stack and the running stack belong together.         *)
THEOREM AddressSpaceHolds ==
    ASSUME "rtc" \notin Races
    PROVE  PagingSpec => []AddressSpace
  <1>1. PagingInv => AddressSpace
    BY DEF PagingInv
  <1> QED BY <1>1, PagingInitial, PagingStep, PTL DEF PagingSpec

(* In the same environments what the running program, and the kernel for    *)
(* it, write to the screen lands on the screen of its own terminal.         *)
THEOREM OwnScreenHolds ==
    ASSUME "rtc" \notin Races
    PROVE  PagingSpec => []OwnScreen
  <1>1. PagingInv => OwnScreen
    <2> SUFFICES ASSUME PagingInv, esp \in Pids PROVE
              /\ pt_vidmem(pd[cr3].kernel, 0) = term_num[esp]
              /\ pt_user_vidmem(pd[cr3].user) = term_num[esp]
              /\ \A t \in Terms : pt_vidmem(pd[cr3].kernel, t + 1) = t
      BY DEF OwnScreen
    <2>1. \A t \in Terms : pt_vidmem(pd[cr3].kernel, t + 1) = t
      BY KernelAssumption DEF Terms, pt_vidmem
    <2>2. pd[cr3].kernel = term_num[esp] /\ pd[cr3].user = term_num[esp]
      BY DEF PagingInv, AddressSpace, PdScreens
    <2>3. pt_vidmem(pd[cr3].kernel, 0) = term_num[esp]
      BY <2>2 DEF pt_vidmem
    <2> QED BY <2>1, <2>2, <2>3 DEF pt_user_vidmem
  <1> QED BY <1>1, PagingInitial, PagingStep, PTL DEF PagingSpec

(* A program sees the screen exactly if it has called vidmap itself. *)
THEOREM ScreenOnRequestHolds ==
    ASSUME "rtc" \notin Races
    PROVE  PagingSpec => []ScreenOnRequest
  <1>1. PagingInv => ScreenOnRequest
    BY DEF PagingInv, PdScreens, ScreenOnRequest, Live
  <1> QED BY <1>1, PagingInitial, PagingStep, PTL DEF PagingSpec

(* No two live processes share a program page, and the CPU runs with the    *)
(* page of the process whose stack it is on.                                *)
THEOREM OwnMemoryHolds ==
    ASSUME "rtc" \notin Races
    PROVE  PagingSpec => []OwnMemory
  <1>1. PagingInv => OwnMemory
    <2> SUFFICES ASSUME PagingInv PROVE OwnMemory
      OBVIOUS
    <2>1. \A p \in Live : pd[p].program = p
      BY DEF PagingInv, RunsLoaded, Loaded
    <2>2. esp \in Pids => pd[cr3].program = esp
      BY DEF PagingInv, RunsLoaded, Loaded, AddressSpace, Boot, Pids
    <2> QED BY <2>1, <2>2 DEF OwnMemory
  <1> QED BY <1>1, PagingInitial, PagingStep, PTL DEF PagingSpec

(* Unless base shells end behind the displayed terminal, a terminal with a  *)
(* live process has one that the scheduler can pick, also while programs    *)
(* map the screen.                                                          *)
THEOREM LiveHasActiveHolds ==
    ASSUME "halt" \notin Races, "rtc" \notin Races
    PROVE  PagingSpec => []LiveHasActive
  <1>1. PagingInit => TreeInv
    BY TreeInvInit DEF PagingInit
  <1>2. [PagingNext]_pagingVars => [Next]_vars
    BY DEF PagingNext, Executes, Halts, vidmap, Others, Next, pagingVars
  <1>3. TreeInv => LiveHasActive
    BY DEF TreeInv, TableInv
  <1> QED BY <1>1, <1>2, <1>3, TreeInvStep, PTL DEF PagingSpec
=============================================================================
