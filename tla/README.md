# A TLA+ development of the kernel in `student-distrib/`

The repository is a small 32-bit x86 kernel (one CPU, three text terminals, six
process slots) with a PIT-driven round-robin scheduler, a read-only file system,
a keyboard/terminal driver and a virtualised real-time clock, and the user
programs in `syscalls/`.  This directory keeps TLA+ models of the parts of it
whose correctness depends on interleaving, order or arithmetic, TLC
configurations that check them, and TLAPS proofs of the most important
invariants.

## 1. Inventory

| Component | Source | State | Operations | What is hard | Module |
|---|---|---|---|---|---|
| Process table | `process.c` | `procs`, `proc_count`, `active_processes` | `add_process`, `delete_process`, `free_procs`, `set_active_process` | slot reuse; count and slots changed apart | `Kernel` |
| execute / halt | `sys_calls.c` | pcb: `parent_pcb`, `term_num`, `esp_parent`, `context`; `tss.esp0`, CR3 | `execute`, `halt`, return to `halt_ret_label` | parent chosen by the *displayed* terminal; `halt` preemptible after `rtc_close` | `Kernel`, `Paging`, `Syscalls` |
| Scheduler | `devices/pit.c` | `next_execute`, saved contexts | `pit_handler_main`, `schedule_for_execution` | deferred launch of shells; starvation | `Kernel` |
| Paging | `virtualmem.c` | page directories | `pd_init`, `set_pde`, `set_pde_flags`, `set_pd`, `vidmap` | directories are reused with their slot | `Paging` |
| Terminal switching | `devices/keyboard.c` | `current_terminal`, VGA start | `start_terminal` | switches between two PIT interrupts, or between two outb | `Kernel`, `Console` |
| Line discipline | `devices/keyboard.c` | `line_buf`, `buf_count`, `input_len`, `hit_enter`, `reading` | `update` (interrupt), `terminal_read` (process) | unlocked sharing between the two; the copy to the program may fault | `Terminal` |
| Keyboard decoding | `devices/keyboard.c`, `keyboard.h` | modifier flags, `caps_lock` | `keyboard_handler_main` | prefixes, codes outside the table | `Keyboard`, `Boot` |
| Screen | `lib.c` | cursor, cells, VGA registers | `putc_in_terminal`, scrolling, `backspace_fnc`, `printf`, `move_cursor` | echo interrupts a write | `Screen`, `Console` |
| RTC driver | `devices/rtc.c` | `open`, `rtc_rate`, `procs[]`, CMOS registers A and B, IRQ mask | open, close, read, write, interrupt | check-then-act with interrupts on; one clock for many rates; divisors that outlive their process | `Rtc` |
| Descriptors | `sys_calls.c` | `pcb.files[]` | `open`, `close`, `read`, `write` | `pos` not reset by `open` | `Syscalls` |
| File system | `fs.c` | the boot module (read-only) | lookup, `read_data`, `dir_read` | block boundaries, end of file, unterminated names, bytes stored past the length | `Syscalls` |
| Interrupt and call entry | `isr.c`, `isr_asm.S`, `idt_set.c` | IDT, `irq_table` | gates, `fault_handler`, `handle_syscall` | which code runs with interrupts on | `Boot`, `Console`, `Programs` |
| PIC | `i8259.c` | masks, requests, in service | `i8259_init`, `enable_irq`, `disable_irq`, `send_eoi` | master and slave | `Boot` |
| Boot | `kernel.c`, `boot.S` | | order of initialisation | interrupts on before the IDT and terminal 0 exist | `Boot` |
| User programs | `syscalls/` | their locals | shell, cat, ls, grep, syserr | buffer ends, end of file | `Programs` |

Interaction: the system call gate is a trap gate, so `open`, `close`, `read` and
`write` run with interrupts on and can be preempted by the PIT between any two
instructions; interrupt handlers run with interrupts off; `execute` and `halt`
start with `cli()`.  A process's kernel stack carries its suspended `execute`
calls, so a slot that is reused takes the frames of its earlier occupant with it.

## 2. Modules

**Processes**

- **`Kernel`** - process table, `execute`, `halt`, PIT scheduler, terminal switch
  and the start of the first shell.  The variables have the names of the C
  variables and pcb fields; `esp` says on whose kernel stack the CPU runs, and a
  suspended control point is described by the code it continues (`Frames`), or by
  whether `context` still denotes it.  Handlers that run with interrupts off are
  single actions (`UserExecute`, `Halt`, `Pit`, `SwitchKey`); the window that
  `rtc_close` opens inside `halt` is modelled assignment by assignment
  (`HaltClose`, `HaltSetPd`, `HaltSetTss`, `HaltSetActive`, `HaltJump`).  `fate`
  becomes "wild" when the code would switch to a context or frame that no longer
  exists, and "hung" when it loops with interrupts off.  The constant `Races` says
  which of four awkward orders the environment produces: `"key"` and `"exec"`, a
  terminal switch or an execute call while a shell is pending; `"halt"`, the base
  shell of a terminal that is not displayed ends; `"rtc"`, the halting process
  closes the RTC last.
- **`TermStacks`**, **`KernelRefinement`** - the abstract promise (one stack of
  programs per terminal; execute pushes, halt pops) and the mapping: the stack of
  a terminal is the chain of `parent_pcb` from its active process.
- **`Paging`** - `Kernel` with the contents of the page directories: which
  terminal's page tables map the screen for the kernel and for the program,
  whether the program's part is present, and whose 4 MB page the program runs in.
  Every step of `Kernel` that runs `execute` also builds the directory; `vidmap`
  is an action of its own.  `Kernel`'s `cr3` says which directory is loaded.
- **`KernelProofs`**, **`PagingProofs`** - theorems.

**Terminals**

- **`Terminal`** - `update` and `terminal_read` on one terminal.  Each access of
  `terminal_read` outside its `cli()` block is an action.  `smashed` records the
  key whose store missed `line_buf`; nothing is modelled after that, because the
  memory behind the buffer is then undefined.  `TypeAhead` says whether keys may
  come while a reader is neither absent nor waiting, `BadBuffers` whether programs
  pass buffers that are not mapped: then the copy faults (`ReadFault`), the program
  is halted, and `reading` and `hit_enter` stay as they are.
- **`LineEditor`**, **`TerminalRefinement`** - the abstract promise to a program that
  reads whole lines, and the mapping.  **`TerminalProofs`** - theorems.
- **`Screen`** - `lib.c`'s consoles as operators on a screen record: `putc`,
  scrolling, Backspace, `printf` with its number conversion, and the VGA index
  and data registers.
- **`Console`** - composes `Terminal` and `Screen`: the echo of `update`, Ctrl+L,
  Alt+Fn, the `terminal_write` of the program (each load and store of x, y and
  the cells, and each `outb`, a step of its own) and `fault_handler`'s message
  with its three conversions; of its fixed words one letter each is kept.
  The keyboard interrupt is one step.  `KeysHit` says in which part of
  `terminal_write` keys come: inside `putc_in_terminal`, inside `move_cursor`.
- **`ConsoleProofs`** (the display and the cursor), **`ConsoleTextProofs`** (what
  stands on the screen) - theorems.

**Interrupts**

- **`Keyboard`** - `keyboard_handler_main` for one byte, with the tables of
  `keyboard.h` and `kybd_keys`.  A scancode behind the end of the table reads
  what the linker put there: `beyond`, a constant set.
- **`Boot`** - `entry()` step by step, the IDT gates, `irq_table`, the two 8259
  (external), the keys really held down and the bytes they send (external); then
  a program of terminal 0 that reads its terminal and opens and closes the RTC.
- **`Rtc`** - `rtc.c`, one action per access to shared state; `open++` is a load
  and a store, which is what the Makefile's unoptimised build produces.  Loops
  over `procs[]` are one step.  With `Interleaved = FALSE` the driver calls of
  different processes do not overlap (spinning readers and clock interrupts still
  do).  **`MCRtc`** gives the numbers that are written.
- **`BootProofs`**, **`RtcProofs`** - theorems.

**Files and programs**

- **`Syscalls`** - descriptors and file system as one program after the other in a
  slot sees them, and the exit status `execute` returns.  The calls are operators
  on the descriptor table.  `read_data` is the C loop, written as a recursive
  function; `Content` is the reference it is compared with.  A read says what it
  returned and how many bytes it stored, which for the directory are two more.
  Entries of the RTC type can be opened, read (at once: the wait is in `Rtc`) and
  closed like the others.
- **`Programs`** - the shell and the programs it starts: cat, ls, grep, syserr,
  and a program that makes any call ("any").  A step is one system call and the
  code up to the next.  A disk says which of its inodes hold which program; what
  is executable does not depend on the type of the entry, as in `execute`.  grep's
  buffer is kept byte by byte, with the NULs it writes and reads.
- **`ProgramsProofs`** - theorems.

Definitions named `X_Something` marked "variant" are mutations of `X` used to
make sure that the properties can fail; no specification uses them.

## 3. Runs

| Run | Bounds | Checks |
|---|---|---|
| `KernelCalm` | 3 slots, 3 terminals, `Races = {}` | type, process tree, saved contexts and frames, pending shell, refinement of `TermStacks`, and under fairness that every terminal runs and a displayed terminal gets a shell |
| `PagingRaces` | 3 x 3, key, exec and halt races | page directory, trap stack and running stack agree; a terminal with live processes has a schedulable one; a program's output and the kernel's reach its own terminal's screen; the screen is mapped exactly for who asked; no shared program page |
| `KernelAllRaces` | 3 slots, 2 terminals, all races | `proc_count` is the number of used slots |
| `KernelExecRace` | 3 x 3, exec race | *violation*: the caller of `execute` stays schedulable |
| `TerminalLines` | buffer of 5, two letters, whole-line reads | buffer bounds, refinement of `LineEditor` |
| `TerminalAhead` | buffer of 4, reads of 0, 2 and 5 bytes, keys at any time, bad buffers | unused cells clear; a woken reader returns |
| `ConsoleKeys` | 6 rows of 2 cells, 2 terminals, line buffer of 3, keys inside `move_cursor`, bad buffers | the display shows the current terminal; cursor on screen; the erasable line stands before the cursor; the whole message of a fault is the last thing on the screen |
| `ConsoleSpill` | the same, line buffer of 4, keys inside `putc_in_terminal` | *violation*: a store misses the screen |
| `RtcSerial` | 2 processes, 2 descriptors each, the numbers INT_MIN, -4, 0, 1, 3, 4, 8, 2048 | clock on exactly while open; divisors of the rates written; no read takes longer than the rate asked for; every read returns |
| `BootKeys` | 9 keys, 2 held at a time, 2 bytes in the keyboard | handlers installed before their line is unmasked; all interrupts acknowledged; flags follow the keys; every character can be typed; Enter ends a read |
| `BootEarly` | keys and ticks from the first instruction | *violation*: an interrupt before the IDT is loaded |
| `ProgramsRun` | 4 descriptors, blocks of 2 bytes, buffers of 3; a disk with all five programs, and disks with every text up to 3 bytes and some longer ones for grep | reads and entries in order and complete; what a read may store; what cat, ls, grep and syserr print and return, whatever ran before; failures noticed by the shell; every program ends |

Why the bounds suffice.  Three slots let one terminal nest programs until the
table is full, or fill it with one shell per terminal; three terminals is the
real number, so the scan of the scheduler is exercised as it is.  `KernelAllRaces`
has two terminals: the window of `halt` needs one halting process and one that
takes its slot, and with a third slot the shell that replaces one ended off screen
can have a parent that was reused in between.  A buffer of four or five cells has a first, a
middle and a last usable cell and lets both the last-cell test and partial reads
happen.  On rows of two cells a line wraps after two characters, as
Backspace does; a VGA byte of four values makes a cursor position need both
registers; six rows are what the message of a fault, shortened to eight
characters, needs, wrapped and scrolled.  Two descriptors per process distinguish "the last
descriptor" from "the last process"; rate 1 is below `RATE_MIN` and INT_MIN passes
for a power of two, and -4, 0, 3 and 2048 are refused.  Both Shift and both Ctrl keys, an Alt key, CapsLock, Enter, F2 and one
code behind the table, two at a time, give every way two modifiers can overlap.
A file that ends in a block, one that ends at a block's end, sizes that straddle
blocks, a name that fills its field and one that is a prefix of it give every
branch of the file system; texts of four and five bytes under a buffer of three have lines
that start, end and lie across the buffer's end, and one of the files has a NUL.
All programs are on one disk, so that each runs after each, on the descriptors it
left.  `MaxPos` bounds a directory
descriptor's position, which the code increments for ever.

`CHECK_DEADLOCK FALSE` appears where the modelled system can really stop: a CPU
that left its code or spins with interrupts off (`fate`), a smashed buffer, a
machine that was not booted by a multiboot loader or that has shut down.

Fairness.  `Kernel`: weak fairness of the PIT interrupt, which the handler rearms
on every path (`pit_reset_count`) and which is unmasked throughout, and of the
boot code's last statement.  `Terminal`: weak fairness of the reader, which is
what `EveryTerminalRuns` gives.  `Rtc`: weak fairness of every process's calls,
for the same reason, and of the clock while it is on and unmasked.  `Boot`: weak
fairness of the timer's and the RTC's interrupt and of the reader, strong fairness
of the keyboard's: the timer has priority over it and may ask again and again, but
its period of 10 ms is long against its handler, so that the keyboard is offered
to the CPU infinitely often.  `Programs`: weak fairness of the running program
among those of the repository; a program that makes arbitrary calls need not end.
syserr begins with a read of the number of the test: nobody has to type it, so this
step is not fair and `ProgramsEnd` begins behind it.

### What the violating runs show

- `KernelExecRace`: press Alt+F2 on an empty terminal and let a program on
  terminal 1 call `execute` before the next PIT interrupt.  `execute` sees no
  process on the displayed terminal, so the new program becomes the base process
  of terminal 2, and the caller, though waiting for it, remains active.
- `ConsoleSpill`: a program writes a newline on the last row; between `y++` and
  the test that scrolls, a key is typed, and its echo is stored in the row that is
  not there.
- `BootEarly`: `pit_init` calls `sti()`, three statements before `entry()` loads
  the IDT; the keyboard and then the timer are unmasked by then.

### Other disagreements met while modelling

The models contain these, but no run singles them out.

- The shell that replaces a base shell ended off screen has the dead process as
  its parent (`Races` with `"halt"` breaks `ParentWaits`); a shell scheduled for a
  terminal that is left before the PIT fires becomes a child of the interrupted
  program; in the `"rtc"` window of `halt` another page directory can be loaded
  under it, so `AddressSpace` does not hold there.
- A key typed between Enter and the copy of `terminal_read` is counted in
  `input_len`, but the copy resets `buf_count` only; Backspace then takes
  `buf_count` from 0 to 65535 (`keyboard.c:304`) and stores outside `line_buf`
  (`TypeAhead = TRUE`, `smashed` = "backspace").  A read shorter than the line
  returns its rest together with the next line.
- `rtc_open` and `rtc_close` test and change `open` with interrupts on: two first
  opens that overlap count 1 for two descriptors (`Interleaved = TRUE`, `rtc.c:126`
  against `rtc.c:199`).  `rtc_close` lowers `rtc_rate` and the divisors but does
  not call `set_rate` (`rtc.c:223`), so the remaining processes run too fast.
- `rtc_open` "defaults the rate to 2 Hz" (`rtc.c:95`) but sets no `max_count`.  The first
  `rtc_read` after boot does not wait at all.  If a process writes 8 and closes last,
  it leaves the divisor 4 in every other slot, and the next one to open there waits
  for four interrupts at 2 Hz: two seconds.  `Divisors` and `NeverSlower` are
  therefore about processes that have written a rate.
- `rtc_write` means to accept the powers of two up to 1024 (`rtc.c:171-177`).  It also
  accepts 1, below `RATE_MIN`, and INT_MIN, whose one bit is the sign; the divisor
  is then 0 and `rtc_read` does not wait.
- `execute` returns an `int8_t` (`sys_calls.c:105`) and a fault ends in `halt(1)`,
  so "256 if the program dies by an exception" (`sys_calls.c:100`) never happens,
  and a status of 255 makes the shell say "no such command".
- A program calls `read(0, ...)` with an address that is not mapped.  When Enter
  comes, the `memcpy` of `terminal_read` faults (`keyboard.c:193`) and the program is
  halted, but `reading` stays 1.  Until the next read ends, Enter keeps the lines
  nobody reads, against "If the terminal is not being read from then just clear the
  terminal buffer" (`keyboard.c:290`): the next read returns the old line with the
  new one, and enough of them overrun the buffer.
- An Enter between `reading = 1` and `hit_enter = 0` (`keyboard.c:178-179`) is kept in
  the buffer and forgotten as an Enter: the read waits for another one.
- `open` fails when the "named file does not exist, or no open file descriptors"
  (`sys_calls.c:301`; `fs.c:49` is alike), but also for a name of 32 characters: it has no
  NUL behind it in the entry, `strlen` finds one only behind the type (`fs.c:59`), and
  no name that one would type is that long.  ls lists such a file, cat says that it
  is not found, and grep stops at it.
- `read_directory_entry` "copies over 'length' bytes" (`fs.c:180`), and then a newline
  and a NUL (`fs.c:205-206`).  ls and grep pass 32 for a buffer of 33 bytes, so a name
  that fills its field is followed by one byte behind the buffer; in an unoptimised
  build that byte belongs to the variable that then gets the result of the read,
  so nothing is seen of it.
- The shell and `execute` take whatever entry has the name: a directory or an RTC
  entry whose inode number is that of an executable file is executed.
- `set_trap_gate` makes interrupt gates and `set_sys_int_gate` a trap gate
  (`idt_set.c`); every exception stub starts with `cli`, so nothing follows from it.
- `keyboard.c` sets the right Ctrl flag for the left key and the other way round
  (harmless, since they are only used together); extended keys are told from
  their counterparts by nothing; scancodes from 0x53 on read behind `kybd_keys`.
- grep reads `data[BUFSIZE]` before it was ever written: if that byte happens to
  be a newline, a line that crosses the buffer's end is printed in two pieces.  In a
  file with NULs it finds the text anywhere in a line but prints the line up to its
  first NUL, and loses what is behind a NUL when it moves a line to the front.
- A key that comes between the `sti()` of `entry()` and `start_terminal(0)` is handled
  while `current_terminal` is -1, and echoed to `terminals[-1]` (`keyboard.c:278`).
- The PIT's command and data ports have each other's names in `pit.c:12-13`.

## 4. Proofs

The theorems hold for every number of slots, terminals, processes and
descriptors, and for every size of buffer, screen and alphabet.  They rest on the
named ASSUMEs of the component modules and on the hypotheses stated in each
theorem.  The ASSUMEs are facts of the code's constants: positive sizes, known
race kinds, distinct NL, NUL, blank and digits, a page that fits the two bytes of
the VGA start address, a line buffer (128) that is shorter than the screen without
its last row (80 x 24), a disk whose entries are of the three types and whose file
entries name inodes that exist, names and command lines that are sequences of
characters.  TLC evaluates them on the instances of section 3.  The
theorems about cat, ls and syserr need more of the disk: `DistinctNames` (no two
entries have one name), `DotListed` (the directory is an entry of itself),
`PlainArguments` (nobody types a full 32-byte name with the byte of the type behind
it, which is a control character) and `NoNearNames` (the misspelt names that `err_open`
tries belong to no file).  `MCPrograms` assumes all four, so that TLC shows that
the disks of `ProgramsRun` satisfy them.  A
hypothesis such as `~TypeAhead` or `"rtc" \notin Races` excludes an order of events
in which the property really fails; section 3 says what happens then.  TLC has
checked the inductive invariants as invariants of the runs' instances.

| Theorem | Property | Hypotheses |
|---|---|---|
| `KernelProofs!TypeCorrect` | `TypeOK` | none |
| `KernelProofs!ProcessTreeHolds`, `RunningHolds`, `CountHolds` | `ProcessTree`; `RunningActive`, `AddressSpace`; `CountExact` | no "halt", no "rtc" race |
| `KernelProofs!ControlHolds`, `PendingHolds` | `ControlSafe`, `PendingShell` | no race |
| `KernelProofs!RefinesTermStacksHolds` | `RefinesTermStacks` | no race |
| `KernelProofs!ExecuteHandsOffHolds` | `ExecuteHandsOff` | no "exec", no "halt", no "rtc" race ("key" allowed) |
| `PagingProofs!AddressSpaceHolds`, `OwnScreenHolds`, `ScreenOnRequestHolds`, `OwnMemoryHolds` | the same without "Holds" | no "rtc" race |
| `PagingProofs!LiveHasActiveHolds` | `LiveHasActive` | no "halt", no "rtc" race |
| `TerminalProofs!BufferSafeHolds` | `BufferSafe` | no type-ahead, no bad buffers, no empty reads |
| `TerminalProofs!RestIsClearHolds` | `RestIsClear` | none |
| `TerminalProofs!RefinesLineEditorHolds` | `RefinesLineEditor` | no type-ahead, no bad buffers, reads of a whole buffer |
| `ConsoleProofs!DisplayShownHolds` | `DisplayShown` | none |
| `ConsoleProofs!CursorOnScreenHolds` | `CursorOnScreen` | no type-ahead, no bad buffers, no empty reads, no key inside `putc_in_terminal` |
| `ConsoleTextProofs!LineIsShownHolds` | `LineIsShown` | the same |
| `ConsoleTextProofs!FaultReportedHolds` | `FaultReported` | the same, and messages that fit above the last two rows |
| `RtcProofs!OnWhileOpenHolds`, `DivisorsHolds`, `NeverSlowerHolds` | the same without "Holds" | driver calls do not overlap |
| `BootProofs!HandlersInstalledHolds`, `NothingInServiceHolds` | the same without "Holds" | none |
| `BootProofs!FlagsFollowKeysHolds` | `FlagsFollowKeys` | Shift keys send no 0xE0 prefix |
| `ProgramsProofs!ReadsInOrderHolds`, `EntriesInOrderHolds`, `ZeroOnlyAtEndHolds`, `FailureNoticedHolds` | the same without "Holds" | none |
| `ProgramsProofs!CatCopiesHolds` | `CatCopies` | `DistinctNames`, `PlainArguments` |
| `ProgramsProofs!LsListsAllHolds` | `LsListsAll` | `DistinctNames`, `DotListed` |
| `ProgramsProofs!SyserrPassesHolds` | `SyserrPasses` | `DotListed`, `NoNearNames`, no more descriptors than `BIG_FD`, the number that syserr tries as a bad one |

The inductive invariants, and why they are needed:

- **`TreeInv`** (`Kernel`) adds to the tree what each step needs of the CPU: the
  running process is alive and active (`CpuInv`), the boot state is empty, and a
  frame that a child denotes still exists as long as its parent's slot is not
  reused (`ParentFrames`).  The tree alone is not inductive: `halt` restores
  `parent_pcb`'s terminal and active process, which is right only if the halting
  process is the active leaf of its own terminal.
- **`CalmInv`** adds that a shell is pending exactly while the displayed terminal
  is empty; that is what keeps `execute` from taking the free slot or the wrong
  parent.
- **`Chained`** says that `StackOf(t)`, which `KernelRefinement` computes by following
  `parent_pcb`, is what it should be: live processes of t without repetition, each
  the parent of the next, the active one on top.  The walk is a recursive
  function; that it finds any such chain (`StackIs`) is an induction on the number
  of steps.  Each action then names the new chain (the old one, pushed or popped)
  and has `TermStacks`' step by that lemma.  It rests on `CalmInv`.
- **`HandInv`** (`TreeInv` and `ShownHasShell`) is what `execute`'s hand-over needs: a
  displayed terminal without a process has a shell scheduled and a slot for it.
  A caller then either sees a process on the displayed terminal, or makes the call
  that the "exec" race is about, and `KernelExecRace` shows that it fails there.
- **`PagingInv`** does without the tree, which the end of a base shell off screen
  breaks.  It needs only that whatever the kernel may run or return to, a dead
  parent or a dead active process included, was loaded once (`RunsLoaded`), and
  that every directory agrees with the pcb of its slot (`PdScreens`), also after
  its process is gone.  The proof reduces the actions of `Kernel` to two
  cases: a step starts one process (`Starts`) or none (`StartsNone`).
- **`BufferInv`** (`Terminal`) adds to the bounds that a line being edited leaves
  room for a newline, that `input_len` is 0 from Enter until the reader has
  returned (`Counters`), and that every read in progress takes at least one byte
  (`Positive`), without which a read would leave the buffer full.
- **`CellsInv`** holds whatever is typed ahead: the counter leaves the buffer only
  by a store that misses it, and nothing is claimed after that.
- **`LineInv`** (`BufferInv` and `WholeLines`) is what the refinement needs: the
  line that `LineEditor` edits is the prefix of `line_buf` of `buf_count` cells,
  and a read that takes all of it leaves nothing for the next one.  Enter,
  Backspace and characters are `LineEditor`'s steps, the final step of
  `terminal_read` its delivery, and the others stutter.
- **`VgaInv`** says that the index register may be anything between two `outb` of
  `move_cursor`, but that the start address registers are only ever written with
  the address of the current terminal.
- **`CursorInv`** gives, for every label inside `putc_in_terminal`, how far x, y
  and the loaded register may be off (`AtLabel`), and that there are always at
  least `input_len` cells before the cursor.  That last part is what makes
  Backspace safe: it wraps to the row above, and there is a row above.
- **`BlankInv`** and **`ShownInv`**: behind the cursor the screen is blank, label
  by label, and before it stands the typed line.  Neither is inductive without
  the other facts: a scroll moves the line by a row, and Ctrl+L reprints a line
  that may wrap.  `ReportInv` is `BlankInv`'s counterpart for a fault's message.
- **`RtcInv`** says for every pair of assignments inside `rtc_open`, `rtc_close`
  and `rtc_write` which of count, clock, divisors and rate is ahead of the others
  (`Counted`, `Switched`, `Divisible`, `Fast`).  It rests on the rates being powers
  of two or INT_MIN (`Asked`): that is why a divisor is exact.
- **`BootInv`** ties the masks, the table of handlers and the interrupt flag to the
  place in `entry()` (`Order`); **`FlagInv`** says of each modifier that the last of
  its bytes still in the keyboard, or else its flag, tells whether it is held.

- **`ProgInv`** says of the descriptor table that one not in use is at position 0,
  which is where `open` leaves it (`TableOK`), and of a live one that what was read
  through it is what lies before its position (`FsInv`).  Of the programs it says
  which descriptors they hold at each label: every read of cat, ls and grep goes
  to a live one, grep's length is never negative, and syserr holds none between
  two tests.  `err_open_lots` opens until it is refused and then closes
  everything; that its table is clean afterwards is an induction over both loops.
- **`CatInv`** and **`LsInv`** relate what a program has printed to its descriptor.  A
  running cat holds a descriptor of the entry its argument names and has printed
  what was read through it; a running ls has printed the lines of the entries
  before its descriptor's position.  With `ReadsInOrder` and `ZeroOnlyAtEnd` the 0
  that ends them then means that nothing is missing.
- **`SyserrPasses`** is inductive together with `ProgInv`.  The work is in the tests:
  with no descriptor in use, `err_open_lots` is given the descriptors in order and
  refused exactly when there is none left, and the others see the refusals and
  positions that the code gives.

The loops of `read_data`, `puts`, `printf`, `itoa` and `err_open_lots`, the walk along
`parent_pcb` and the library's `FlattenSeq` are recursive functions; what the proofs need of them is proved by induction on the round,
applying an induction theorem for sets of numbers.  For `read_data` that is all
there is to say: `ReadData` shows that it returns the bytes of the file from the
offset on, up to the end, for every block size.

Only model-checked:

- liveness (`EveryTerminalRuns`, `ShownTerminalGetsShell`, `WokenReaderReturns`,
  `ReadReturns`, `EnterEndsRead`, `ProgramsEnd`): the prover does not handle
  fairness and ENABLED;
- `EveryCharacterTyped`: a statement about the one table of `keyboard.h`, which
  TLC evaluates completely;
- `GrepExact`: its reference sorts and selects the lines with library operators
  defined by choice, about which the prover has no facts;
- `CountExact` with every race (`KernelAllRaces`), and `LiveHasActive` with the
  "halt" race (`PagingRaces`), beyond the hypotheses of the theorems.

## 5. Not modelled

- The saving and restoring of registers (`isr_asm.S`), the bit layout of
  descriptors, gates and page table entries, and the multiboot report: no control
  depends on them that a model of this kind could check.
- `memset`, `memcpy`, `memmove`, `strlen` and `strcpy` of `lib.c`: pure copies,
  which the models use as such.
- `pit_set_rate`, `pit_get_count`, `unset_pde_flags`, `read_directory` and
  `sys_call_handler`, which nothing calls; `set_handler` and `sigreturn`, which
  only return -1.
- The programs hello, counter, pingpong, testprint and sigtest, and the fish
  animation: they only draw, count or try signals.  `ece391emulate.c` stands in
  for the kernel when the programs run on Linux.
- The branch of `fault_handler` for a fault before there is a process
  (`isr.c:206-213`), which prints and loops for ever.
- The contents of bad memory: a program either faults on a buffer or owns it.
- The commented-out tests.

## 6. What is left

1. `GrepExact` for every text, by an invariant on the part of the file that grep
   still holds in its buffer, against a reference that is stated line by line.
2. `ProcessTree` and `LiveHasActive` with the "halt" race: after a shell ended off
   screen a dead process can be the parent of a live one, so they need a weaker
   tree whose roots may hang from dead slots.
