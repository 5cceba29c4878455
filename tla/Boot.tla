-------------------------------- MODULE Boot --------------------------------
(***************************************************************************)
(* How interrupts come to the kernel: the steps of entry() (kernel.c), the *)
(* gates of the IDT (idt_set.c, isrs_install in isr.c), irq_table, the two *)
(* 8259 (i8259.c), and the bytes that the keyboard sends, with the keys    *)
(* that are really held down.  Once the shell runs, a program reads its    *)
(* terminal and opens and closes the RTC.                                  *)
(*                                                                         *)
(* An interrupt handler runs with interrupts off, so it is one step from   *)
(* its acceptance to its iret.                                             *)
(***************************************************************************)
EXTENDS Keyboard, FiniteSets

CONSTANTS
    PhysKeys,     \* keys of the keyboard: [ext, code]; ext is the 0xE0 prefix
    Beyond,       \* what may lie behind kybd_keys
    KeysFrom,     \* the steps of entry() after which keys and timer ticks come
    TicksFrom,
    MaxHeld,      \* bound on the keys held down at a time
    MaxBytes      \* bound on the bytes in the keyboard's output buffer

ASSUME BootAssumption ==
    /\ PhysKeys \subseteq [ext : BOOLEAN, code : 0 .. 127]
    /\ Beyond \cap {"LSHIFT", "RSHIFT"} = {}
    /\ {KeysFrom, TicksFrom, MaxHeld, MaxBytes} \subseteq Nat

None    == -1
PIT     == 0       \* PIT_IRQ_NUM, KEYBOARD_IRQ_NUM, RTC_IRQ_NUM, SLAVE_IRQ
KYBD    == 1
SLAVE   == 2
RTC     == 8
Irqs    == {PIT, KYBD, SLAVE, RTC}
Vectors == {0, 3, 14, 32, 33, 40, 128}      \* of the IDT, some of each kind

VARIABLES
    done,              \* the steps of entry() that are done
    mode,              \* boot, user, read (in terminal_read), halted, dead
    IF_flag,           \* the interrupt flag
    idt, idtr,         \* the gates, and whether the IDT is loaded
    irq_table,
    pic,               \* [masked, irr, isr] of the two 8259
    rtc_on,            \* does the RTC interrupt?
    current_terminal,
    hit_enter,         \* of terminal 0
    flags, caps_lock,
    held,              \* the keys that are held down
    outbuf,            \* bytes waiting at KEYBOARD_PORT_DATA
    beyond             \* what lies behind kybd_keys in this build

cpuVars  == <<mode, IF_flag, idt, idtr, irq_table>>
termVars == <<current_terminal, hit_enter>>
keyVars  == <<flags, caps_lock, held, outbuf, beyond>>
vars     == <<done, cpuVars, pic, rtc_on, termVars, keyVars>>

-----------------------------------------------------------------------------
(* idt_set.c.  reserved3 is the bit of the type that makes a trap gate, one *)
(* that leaves interrupts as they are; set_trap_gate does not set it.       *)
NoGate           == [present |-> FALSE, reserved3 |-> 0, dpl |-> 0]
set_int_gate     == [present |-> TRUE, reserved3 |-> 0, dpl |-> 0]
set_trap_gate    == [present |-> TRUE, reserved3 |-> 0, dpl |-> 0]
set_sys_int_gate == [present |-> TRUE, reserved3 |-> 1, dpl |-> 3]
set_sys_gate_Int == [present |-> TRUE, reserved3 |-> 0, dpl |-> 3]   \* variant
set_sys_gate     == [present |-> TRUE, reserved3 |-> 1, dpl |-> 3]

isrs_install ==
    [v \in Vectors |-> CASE v \in {2, 14} \cup 32 .. 47 -> set_int_gate
                         [] v = 3                       -> set_sys_int_gate
                         [] v \in {4, 5, 128}           -> set_sys_gate
                         [] OTHER                       -> set_trap_gate]

(* i8259.c.  The slave hangs on the SLAVE line of the master. *)
Lines(n) == IF n < 8 THEN {n} ELSE {n, SLAVE}

i8259_init == [masked |-> Irqs, irr |-> {}, isr |-> {}]

enable_irq(p, n)  == [p EXCEPT !.masked = @ \ Lines(n)]

disable_irq(p, n) == [p EXCEPT !.masked = @ \cup Lines(n)]

send_eoi_SlaveOnly(p, n) == [p EXCEPT !.isr = @ \ {n}]              \* variant

send_eoi(p, n) == [p EXCEPT !.isr = @ \ Lines(n)]

(* The 8259 passes a request on when neither it nor its line is masked, the *)
(* line is not blocked by one in service, and none of a higher priority     *)
(* waits.                                                                   *)
Level(n) == IF n < 8 THEN n ELSE SLAVE
Passes(n) ==
    /\ n \in pic.irr
    /\ Lines(n) \cap pic.masked = {}
    /\ \A m \in pic.isr : Level(m) > Level(n)
Offered(n) == Passes(n) /\ \A m \in Irqs : Level(m) < Level(n) => ~Passes(m)

Accepted(n) == [pic EXCEPT !.irr = @ \ {n}, !.isr = @ \cup Lines(n)]

-----------------------------------------------------------------------------
(* The order of the steps of entry(); pit_init turns interrupts on between  *)
(* its two.                                                                 *)
Setup_IsrsLate ==                         \* variant: isrs_install after kybd_init
    <<"multiboot", "descriptors", "i8259_init", "fs_init", "virtualmem_init",
      "kybd_init", "isrs_install", "rtc_init", "pit_init", "pit_enable", "lidt", "sti",
      "start_terminal">>

Setup ==
    <<"multiboot", "descriptors", "i8259_init", "fs_init", "virtualmem_init",
      "isrs_install", "kybd_init", "rtc_init", "pit_init", "pit_enable", "lidt", "sti",
      "start_terminal">>

At(step) == mode = "boot" /\ Setup[done + 1] = step /\ done' = done + 1

(* Not booted by a multiboot loader, or bits 4 and 5 of its flags are both  *)
(* set: entry() returns, and boot.S halts with interrupts off.              *)
Multiboot ==
    /\ At("multiboot")
    /\ mode' \in {"boot", "halted"}
    /\ UNCHANGED <<IF_flag, idt, idtr, irq_table, pic, rtc_on, termVars, keyVars>>

(* Steps without an effect on interrupts: the LDT and TSS entries of the    *)
(* GDT, and fs_init and virtualmem_init.                                    *)
Descriptors ==
    /\ At("descriptors") \/ At("fs_init") \/ At("virtualmem_init")
    /\ UNCHANGED <<cpuVars, pic, rtc_on, termVars, keyVars>>

InitPic ==
    /\ At("i8259_init")
    /\ pic' = i8259_init
    /\ UNCHANGED <<cpuVars, rtc_on, termVars, keyVars>>

IsrsInstall ==
    /\ At("isrs_install")
    /\ idt' = isrs_install
    /\ irq_table' = [n \in Irqs |-> "irq_handler_default"]
    /\ UNCHANGED <<mode, IF_flag, idtr, pic, rtc_on, termVars, keyVars>>

add_irq(n, handler) == [irq_table EXCEPT ![n] = handler]

KybdInit ==
    /\ At("kybd_init")
    /\ irq_table' = add_irq(KYBD, "keyboard_handler_main")
    /\ pic' = enable_irq(pic, KYBD)
    /\ UNCHANGED <<mode, IF_flag, idt, idtr, rtc_on, termVars, keyVars>>

RtcInit ==
    /\ At("rtc_init")
    /\ irq_table' = add_irq(RTC, "rtc_handler_main")
    /\ UNCHANGED <<mode, IF_flag, idt, idtr, pic, rtc_on, termVars, keyVars>>

PitInit ==
    /\ At("pit_init")
    /\ irq_table' = add_irq(PIT, "pit_handler_main")
    /\ IF_flag' = TRUE
    /\ UNCHANGED <<mode, idt, idtr, pic, rtc_on, termVars, keyVars>>

PitEnable ==
    /\ At("pit_enable")
    /\ pic' = enable_irq(pic, PIT)
    /\ UNCHANGED <<cpuVars, rtc_on, termVars, keyVars>>

Lidt ==
    /\ At("lidt")
    /\ idtr' = TRUE
    /\ UNCHANGED <<mode, IF_flag, idt, irq_table, pic, rtc_on, termVars, keyVars>>

Sti ==
    /\ At("sti")
    /\ IF_flag' = TRUE
    /\ UNCHANGED <<mode, idt, idtr, irq_table, pic, rtc_on, termVars, keyVars>>

StartTerminal(t) == current_terminal' = t

(* start_terminal(0) does not return: it executes shells forever. *)
StartShell ==
    /\ At("start_terminal")
    /\ StartTerminal(0)
    /\ mode' = "user"
    /\ UNCHANGED <<IF_flag, idt, idtr, irq_table, pic, rtc_on, hit_enter, keyVars>>

BootStep ==
    \/ Multiboot \/ Descriptors \/ InitPic \/ IsrsInstall \/ KybdInit \/ RtcInit
    \/ PitInit \/ PitEnable \/ Lidt \/ Sti \/ StartShell

-----------------------------------------------------------------------------
(* The devices request interrupts.  The keyboard does when its empty output *)
(* buffer gets a byte.                                                      *)

Bytes(k, pressed) ==
    (IF k.ext THEN <<224>> ELSE <<>>) \o <<k.code + IF pressed THEN 0 ELSE MASK_KEY_PRESS>>

Send(bytes) ==
    /\ done >= KeysFrom
    /\ Len(outbuf) + Len(bytes) <= MaxBytes
    /\ outbuf' = outbuf \o bytes
    /\ pic' = IF outbuf = <<>> THEN [pic EXCEPT !.irr = @ \cup {KYBD}] ELSE pic
    /\ UNCHANGED <<done, cpuVars, rtc_on, termVars, flags, caps_lock, beyond>>

Press(k) ==
    /\ k \notin held /\ Cardinality(held) < MaxHeld
    /\ held' = held \cup {k}
    /\ Send(Bytes(k, TRUE))

Release(k) ==
    /\ k \in held
    /\ held' = held \ {k}
    /\ Send(Bytes(k, FALSE))

Request(n) ==
    /\ n = PIT => done >= TicksFrom
    /\ n = RTC => rtc_on
    /\ pic' = [pic EXCEPT !.irr = @ \cup {n}]
    /\ UNCHANGED <<done, cpuVars, rtc_on, termVars, keyVars>>

-----------------------------------------------------------------------------
(* The processor takes an interrupt.  Without an IDT it shuts down: QEMU's  *)
(* triple fault.                                                            *)

Interrupted(n) == IF_flag /\ mode \in {"boot", "user", "read"} /\ Offered(n)

Vectored(n) == Interrupted(n) /\ idtr /\ idt[32 + n].present

TripleFault ==
    /\ \E n \in Irqs : Interrupted(n) /\ (~idtr \/ ~idt[32 + n].present)
    /\ mode' = "dead"
    /\ UNCHANGED <<done, IF_flag, idt, idtr, irq_table, pic, rtc_on, termVars, keyVars>>

(* keyboard_handler_main: start_terminal is refused where no process is     *)
(* free for a new shell.                                                    *)
KeyboardIrq ==
    LET h == Handled(Head(outbuf), beyond, flags, caps_lock)
        more == IF Tail(outbuf) = <<>> THEN {} ELSE {KYBD}
        term == CASE h.arg = "F1" -> 0 [] h.arg = "F2" -> 1 [] OTHER -> 2
    IN  /\ Vectored(KYBD) /\ irq_table[KYBD] = "keyboard_handler_main"
        /\ outbuf' = Tail(outbuf)
        /\ pic' = [send_eoi(Accepted(KYBD), KYBD) EXCEPT !.irr = @ \cup more]
        /\ flags' = h.flags /\ caps_lock' = h.caps
        /\ current_terminal' \in {current_terminal}
                \cup (IF h.does = "start_terminal" THEN {term} ELSE {})
        /\ hit_enter' = (hit_enter \/ (h.arg = "RETURN" /\ current_terminal = 0))
        /\ UNCHANGED <<done, cpuVars, rtc_on, held, beyond>>

(* pit_handler_main and rtc_handler_main acknowledge first; what they do    *)
(* then is in modules Kernel and Rtc.  irq_handler_default does nothing,    *)
(* not even that.                                                           *)
OtherIrq(n) ==
    /\ Vectored(n) /\ irq_table[n] # "keyboard_handler_main"
    /\ pic' = IF irq_table[n] = "irq_handler_default" THEN Accepted(n)
              ELSE send_eoi(Accepted(n), n)
    /\ UNCHANGED <<done, cpuVars, rtc_on, termVars, keyVars>>

-----------------------------------------------------------------------------
(* A program of terminal 0: int 0x80 goes through its gate, iret restores   *)
(* the flags.                                                               *)

ReadCall ==
    /\ mode = "user"
    /\ idt[128].dpl = 3
    /\ mode' = "read"
    /\ IF_flag' = (IF_flag /\ idt[128].reserved3 = 1)
    /\ hit_enter' = FALSE
    /\ UNCHANGED <<done, idt, idtr, irq_table, pic, rtc_on, current_terminal,
                   keyVars>>

ReadEnds ==
    /\ mode = "read" /\ hit_enter
    /\ mode' = "user"
    /\ IF_flag' = TRUE
    /\ hit_enter' = FALSE
    /\ UNCHANGED <<done, idt, idtr, irq_table, pic, rtc_on, current_terminal,
                   keyVars>>

(* rtc_open of the first program, and rtc_close of the last. *)
RtcOpen ==
    /\ mode = "user" /\ ~rtc_on
    /\ rtc_on' = TRUE
    /\ pic' = enable_irq(pic, RTC)
    /\ UNCHANGED <<done, cpuVars, termVars, keyVars>>

RtcClose ==
    /\ mode = "user" /\ rtc_on
    /\ rtc_on' = FALSE
    /\ pic' = disable_irq(pic, RTC)
    /\ UNCHANGED <<done, cpuVars, termVars, keyVars>>

-----------------------------------------------------------------------------
(* boot.S enters with interrupts off. *)
Init ==
    /\ done = 0 /\ mode = "boot" /\ IF_flag = FALSE
    /\ idt = [v \in Vectors |-> NoGate] /\ idtr = FALSE
    /\ irq_table = [n \in Irqs |-> "none"]
    /\ pic = [masked |-> {}, irr |-> {}, isr |-> {}]
    /\ rtc_on = FALSE
    /\ current_terminal = None /\ hit_enter = FALSE
    /\ flags = NoFlags /\ caps_lock = FALSE
    /\ held = {} /\ outbuf = <<>>
    /\ beyond \in Beyond

Next ==
    \/ BootStep
    \/ \E k \in PhysKeys : Press(k) \/ Release(k)
    \/ \E n \in {PIT, RTC} : Request(n)
    \/ TripleFault
    \/ KeyboardIrq
    \/ \E n \in Irqs : OtherIrq(n)
    \/ ReadCall
    \/ ReadEnds
    \/ RtcOpen
    \/ RtcClose

Spec == Init /\ [][Next]_vars

(* The processor takes what the 8259 offers; the timer's period is long for *)
(* its handler, so that a key is offered again and again, not always.       *)
FairSpec ==
    /\ Spec
    /\ SF_vars(KeyboardIrq) /\ WF_vars(OtherIrq(PIT)) /\ WF_vars(OtherIrq(RTC))
    /\ WF_vars(ReadEnds)

-----------------------------------------------------------------------------
(* A line that is not masked has its driver's handler: isrs_install, which  *)
(* resets irq_table, comes before every add_irq, and each init unmasks its  *)
(* line after it.  An interrupt of irq_handler_default would never be       *)
(* acknowledged.                                                            *)
HandlersInstalled ==
    done > 2 => \A n \in {PIT, KYBD, RTC} :
        n \notin pic.masked => irq_table[n] \notin {"none", "irq_handler_default"}

(* Every handler acknowledges its interrupt, on the slave and on the line   *)
(* of the master behind which the slave sits: nothing stays in service and  *)
(* blocks the lines of lower priority.                                      *)
NothingInService == done > 2 => pic.isr = {}

(* No modifier sticks: once the bytes are handled, the flag of a modifier   *)
(* is only set while a key of that kind is held, and the two shift flags    *)
(* are exactly the two shift keys, whatever the 0xE0 prefixes and the codes *)
(* behind the end of kybd_keys do.                                          *)
FlagsFollowKeys ==
    outbuf = <<>> =>
        /\ \A m \in Modifiers : flags[FlagOf[m]] =>
              \E k \in held : KeyCode(k.code, beyond) = m
        /\ flags.l_shift_key <=> \E k \in held : k.code = 42
        /\ flags.r_shift_key <=> \E k \in held : k.code = 54

(* With no key held, every printable character can be typed next, be        *)
(* caps_lock off or on, by a key of the main block with or without a shift  *)
(* key (kybd_keys and the switch of keyboard_handler_main).                 *)
EveryCharacterTyped ==
    LET chars == {Character(kybd_keys[i], s, FALSE, FALSE, caps_lock) :
                    i \in 1 .. MAX_SCANCODE, s \in BOOLEAN}
    IN  held = {} /\ pic.irr = {} => Printable \subseteq chars

(* A program that waits in terminal_read gets the Enter that is typed on    *)
(* its terminal: the gate of int 0x80 leaves interrupts on, or the wait     *)
(* would never end.                                                         *)
EnterEndsRead ==
    (mode = "read" /\ current_terminal = 0 /\ outbuf # <<>> /\ Head(outbuf) = 28)
        ~> (mode # "read")

(* Interrupts are not enabled before the IDT is set up ("otherwise QEMU     *)
(* will triple fault", kernel.c).                                           *)
NoTripleFault == mode # "dead"
=============================================================================
