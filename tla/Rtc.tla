--------------------------------- MODULE Rtc ---------------------------------
(***************************************************************************)
(* The real-time clock driver (devices/rtc.c), reached through the open,   *)
(* close, read and write system calls.  One hardware clock is shared by    *)
(* all processes: it runs at rtc_rate, the largest rate asked for, and a   *)
(* process with a lower rate waits for max_count of its interrupts.        *)
(*                                                                         *)
(* System calls enter through a trap gate, so interrupts stay on and the   *)
(* scheduler can switch to another process between any two accesses to the *)
(* shared state, except inside the cli()/sti() blocks.  Each access is a   *)
(* step here; the loops over procs[] are one step each.  The close calls   *)
(* of halt are close calls of the halting process.                         *)
(***************************************************************************)
EXTENDS Integers, FiniteSets, FiniteSetsExt

CONSTANTS
    Procs,         \* slots of the process table
    Fds,           \* descriptors open() can hand out, 2 .. FILE_ARRAY_LEN - 1
    Rates,         \* the numbers programs write to the device
    Interleaved    \* do system calls of different processes overlap?

ASSUME RtcAssumption ==
    /\ IsFiniteSet(Procs)
    /\ Fds \subseteq Nat /\ IsFiniteSet(Fds)
    /\ Rates \subseteq Int
    /\ Interleaved \in BOOLEAN

RateMin   == 2        \* RATE_MIN
RateMax   == 1024     \* RATE_MAX
RtcAbsMax == 32768    \* RTC_ABS_MAX
IntMin    == -2147483647 - 1      \* the smallest int32_t

VARIABLES
    files,       \* live descriptors, <<process, fd>>
    open,        \* the driver's count of them
    rtc_rate,    \* what the driver takes the hardware rate to be
    rate, max_count,   \* procs[i].rate and procs[i].max_count
    curr_count,  \* procs[i].curr_count, 0 standing for every value <= 0
    reg_a,       \* rate select bits of register A
    reg_b,       \* is the periodic interrupt on in register B?
    irq,         \* is IRQ 8 unmasked on the PIC?
    pc, arg,     \* where a process is in which call, and with which argument
    reg          \* the register that open++ and open-- go through

driverVars == <<open, rtc_rate>>
hwVars     == <<reg_a, reg_b, irq>>
vars == <<files, driverVars, rate, max_count, curr_count, hwVars, pc, arg, reg>>

(* rtc_rate / rate, which C rounds toward zero: the one negative rate there *)
(* is, IntMin, gives 0.                                                     *)
Divisor(total, r) == IF r = IntMin THEN 0 ELSE total \div r

(* update_rtc_processes *)
update_rtc_processes == max_count' = [p \in Procs |-> Divisor(rtc_rate, rate[p])]

update_rtc_processes_Self(p) ==     \* variant: only the caller's divisor
    max_count' = [max_count EXCEPT ![p] = Divisor(rtc_rate, rate[p])]

(* set_rate writes log2(RTC_ABS_MAX / rate) + 1 into register A ... *)
set_rate(r) == CHOOSE rs \in 1 .. 15 :
    2 ^ (rs - 1) <= RtcAbsMax \div r /\ RtcAbsMax \div r < 2 ^ rs

(* ... and this is the frequency the clock then has. *)
Frequency(rs) == RtcAbsMax \div 2 ^ (rs - 1)

(* The test of rtc_write: not 0, not above RATE_MAX, and r & (r - 1) is 0.  *)
(* The powers of two pass it, and IntMin, whose only bit is the sign.       *)
ValidRate(r) == r # 0 /\ r <= RateMax /\ (r = IntMin \/ \E k \in 0 .. 10 : r = 2 ^ k)

-----------------------------------------------------------------------------
(* A step of p inside a driver call. *)
InCall(q) == pc[q] \notin {"user", "spin"}
Turn(p)   == Interleaved \/ \A q \in Procs \ {p} : ~InCall(q)
At(p, from, to) == Turn(p) /\ pc[p] = from /\ pc' = [pc EXCEPT ![p] = to]

Holds(p)   == \E f \in Fds : <<p, f>> \in files

(* open() takes the lowest free descriptor, then rtc_open tests open. *)
OpenStart(p) ==
    /\ \E f \in Fds :
         /\ <<p, f>> \notin files
         /\ \A g \in Fds : g < f => <<p, g>> \in files
         /\ files' = files \cup {<<p, f>>}
    /\ At(p, "user", IF open = 0 THEN "turn_on" ELSE "count_up")
    /\ UNCHANGED <<driverVars, rate, max_count, curr_count, hwVars, arg, reg>>

OpenTurnOn(p) ==                       \* cli() ... sti()
    /\ At(p, "turn_on", "unmask")
    /\ reg_b' = TRUE
    /\ reg_a' = 15                     \* RATE_DEFAULT, 2 Hz
    /\ rtc_rate' = RateMin
    /\ UNCHANGED <<files, open, rate, max_count, curr_count, irq, arg, reg>>

OpenUnmask(p) ==                       \* enable_irq
    /\ At(p, "unmask", "count_up")
    /\ irq' = TRUE
    /\ UNCHANGED <<files, driverVars, rate, max_count, curr_count, reg_a, reg_b,
                   arg, reg>>

(* open++ and open--: the compiler, run without optimisation, loads, adds   *)
(* and stores.                                                              *)
CountLoad(p) ==
    /\ \/ At(p, "count_up", "store_up")
       \/ At(p, "count_down", "store_down")
    /\ reg' = [reg EXCEPT ![p] = open]
    /\ UNCHANGED <<files, driverVars, rate, max_count, curr_count, hwVars, arg>>

CountStore(p) ==
    /\ \/ At(p, "store_up", "user") /\ open' = reg[p] + 1
       \/ At(p, "store_down", "test") /\ open' = reg[p] - 1
    /\ reg' = [reg EXCEPT ![p] = 0]            \* dead from here on
    /\ UNCHANGED <<files, rtc_rate, rate, max_count, curr_count, hwVars, arg>>

-----------------------------------------------------------------------------
(* close(fd) and rtc_close. *)
CloseStart(p, f) ==
    /\ <<p, f>> \in files
    /\ At(p, "user", "count_down")
    /\ rate' = [rate EXCEPT ![p] = RateMin]
    /\ arg' = [arg EXCEPT ![p] = f]
    /\ UNCHANGED <<files, driverVars, max_count, curr_count, hwVars, reg>>

CloseTest_Always(p) ==                 \* variant: every close turns it off
    /\ At(p, "test", "mask")
    /\ UNCHANGED <<files, driverVars, rate, max_count, curr_count, hwVars, arg, reg>>

CloseTest(p) ==
    /\ At(p, "test", IF open = 0 THEN "mask" ELSE "trim")
    /\ UNCHANGED <<files, driverVars, rate, max_count, curr_count, hwVars, arg, reg>>

CloseMask(p) ==                        \* disable_irq
    /\ At(p, "mask", "turn_off")
    /\ irq' = FALSE
    /\ UNCHANGED <<files, driverVars, rate, max_count, curr_count, reg_a, reg_b,
                   arg, reg>>

CloseTurnOff(p) ==                     \* cli() ... sti()
    /\ At(p, "turn_off", "release")
    /\ reg_b' = FALSE
    /\ UNCHANGED <<files, driverVars, rate, max_count, curr_count, reg_a, irq,
                   arg, reg>>

(* rtc_rate becomes the largest rate still asked for. *)
CloseTrim(p) ==
    /\ At(p, "trim", "close_update")
    /\ rtc_rate' = Max({RateMin} \cup {rate[q] : q \in Procs})
    /\ UNCHANGED <<files, open, rate, max_count, curr_count, hwVars, arg, reg>>

CloseUpdate_Self(p) ==                 \* variant: only the caller's divisor
    /\ At(p, "close_update", "release")
    /\ update_rtc_processes_Self(p)
    /\ UNCHANGED <<files, driverVars, rate, curr_count, hwVars, arg, reg>>

CloseUpdate(p) ==
    /\ At(p, "close_update", "release")
    /\ update_rtc_processes
    /\ UNCHANGED <<files, driverVars, rate, curr_count, hwVars, arg, reg>>

CloseReturn(p) ==
    /\ At(p, "release", "user")
    /\ files' = files \ {<<p, arg[p]>>}
    /\ arg' = [arg EXCEPT ![p] = 0]
    /\ UNCHANGED <<driverVars, rate, max_count, curr_count, hwVars, reg>>

-----------------------------------------------------------------------------
(* write and rtc_write; an invalid rate is refused and changes nothing. *)
WriteStart(p, r) ==
    /\ Holds(p)
    /\ ValidRate(r)
    /\ At(p, "user", "divide")
    /\ rate' = [rate EXCEPT ![p] = r]
    /\ UNCHANGED <<files, driverVars, max_count, curr_count, hwVars, arg, reg>>

WriteDivide(p) ==
    /\ At(p, "divide", "compare")
    /\ max_count' = [max_count EXCEPT ![p] = Divisor(rtc_rate, rate[p])]
    /\ UNCHANGED <<files, driverVars, rate, curr_count, hwVars, arg, reg>>

WriteCompare(p) ==
    /\ At(p, "compare", IF rate[p] > rtc_rate THEN "raise" ELSE "user")
    /\ UNCHANGED <<files, driverVars, rate, max_count, curr_count, hwVars, arg, reg>>

WriteRaise(p) ==
    /\ At(p, "raise", "set_rate")
    /\ rtc_rate' = rate[p]
    /\ UNCHANGED <<files, open, rate, max_count, curr_count, hwVars, arg, reg>>

WriteSetRate_Lost(p) ==                \* variant: the hardware is not told
    /\ At(p, "set_rate", "write_update")
    /\ UNCHANGED <<files, driverVars, rate, max_count, curr_count, hwVars, arg, reg>>

WriteSetRate(p) ==                     \* cli() ... sti()
    /\ At(p, "set_rate", "write_update")
    /\ reg_a' = set_rate(rate[p])
    /\ UNCHANGED <<files, driverVars, rate, max_count, curr_count, reg_b, irq,
                   arg, reg>>

WriteUpdate(p) ==
    /\ At(p, "write_update", "user")
    /\ update_rtc_processes
    /\ UNCHANGED <<files, driverVars, rate, curr_count, hwVars, arg, reg>>

-----------------------------------------------------------------------------
(* read and rtc_read: wait for max_count interrupts. *)
ReadStart(p) ==
    /\ Holds(p)
    /\ Turn(p)
    /\ pc[p] = "user" /\ pc' = [pc EXCEPT ![p] = "spin"]
    /\ curr_count' = [curr_count EXCEPT ![p] = max_count[p]]
    /\ UNCHANGED <<files, driverVars, rate, max_count, hwVars, arg, reg>>

ReadReturn(p) ==
    /\ pc[p] = "spin" /\ pc' = [pc EXCEPT ![p] = "user"]
    /\ curr_count[p] = 0
    /\ UNCHANGED <<files, driverVars, rate, max_count, curr_count, hwVars, arg, reg>>

Tick_Reload ==                         \* variant: starts over at the end
    /\ reg_b /\ irq
    /\ curr_count' = [p \in Procs |-> IF curr_count[p] > 1 THEN curr_count[p] - 1
                                      ELSE max_count[p]]
    /\ UNCHANGED <<files, driverVars, rate, max_count, hwVars, pc, arg, reg>>

(* rtc_handler_main, when the clock ticks and the PIC lets it through. *)
Tick ==
    /\ reg_b /\ irq
    /\ curr_count' = [p \in Procs |-> IF curr_count[p] > 0 THEN curr_count[p] - 1 ELSE 0]
    /\ UNCHANGED <<files, driverVars, rate, max_count, hwVars, pc, arg, reg>>

-----------------------------------------------------------------------------
(* rtc_init; max_count and rtc_rate are static, hence 0. *)
Init ==
    /\ files = {}
    /\ open = 0
    /\ rtc_rate = 0
    /\ rate = [p \in Procs |-> RateMin]
    /\ max_count = [p \in Procs |-> 0]
    /\ curr_count = [p \in Procs |-> 0]
    /\ reg_a = 6 /\ reg_b = FALSE /\ irq = FALSE    \* as the firmware leaves it
    /\ pc = [p \in Procs |-> "user"]
    /\ arg = [p \in Procs |-> 0]
    /\ reg = [p \in Procs |-> 0]

Call(p) ==
    \/ OpenTurnOn(p) \/ OpenUnmask(p) \/ CountLoad(p) \/ CountStore(p)
    \/ CloseTest(p) \/ CloseMask(p) \/ CloseTurnOff(p) \/ CloseTrim(p)
    \/ CloseUpdate(p) \/ CloseReturn(p)
    \/ WriteDivide(p) \/ WriteCompare(p) \/ WriteRaise(p) \/ WriteSetRate(p)
    \/ WriteUpdate(p)
    \/ ReadReturn(p)

Next ==
    \/ \E p \in Procs :
        \/ OpenStart(p)
        \/ \E f \in Fds : CloseStart(p, f)
        \/ \E r \in Rates : WriteStart(p, r)
        \/ ReadStart(p)
        \/ Call(p)
    \/ Tick

Spec == Init /\ [][Next]_vars

(* The scheduler runs every process again and again, and an enabled clock   *)
(* keeps ticking.                                                           *)
FairSpec == Spec /\ WF_vars(Tick) /\ \A p \in Procs : WF_vars(Call(p))

-----------------------------------------------------------------------------
(* Between the calls. *)
Quiet == \A p \in Procs : ~InCall(p)

(* The clock interrupts exactly while some process has the device open:     *)
(* rtc_open turns it on for the first descriptor and rtc_close off with the *)
(* last, although they decide by a count of their own.                      *)
OnWhileOpen ==
    Quiet => /\ open = Cardinality(files)
             /\ files # {} <=> reg_b /\ irq

(* The clock as the driver sees it: rtc_rate serves the fastest process and *)
(* every process that wrote a rate other than RATE_MIN waits for the number *)
(* of interrupts that makes up its period, whoever opened, wrote or closed  *)
(* since; the rate IntMin, which rtc_write lets through, waits for none.    *)
(* Nothing is said of a process whose rate is RATE_MIN because it has only  *)
(* opened the device: rtc_open sets no max_count, and such a process waits  *)
(* for as many interrupts as were left there.                               *)
Divisors ==
    Quiet => \A p \in Procs :
        /\ rate[p] # RateMin => rate[p] <= rtc_rate
        /\ rate[p] = IntMin => max_count[p] = 0
        /\ rate[p] \notin {RateMin, IntMin} => max_count[p] * rate[p] = rtc_rate

(* The hardware is never slower than rtc_rate, and a read of a process that *)
(* wrote a rate other than RATE_MIN takes no longer than the period it      *)
(* asked for: max_count interrupts come within 1 / rate seconds.            *)
NeverSlower ==
    Quiet => /\ files # {} => Frequency(reg_a) >= rtc_rate
             /\ \A p \in Procs : rate[p] # RateMin =>
                    max_count[p] * rate[p] <= Frequency(reg_a)

(* Every read returns. *)
ReadReturns == \A p \in Procs : pc[p] = "spin" ~> pc[p] = "user"
=============================================================================
