----------------------------- MODULE BootProofs -----------------------------
(***************************************************************************)
(* Proofs about module Boot, for every keyboard, whatever lies behind      *)
(* kybd_keys, and however early keys and timer ticks come.                 *)
(***************************************************************************)
EXTENDS Boot, SequenceTheorems, TLAPS

Handlers == {"none", "irq_handler_default", "keyboard_handler_main",
             "rtc_handler_main", "pit_handler_main"}

BootType ==
    /\ done \in 0 .. 13
    /\ mode \in {"boot", "user", "read", "halted", "dead"}
    /\ mode = "boot" => done <= 12
    /\ mode \in {"user", "read"} => done = 13
    /\ IF_flag \in BOOLEAN
    /\ pic \in [masked : SUBSET Irqs, irr : SUBSET Irqs, isr : SUBSET Irqs]
    /\ irq_table \in [Irqs -> Handlers]

(* How far entry() is, as the interrupt system shows it. *)
Order ==
    /\ IF_flag => done >= 9
    /\ done \in 3 .. 6 => pic.masked = Irqs
    /\ done \in 3 .. 9 => PIT \in pic.masked
    /\ done \in 3 .. 12 => RTC \in pic.masked
    /\ done >= 7 => irq_table[KYBD] = "keyboard_handler_main"
    /\ done >= 8 => irq_table[RTC] = "rtc_handler_main"
    /\ done >= 9 => irq_table[PIT] = "pit_handler_main"

(* Nothing is in service between two handlers, and the line of the slave    *)
(* makes no requests of its own.                                            *)
Served == pic.isr = {} /\ SLAVE \notin pic.irr

BootInv == BootType /\ Order /\ Served

-----------------------------------------------------------------------------
(* The place of each step in entry(). *)
LEMMA SetupOrder ==
    ASSUME NEW d \in 0 .. 12
    PROVE  /\ Setup[d + 1] = "multiboot" => d = 0
           /\ Setup[d + 1] = "descriptors" => d = 1
           /\ Setup[d + 1] = "i8259_init" => d = 2
           /\ Setup[d + 1] = "fs_init" => d = 3
           /\ Setup[d + 1] = "virtualmem_init" => d = 4
           /\ Setup[d + 1] = "isrs_install" => d = 5
           /\ Setup[d + 1] = "kybd_init" => d = 6
           /\ Setup[d + 1] = "rtc_init" => d = 7
           /\ Setup[d + 1] = "pit_init" => d = 8
           /\ Setup[d + 1] = "pit_enable" => d = 9
           /\ Setup[d + 1] = "lidt" => d = 10
           /\ Setup[d + 1] = "sti" => d = 11
           /\ Setup[d + 1] = "start_terminal" => d = 12
  BY DEF Setup

LEMMA AtPlace ==
    ASSUME BootType, NEW step, At(step)
    PROVE  done \in 0 .. 12 /\ Setup[done + 1] = step /\ done' = done + 1 /\ mode = "boot"
  BY DEF At, BootType

LEMMA BootInit == Init => BootInv
  <1> SUFFICES ASSUME Init PROVE BootInv
    OBVIOUS
  <1>1. BootType
    <2>1. IF_flag \in BOOLEAN
      BY Zenon DEF Init
    <2> QED
      BY <2>1 DEF Init, BootType, Irqs, Handlers
  <1>2. Order
    BY DEF Init, Order
  <1>3. Served
    BY DEF Init, Served
  <1> QED
    BY <1>1, <1>2, <1>3 DEF BootInv

(* What the 8259 operations do to the masks. *)
LEMMA EnableIrq ==
    ASSUME BootType, NEW n \in Irqs
    PROVE  LET p == enable_irq(pic, n) IN
           /\ p \in [masked : SUBSET Irqs, irr : SUBSET Irqs, isr : SUBSET Irqs]
           /\ p.masked = pic.masked \ Lines(n) /\ p.irr = pic.irr /\ p.isr = pic.isr
  BY DEF BootType, enable_irq

(* The steps of entry() before interrupts are on, and from then on. *)
LEMMA BootStepInv == ASSUME BootInv, BootStep PROVE BootInv'
  <1> USE DEF BootInv
  <1>1. CASE Multiboot
    <2>1. done = 0 /\ done' = 1
      BY <1>1, AtPlace, SetupOrder DEF Multiboot
    <2> QED
      BY <1>1, <2>1 DEF BootType, Order, Served, Multiboot
  <1>2. CASE Descriptors
    <2>1. (done = 1 \/ done = 3 \/ done = 4) /\ done' = done + 1
      BY <1>2, AtPlace, SetupOrder DEF Descriptors
    <2> QED
      BY <1>2, <2>1 DEF BootType, Order, Served, Descriptors, cpuVars
  <1>3. CASE InitPic
    <2>1. done = 2 /\ done' = 3
      BY <1>3, AtPlace, SetupOrder DEF InitPic
    <2> QED
      BY <1>3, <2>1 DEF BootType, Order, Served, InitPic, i8259_init, cpuVars, Irqs,
         PIT, RTC
  <1>4. CASE IsrsInstall
    <2>1. done = 5 /\ done' = 6
      BY <1>4, AtPlace, SetupOrder DEF IsrsInstall
    <2> QED
      BY <1>4, <2>1 DEF BootType, Order, Served, IsrsInstall, Handlers
  <1>5. CASE KybdInit
    <2>1. done = 6 /\ done' = 7
      BY <1>5, AtPlace, SetupOrder DEF KybdInit
    <2>2. KYBD \in Irqs /\ Lines(KYBD) = {KYBD} /\ PIT \in Irqs /\ RTC \in Irqs
          /\ KYBD # PIT /\ KYBD # RTC
      BY DEF Irqs, Lines, KYBD, PIT, RTC
    <2> QED
      BY <1>5, <2>1, <2>2, EnableIrq
         DEF BootType, Order, Served, KybdInit, add_irq, Handlers
  <1>6. CASE RtcInit
    <2>1. done = 7 /\ done' = 8
      BY <1>6, AtPlace, SetupOrder DEF RtcInit
    <2> QED
      BY <1>6, <2>1 DEF BootType, Order, Served, RtcInit, add_irq, Handlers, Irqs,
         KYBD, RTC
  <1>7. CASE PitInit
    <2>1. done = 8 /\ done' = 9
      BY <1>7, AtPlace, SetupOrder DEF PitInit
    <2>2. IF_flag' \in BOOLEAN
      BY <1>7, Zenon DEF PitInit
    <2> QED
      BY <1>7, <2>1, <2>2
         DEF BootType, Order, Served, PitInit, add_irq, Handlers, Irqs, KYBD, RTC, PIT
  <1>8. CASE PitEnable
    <2>1. done = 9 /\ done' = 10
      BY <1>8, AtPlace, SetupOrder DEF PitEnable
    <2>2. PIT \in Irqs /\ Lines(PIT) = {PIT} /\ RTC # PIT
      BY DEF Irqs, Lines, PIT, RTC
    <2> QED
      BY <1>8, <2>1, <2>2, EnableIrq DEF BootType, Order, Served, PitEnable, cpuVars
  <1>9. CASE Lidt
    <2>1. done = 10 /\ done' = 11
      BY <1>9, AtPlace, SetupOrder DEF Lidt
    <2> QED
      BY <1>9, <2>1 DEF BootType, Order, Served, Lidt
  <1>10. CASE Sti
    <2>1. done = 11 /\ done' = 12
      BY <1>10, AtPlace, SetupOrder DEF Sti
    <2>2. IF_flag' \in BOOLEAN
      BY <1>10, Zenon DEF Sti
    <2> QED
      BY <1>10, <2>1, <2>2 DEF BootType, Order, Served, Sti
  <1>11. CASE StartShell
    <2>1. done = 12 /\ done' = 13
      BY <1>11, AtPlace, SetupOrder DEF StartShell
    <2> QED
      BY <1>11, <2>1 DEF BootType, Order, Served, StartShell
  <1> QED
    BY <1>1, <1>2, <1>3, <1>4, <1>5, <1>6, <1>7, <1>8, <1>9, <1>10, <1>11 DEF BootStep

-----------------------------------------------------------------------------
(* A step that only adds requests of devices, or takes one away. *)
LEMMA RequestInv ==
    ASSUME BootInv,
           pic' \in [masked : SUBSET Irqs, irr : SUBSET Irqs, isr : SUBSET Irqs],
           pic'.masked = pic.masked, SLAVE \notin pic'.irr, pic'.isr = {},
           UNCHANGED <<done, cpuVars>>
    PROVE  BootInv'
  BY DEF BootInv, BootType, Order, Served, cpuVars

LEMMA SendInv ==
    ASSUME BootInv, NEW bytes, Send(bytes)
    PROVE  BootInv'
  <1>1. pic' = pic \/ pic' = [pic EXCEPT !.irr = @ \cup {KYBD}]
    BY DEF Send
  <1>2. KYBD \in Irqs /\ KYBD # SLAVE
    BY DEF Irqs, KYBD, SLAVE
  <1> QED
    BY <1>1, <1>2, RequestInv DEF BootInv, BootType, Served, Send

LEMMA RequestStep ==
    ASSUME BootInv, NEW n \in {PIT, RTC}, Request(n)
    PROVE  BootInv'
  <1>1. n \in Irqs /\ n # SLAVE
    BY DEF Irqs, PIT, RTC, SLAVE
  <1> QED
    BY <1>1, RequestInv DEF BootInv, BootType, Served, Request

(* An interrupt that is taken has its driver's handler. *)
LEMMA TakenHandled ==
    ASSUME BootInv, NEW n \in Irqs, Vectored(n)
    PROVE  /\ n \in {PIT, KYBD, RTC} /\ n \in pic.irr
           /\ irq_table[n] \notin {"none", "irq_handler_default"}
  <1>1. n \in pic.irr /\ Lines(n) \cap pic.masked = {} /\ IF_flag
    BY DEF Vectored, Interrupted, Offered, Passes
  <1>2. n \in {PIT, KYBD, RTC}
    BY <1>1 DEF BootInv, Served, Irqs
  <1>3. done >= 9
    BY <1>1 DEF BootInv, Order
  <1> QED
    BY <1>1, <1>2, <1>3 DEF BootInv, BootType, Order

(* Acknowledging what was accepted leaves nothing in service. *)
LEMMA Acknowledged ==
    ASSUME BootInv, NEW n \in {PIT, KYBD, RTC}
    PROVE  LET p == send_eoi(Accepted(n), n) IN
           /\ p \in [masked : SUBSET Irqs, irr : SUBSET Irqs, isr : SUBSET Irqs]
           /\ p.masked = pic.masked /\ p.irr = pic.irr \ {n} /\ p.isr = {}
  <1>1. Lines(n) \subseteq Irqs
    BY DEF Lines, Irqs, PIT, KYBD, RTC
  <1> QED
    BY <1>1 DEF BootInv, BootType, Served, send_eoi, Accepted

LEMMA KeyboardIrqStep == ASSUME BootInv, KeyboardIrq PROVE BootInv'
  <1> DEFINE p == send_eoi(Accepted(KYBD), KYBD)
  <1>1. /\ p \in [masked : SUBSET Irqs, irr : SUBSET Irqs, isr : SUBSET Irqs]
        /\ p.masked = pic.masked /\ p.irr = pic.irr \ {KYBD} /\ p.isr = {}
    BY Acknowledged
  <1>2. KYBD \in Irqs /\ KYBD # SLAVE
    BY DEF Irqs, KYBD, SLAVE
  <1>3. PICK more \in SUBSET {KYBD} : pic' = [p EXCEPT !.irr = @ \cup more]
    BY DEF KeyboardIrq
  <1>4. UNCHANGED <<done, cpuVars>>
    BY DEF KeyboardIrq
  <1> HIDE DEF p
  <1> QED
    BY <1>1, <1>2, <1>3, <1>4, RequestInv DEF BootInv, Served

LEMMA OtherIrqStep ==
    ASSUME BootInv, NEW n \in Irqs, OtherIrq(n)
    PROVE  BootInv'
  <1>1. n \in {PIT, KYBD, RTC} /\ irq_table[n] # "irq_handler_default"
    BY TakenHandled DEF OtherIrq
  <1>2. pic' = send_eoi(Accepted(n), n) /\ UNCHANGED <<done, cpuVars>>
    BY <1>1 DEF OtherIrq
  <1> QED
    BY <1>1, <1>2, Acknowledged, RequestInv DEF BootInv, Served

LEMMA RtcSwitchStep == ASSUME BootInv, RtcOpen \/ RtcClose PROVE BootInv'
  <1>1. done = 13 /\ RTC \in Irqs /\ Lines(RTC) \subseteq Irqs
    BY DEF RtcOpen, RtcClose, BootInv, BootType, Irqs, Lines, RTC, SLAVE
  <1>2. /\ pic' \in [masked : SUBSET Irqs, irr : SUBSET Irqs, isr : SUBSET Irqs]
        /\ pic'.irr = pic.irr /\ pic'.isr = pic.isr
    BY <1>1 DEF RtcOpen, RtcClose, BootInv, BootType, enable_irq, disable_irq
  <1> QED
    BY <1>1, <1>2 DEF RtcOpen, RtcClose, BootInv, BootType, Order, Served, cpuVars

(* BootInv holds in every state, with no condition on when keys and ticks   *)
(* come: interrupts are off until the handlers are in place.                *)
THEOREM BootInvariant == Spec => []BootInv
  <1>1. BootInv /\ [Next]_vars => BootInv'
    <2> SUFFICES ASSUME BootInv, [Next]_vars PROVE BootInv'
      OBVIOUS
    <2>1. CASE BootStep
      BY <2>1, BootStepInv
    <2>2. ASSUME NEW k \in PhysKeys, Press(k) \/ Release(k) PROVE BootInv'
      BY <2>2, SendInv DEF Press, Release
    <2>3. ASSUME NEW n \in {PIT, RTC}, Request(n) PROVE BootInv'
      BY <2>3, RequestStep
    <2>4. CASE TripleFault
      BY <2>4 DEF TripleFault, BootInv, BootType, Order, Served
    <2>5. CASE KeyboardIrq
      BY <2>5, KeyboardIrqStep
    <2>6. ASSUME NEW n \in Irqs, OtherIrq(n) PROVE BootInv'
      BY <2>6, OtherIrqStep
    <2>7. CASE ReadCall
      <3>1. IF_flag' \in BOOLEAN /\ (IF_flag' => IF_flag)
        BY <2>7, Zenon DEF ReadCall
      <3> QED
        BY <2>7, <3>1 DEF ReadCall, BootInv, BootType, Order, Served
    <2>8. CASE ReadEnds
      <3>1. IF_flag' \in BOOLEAN
        BY <2>8, Zenon DEF ReadEnds
      <3> QED
        BY <2>8, <3>1 DEF ReadEnds, BootInv, BootType, Order, Served
    <2>9. CASE RtcOpen \/ RtcClose
      BY <2>9, RtcSwitchStep
    <2>10. CASE UNCHANGED vars
      BY <2>10 DEF vars, cpuVars, BootInv, BootType, Order, Served
    <2> QED
      BY <2>1, <2>2, <2>3, <2>4, <2>5, <2>6, <2>7, <2>8, <2>9, <2>10 DEF Next
  <1> QED
    BY <1>1, BootInit, PTL DEF Spec

(* No unmasked line ever has the default handler, which would never          *)
(* acknowledge: entry() installs each handler before its line is unmasked    *)
(* and resets irq_table before all of them.                                  *)
THEOREM HandlersInstalledHolds == Spec => []HandlersInstalled
  <1>1. BootInv => HandlersInstalled
    BY DEF BootInv, BootType, Order, HandlersInstalled, Irqs
  <1> QED
    BY <1>1, BootInvariant, PTL

(* Nothing stays in service on either 8259: every handler that can run       *)
(* acknowledges its line and, for the RTC, the slave's line too.             *)
THEOREM NothingInServiceHolds == Spec => []NothingInService
  <1>1. BootInv => NothingInService
    BY DEF BootInv, Served, NothingInService
  <1> QED
    BY <1>1, BootInvariant, PTL

-----------------------------------------------------------------------------
(* The modifier flags.  What counts is the flag once the bytes s that wait   *)
(* are handled, K being the bytes of the key: the last of them decides, or   *)
(* the flag f as it is when there is none.                                   *)
Final(s, f, K) ==
    \/ \E i \in 1 .. Len(s) : /\ s[i] \in K /\ s[i] < MASK_KEY_PRESS
                             /\ \A j \in 1 .. Len(s) : j > i => s[j] \notin K
    \/ (\A i \in 1 .. Len(s) : s[i] \notin K) /\ f

Byte == 0 .. 255

LEMMA FinalAppend ==
    ASSUME NEW K, NEW s \in Seq(Byte), NEW b \in Byte, NEW f
    PROVE  Final(Append(s, b), f, K) <=>
              (IF b \in K THEN b < MASK_KEY_PRESS ELSE Final(s, f, K))
  <1> DEFINE t == Append(s, b)
             n == Len(s)
  <1>1. /\ n \in Nat /\ Len(t) = n + 1 /\ t[n + 1] = b
        /\ \A i \in 1 .. n : t[i] = s[i]
    BY AppendProperties
  <1> HIDE DEF t
  <1>2. CASE b \in K
    <2>1. Final(t, f, K) <=> b < MASK_KEY_PRESS
      BY <1>1, <1>2 DEF Final
    <2> QED
      BY <1>2, <2>1 DEF t
  <1>3. CASE b \notin K
    <2>1. Final(t, f, K) => Final(s, f, K)
      BY <1>1, <1>3 DEF Final
    <2>2. Final(s, f, K) => Final(t, f, K)
      BY <1>1, <1>3 DEF Final
    <2> QED
      BY <1>3, <2>1, <2>2 DEF t
  <1> QED
    BY <1>2, <1>3

LEMMA FinalTail ==
    ASSUME NEW K, NEW s \in Seq(Byte), s # <<>>, NEW f, NEW g,
           g <=> (IF Head(s) \in K THEN Head(s) < MASK_KEY_PRESS ELSE f)
    PROVE  Final(Tail(s), g, K) <=> Final(s, f, K)
  <1> DEFINE t == Tail(s)
             n == Len(t)
  <1>1. /\ n \in Nat /\ Len(s) = n + 1 /\ s[1] = Head(s)
        /\ \A i \in 1 .. n : t[i] = s[i + 1]
    BY HeadTailProperties, LenProperties
  <1> HIDE DEF t
  <1>2. \A i \in 2 .. n + 1 : i - 1 \in 1 .. n /\ t[i - 1] = s[i]
    BY <1>1
  <1>3. Final(t, g, K) => Final(s, f, K)
    <2>1. ASSUME NEW i \in 1 .. n, t[i] \in K, t[i] < MASK_KEY_PRESS,
                 \A j \in 1 .. n : j > i => t[j] \notin K
          PROVE  Final(s, f, K)
      <3>1. \A j \in 1 .. n + 1 : j > i + 1 => s[j] \notin K
        BY <2>1, <1>1, <1>2
      <3>2. i + 1 \in 1 .. n + 1 /\ s[i + 1] \in K /\ s[i + 1] < MASK_KEY_PRESS
        BY <2>1, <1>1
      <3> QED
        BY <3>1, <3>2, <1>1 DEF Final
    <2>2. ASSUME \A i \in 1 .. n : t[i] \notin K, g
          PROVE  Final(s, f, K)
      <3>1. \A j \in 1 .. n + 1 : j > 1 => s[j] \notin K
        BY <2>2, <1>1, <1>2
      <3>2. 1 \in 1 .. n + 1
        BY <1>1
      <3>3. CASE s[1] \in K
        BY <2>2, <3>1, <3>2, <3>3, <1>1 DEF Final
      <3>4. CASE s[1] \notin K
        BY <2>2, <3>1, <3>4, <1>1 DEF Final
      <3> QED
        BY <3>3, <3>4
    <2> QED
      BY <2>1, <2>2 DEF Final
  <1>4. Final(s, f, K) => Final(t, g, K)
    <2>1. ASSUME NEW i \in 1 .. n + 1, s[i] \in K, s[i] < MASK_KEY_PRESS,
                 \A j \in 1 .. n + 1 : j > i => s[j] \notin K
          PROVE  Final(t, g, K)
      <3>1. CASE i = 1
        <4>1. \A j \in 1 .. n : t[j] \notin K
          BY <2>1, <3>1, <1>1
        <4> QED
          BY <2>1, <3>1, <4>1, <1>1 DEF Final
      <3>2. CASE i # 1
        <4>1. i - 1 \in 1 .. n /\ t[i - 1] \in K /\ t[i - 1] < MASK_KEY_PRESS
          BY <2>1, <3>2, <1>1, <1>2
        <4>2. \A j \in 1 .. n : j > i - 1 => t[j] \notin K
          BY <2>1, <1>1
        <4> QED
          BY <4>1, <4>2 DEF Final
      <3> QED
        BY <3>1, <3>2
    <2>2. ASSUME \A i \in 1 .. n + 1 : s[i] \notin K, f
          PROVE  Final(t, g, K)
      <3>1. \A j \in 1 .. n : t[j] \notin K
        BY <2>2, <1>1
      <3>2. 1 \in 1 .. n + 1
        BY <1>1
      <3> QED
        BY <2>2, <3>1, <3>2, <1>1 DEF Final
    <2> QED
      BY <2>1, <2>2, <1>1 DEF Final
  <1> QED
    BY <1>3, <1>4 DEF t

(* The bytes of a key of kybd_keys, and whether such a key is held. *)
BytesOf(m) == {b \in Byte : KeyCode(b % MASK_KEY_PRESS, beyond) = m}
HeldKey(m) == \E k \in held : KeyCode(k.code, beyond) = m

KeyType ==
    /\ outbuf \in Seq(Byte)
    /\ held \subseteq PhysKeys
    /\ flags \in [{FlagOf[k] : k \in Modifiers} -> BOOLEAN]
    /\ beyond \in Beyond
    /\ KYBD \in pic.irr => outbuf # <<>>

FlagInv ==
    /\ KeyType
    /\ \A m \in Modifiers : Final(outbuf, flags[FlagOf[m]], BytesOf(m)) => HeldKey(m)
    /\ \A m \in {"LSHIFT", "RSHIFT"} :
            HeldKey(m) => Final(outbuf, flags[FlagOf[m]], BytesOf(m))

(* Each modifier has a flag of its own. *)
LEMMA FlagOfInjective ==
    /\ Modifiers = {"LSHIFT", "RSHIFT", "LCTRL", "RCTRL", "LALT", "RALT"}
    /\ \A m, n \in Modifiers : FlagOf[m] = FlagOf[n] => m = n
  BY DEF Modifiers, FlagOf

(* Only the codes 42 and 54 are shift keys, and the byte 0xE0 is looked up   *)
(* behind the end of kybd_keys.                                              *)
LEMMA ShiftCodes ==
    ASSUME NEW bey, bey \notin {"LSHIFT", "RSHIFT"}, NEW c \in 0 .. 127
    PROVE  /\ KeyCode(c, bey) = "LSHIFT" <=> c = 42
           /\ KeyCode(c, bey) = "RSHIFT" <=> c = 54
           /\ c = 96 => KeyCode(c, bey) = bey
  <1>1. Len(kybd_keys) = 83
    BY DEF kybd_keys
  <1>2. CASE c < 83
    <2>1. c + 1 \in 1 .. 83
      BY <1>2
    <2>2. \A i \in 1 .. 83 : /\ kybd_keys[i] = "LSHIFT" <=> i = 43
                             /\ kybd_keys[i] = "RSHIFT" <=> i = 55
      BY DEF kybd_keys, Keypad
    <2> QED
      BY <1>1, <1>2, <2>1, <2>2 DEF KeyCode
  <1>3. CASE ~ (c < 83)
    BY <1>1, <1>3 DEF KeyCode
  <1> QED
    BY <1>2, <1>3

LEMMA ByteCodes ==
    ASSUME NEW c \in 0 .. 127
    PROVE  /\ c + 0 \in Byte /\ (c + 0) % MASK_KEY_PRESS = c /\ c + 0 < MASK_KEY_PRESS
           /\ c + MASK_KEY_PRESS \in Byte /\ (c + MASK_KEY_PRESS) % MASK_KEY_PRESS = c
           /\ ~ (c + MASK_KEY_PRESS < MASK_KEY_PRESS)
  BY DEF Byte, MASK_KEY_PRESS

(* What a key sends. *)
LEMMA BytesSent ==
    ASSUME NEW q \in Seq(Byte), NEW k \in [ext : BOOLEAN, code : 0 .. 127],
           NEW pressed \in BOOLEAN
    PROVE  \E b \in Byte :
             /\ b % MASK_KEY_PRESS = k.code
             /\ b < MASK_KEY_PRESS <=> pressed
             /\ Append(q, b) \in Seq(Byte) /\ Append(q, b) # <<>>
             /\ Append(q, 224) \in Seq(Byte)
             /\ Append(Append(q, 224), b) \in Seq(Byte) /\ Append(Append(q, 224), b) # <<>>
             /\ q \o Bytes(k, pressed) = IF k.ext THEN Append(Append(q, 224), b)
                                         ELSE Append(q, b)
  <1> DEFINE b == k.code + IF pressed THEN 0 ELSE MASK_KEY_PRESS
  <1>1. b \in Byte /\ b % MASK_KEY_PRESS = k.code /\ (b < MASK_KEY_PRESS <=> pressed)
    <2>1. k.code \in 0 .. 127
      OBVIOUS
    <2>2. CASE pressed
      <3>1. b = k.code + 0
        BY <2>2, Zenon
      <3> HIDE DEF b
      <3>2. b \in Byte /\ b % MASK_KEY_PRESS = k.code /\ b < MASK_KEY_PRESS
        BY <2>1, <3>1, ByteCodes
      <3> QED
        BY <2>2, <3>2, Zenon
    <2>3. CASE ~pressed
      <3>1. b = k.code + MASK_KEY_PRESS
        BY <2>3, Zenon
      <3> HIDE DEF b
      <3>2. b \in Byte /\ b % MASK_KEY_PRESS = k.code /\ ~ (b < MASK_KEY_PRESS)
        BY <2>1, <3>1, ByteCodes
      <3> QED
        BY <2>3, <3>2, Zenon
    <2> QED
      BY <2>2, <2>3
  <1>2. 224 \in Byte
    BY DEF Byte
  <1>3. Bytes(k, pressed) = (IF k.ext THEN <<224>> ELSE <<>>) \o <<b>>
    BY DEF Bytes
  <1> HIDE DEF b
  <1>4. Append(q, b) \in Seq(Byte) /\ Append(q, 224) \in Seq(Byte) /\ Append(q, b) # <<>>
    BY <1>1, <1>2, AppendProperties
  <1>5. Append(Append(q, 224), b) \in Seq(Byte) /\ Append(Append(q, 224), b) # <<>>
    BY <1>1, <1>4, AppendProperties
  <1>6. <<224>> \in Seq(Byte) /\ <<b>> \in Seq(Byte)
    BY <1>1, <1>2
  <1>7. q \o (<<>> \o <<b>>) = Append(q, b)
    BY <1>1, <1>6, AppendIsConcat, ConcatEmptySeq
  <1>8. q \o (<<224>> \o <<b>>) = Append(Append(q, 224), b)
    <2>1. Append(q, 224) = q \o <<224>>
      BY <1>2, AppendIsConcat
    <2>2. Append(Append(q, 224), b) = (q \o <<224>>) \o <<b>>
      BY <1>1, <1>4, <2>1, AppendIsConcat
    <2> QED
      BY <1>6, <2>2, ConcatAssociative
  <1> QED
    BY <1>1, <1>3, <1>4, <1>5, <1>7, <1>8

(* The flags after a byte. *)
LEMMA HandledFlags ==
    ASSUME NEW byte, NEW bey, NEW fl, NEW caps
    PROVE  Handled(byte, bey, fl, caps).flags =
             IF KeyCode(byte % MASK_KEY_PRESS, bey) \in Modifiers
             THEN SetFlag(fl, KeyCode(byte % MASK_KEY_PRESS, bey), byte < MASK_KEY_PRESS)
             ELSE fl
  BY DEF Handled

(* Only the keyboard and its handler change what the flags depend on. *)
LEMMA FlagFrame ==
    ASSUME FlagInv, UNCHANGED <<flags, held, outbuf, beyond>>,
           KYBD \in pic'.irr => KYBD \in pic.irr
    PROVE  FlagInv'
  BY DEF FlagInv, KeyType, BytesOf, HeldKey

(* A key that is pressed or released: its own byte decides for its modifier, *)
(* and the 0xE0 before it counts as a release of what lies behind kybd_keys. *)
LEMMA SendFinal ==
    ASSUME FlagInv, NEW k \in PhysKeys, NEW pressed \in BOOLEAN,
           Send(Bytes(k, pressed)), NEW m \in Modifiers
    PROVE  /\ outbuf' \in Seq(Byte) /\ outbuf' # <<>>
           /\ KeyCode(k.code, beyond) = m =>
                (Final(outbuf', flags[FlagOf[m]], BytesOf(m)) <=> pressed)
           /\ KeyCode(k.code, beyond) # m =>
                \/ Final(outbuf', flags[FlagOf[m]], BytesOf(m))
                     <=> Final(outbuf, flags[FlagOf[m]], BytesOf(m))
                \/ beyond = m /\ ~Final(outbuf', flags[FlagOf[m]], BytesOf(m))
  <1>1. k \in [ext : BOOLEAN, code : 0 .. 127] /\ outbuf \in Seq(Byte)
    BY BootAssumption DEF FlagInv, KeyType
  <1>2. outbuf' = outbuf \o Bytes(k, pressed)
    BY DEF Send
  <1>3. PICK b \in Byte :
             /\ b % MASK_KEY_PRESS = k.code
             /\ b < MASK_KEY_PRESS <=> pressed
             /\ Append(outbuf, b) \in Seq(Byte) /\ Append(outbuf, b) # <<>>
             /\ Append(outbuf, 224) \in Seq(Byte)
             /\ Append(Append(outbuf, 224), b) \in Seq(Byte)
             /\ Append(Append(outbuf, 224), b) # <<>>
             /\ outbuf \o Bytes(k, pressed) = IF k.ext THEN Append(Append(outbuf, 224), b)
                                              ELSE Append(outbuf, b)
    BY <1>1, BytesSent
  <1> DEFINE K == BytesOf(m)
             f == flags[FlagOf[m]]
  <1>4. b \in K <=> KeyCode(k.code, beyond) = m
    BY <1>3 DEF BytesOf
  <1>5. 224 \in Byte /\ ~ (224 < MASK_KEY_PRESS) /\ (224 \in K => beyond = m)
    <2>1. 224 \in Byte /\ 224 % MASK_KEY_PRESS = 96 /\ ~ (224 < MASK_KEY_PRESS)
      BY DEF Byte, MASK_KEY_PRESS
    <2>2. KeyCode(96, beyond) = beyond
      BY ShiftCodes, BootAssumption DEF FlagInv, KeyType
    <2> QED
      BY <2>1, <2>2 DEF BytesOf
  <1> HIDE DEF K, f
  <1>6. Final(Append(outbuf, b), f, K) <=>
            (IF b \in K THEN b < MASK_KEY_PRESS ELSE Final(outbuf, f, K))
    BY <1>1, FinalAppend
  <1>7. Final(Append(outbuf, 224), f, K) <=>
            (IF 224 \in K THEN 224 < MASK_KEY_PRESS ELSE Final(outbuf, f, K))
    BY <1>1, <1>5, FinalAppend
  <1>8. Final(Append(Append(outbuf, 224), b), f, K) <=>
            (IF b \in K THEN b < MASK_KEY_PRESS ELSE Final(Append(outbuf, 224), f, K))
    <2> DEFINE q == Append(outbuf, 224)
    <2>1. q \in Seq(Byte)
      BY <1>3
    <2> HIDE DEF q
    <2>2. Final(Append(q, b), f, K) <=>
            (IF b \in K THEN b < MASK_KEY_PRESS ELSE Final(q, f, K))
      BY <2>1, FinalAppend
    <2> QED
      BY <2>2 DEF q
  <1>9. /\ b \in K => (Final(outbuf', f, K) <=> pressed)
        /\ b \notin K => \/ Final(outbuf', f, K) <=> Final(outbuf, f, K)
                         \/ beyond = m /\ ~Final(outbuf', f, K)
    <2>1. CASE k.ext
      <3>1. outbuf' = Append(Append(outbuf, 224), b)
        BY <1>2, <1>3, <2>1
      <3> QED
        BY <3>1, <1>3, <1>5, <1>7, <1>8, Zenon
    <2>2. CASE ~k.ext
      <3>1. outbuf' = Append(outbuf, b)
        BY <1>2, <1>3, <2>2
      <3> QED
        BY <3>1, <1>3, <1>6, Zenon
    <2> QED
      BY <2>1, <2>2
  <1> QED
    BY <1>2, <1>3, <1>4, <1>9 DEF K, f

LEMMA PressStep ==
    ASSUME \A k \in PhysKeys : k.code \in {42, 54} => ~k.ext,
           FlagInv, NEW k \in PhysKeys, Press(k)
    PROVE  FlagInv'
  <1>1. held' = held \cup {k} /\ Send(Bytes(k, TRUE)) /\ TRUE \in BOOLEAN
    BY DEF Press
  <1>2. UNCHANGED <<flags, beyond>>
    BY <1>1 DEF Send
  <1>3. \A m \in Modifiers :
           /\ outbuf' \in Seq(Byte) /\ outbuf' # <<>>
           /\ KeyCode(k.code, beyond) = m =>
                (Final(outbuf', flags[FlagOf[m]], BytesOf(m)) <=> TRUE)
           /\ KeyCode(k.code, beyond) # m =>
                \/ Final(outbuf', flags[FlagOf[m]], BytesOf(m))
                     <=> Final(outbuf, flags[FlagOf[m]], BytesOf(m))
                \/ beyond = m /\ ~Final(outbuf', flags[FlagOf[m]], BytesOf(m))
    BY <1>1, SendFinal
  <1>4. "LSHIFT" \in Modifiers /\ "RSHIFT" \in Modifiers
    BY FlagOfInjective
  <1>5. KeyType'
    BY <1>1, <1>2, <1>3, <1>4 DEF FlagInv, KeyType
  <1>6. ASSUME NEW m \in Modifiers, Final(outbuf', flags[FlagOf[m]], BytesOf(m))
        PROVE  HeldKey(m)'
    BY <1>1, <1>2, <1>3, <1>6 DEF FlagInv, HeldKey
  <1>7. ASSUME NEW m \in {"LSHIFT", "RSHIFT"}, HeldKey(m)'
        PROVE  Final(outbuf', flags[FlagOf[m]], BytesOf(m))
    <2>1. beyond # m
      BY BootAssumption DEF FlagInv, KeyType
    <2> QED
      BY <1>1, <1>2, <1>3, <1>4, <1>7, <2>1 DEF FlagInv, HeldKey
  <1> QED
    BY <1>2, <1>5, <1>6, <1>7 DEF FlagInv, BytesOf

LEMMA ReleaseStep ==
    ASSUME \A k \in PhysKeys : k.code \in {42, 54} => ~k.ext,
           FlagInv, NEW k \in PhysKeys, Release(k)
    PROVE  FlagInv'
  <1>1. held' = held \ {k} /\ Send(Bytes(k, FALSE)) /\ FALSE \in BOOLEAN
    BY DEF Release
  <1>2. UNCHANGED <<flags, beyond>>
    BY <1>1 DEF Send
  <1>3. \A m \in Modifiers :
           /\ outbuf' \in Seq(Byte) /\ outbuf' # <<>>
           /\ KeyCode(k.code, beyond) = m =>
                (Final(outbuf', flags[FlagOf[m]], BytesOf(m)) <=> FALSE)
           /\ KeyCode(k.code, beyond) # m =>
                \/ Final(outbuf', flags[FlagOf[m]], BytesOf(m))
                     <=> Final(outbuf, flags[FlagOf[m]], BytesOf(m))
                \/ beyond = m /\ ~Final(outbuf', flags[FlagOf[m]], BytesOf(m))
    BY <1>1, SendFinal
  <1>4. "LSHIFT" \in Modifiers /\ "RSHIFT" \in Modifiers
    BY FlagOfInjective
  <1>5. KeyType'
    BY <1>1, <1>2, <1>3, <1>4 DEF FlagInv, KeyType
  <1>6. ASSUME NEW m \in Modifiers, Final(outbuf', flags[FlagOf[m]], BytesOf(m))
        PROVE  HeldKey(m)'
    <2>1. KeyCode(k.code, beyond) # m /\ Final(outbuf, flags[FlagOf[m]], BytesOf(m))
      BY <1>3, <1>6
    <2>2. PICK j \in held : KeyCode(j.code, beyond) = m
      BY <2>1 DEF FlagInv, HeldKey
    <2> QED
      BY <1>1, <1>2, <2>1, <2>2 DEF HeldKey
  <1>7. ASSUME NEW m \in {"LSHIFT", "RSHIFT"}, HeldKey(m)'
        PROVE  Final(outbuf', flags[FlagOf[m]], BytesOf(m))
    <2>1. beyond # m /\ beyond \notin {"LSHIFT", "RSHIFT"}
      BY BootAssumption DEF FlagInv, KeyType
    <2>2. PICK j \in held \ {k} : KeyCode(j.code, beyond) = m
      BY <1>1, <1>2, <1>7 DEF HeldKey
    <2>3. j \in PhysKeys /\ j.code \in 0 .. 127 /\ k.code \in 0 .. 127
      BY BootAssumption DEF FlagInv, KeyType
    <2>4. KeyCode(k.code, beyond) # m
      <3> SUFFICES ASSUME KeyCode(k.code, beyond) = m PROVE FALSE
        OBVIOUS
      <3>1. j.code = k.code /\ j.code \in {42, 54}
        BY <2>1, <2>2, <2>3, ShiftCodes
      <3>2. j = k
        BY <2>3, <3>1, BootAssumption
      <3> QED
        BY <2>2, <3>2
    <2>5. HeldKey(m)
      BY <2>2 DEF HeldKey
    <2> QED
      BY <1>3, <1>4, <2>1, <2>4, <2>5 DEF FlagInv
  <1> QED
    BY <1>2, <1>5, <1>6, <1>7 DEF FlagInv, BytesOf

(* The handler takes the first byte and does to the flags what Final says. *)
LEMMA KeyboardIrqFlags ==
    ASSUME BootInv, FlagInv, KeyboardIrq
    PROVE  FlagInv'
  <1> DEFINE byte == Head(outbuf)
             key == KeyCode(byte % MASK_KEY_PRESS, beyond)
             pressed == byte < MASK_KEY_PRESS
  <1>1. /\ KYBD \in pic.irr /\ outbuf' = Tail(outbuf) /\ UNCHANGED <<held, beyond>>
        /\ flags' = Handled(byte, beyond, flags, caps_lock).flags
    BY DEF KeyboardIrq, Vectored, Interrupted, Offered, Passes
  <1>2. outbuf # <<>> /\ outbuf \in Seq(Byte) /\ byte \in Byte /\ Tail(outbuf) \in Seq(Byte)
    BY <1>1, HeadTailProperties DEF FlagInv, KeyType
  <1>3. flags' = IF key \in Modifiers THEN [flags EXCEPT ![FlagOf[key]] = pressed] ELSE flags
    <2>1. flags' = IF key \in Modifiers THEN SetFlag(flags, key, pressed) ELSE flags
      <3>1. Handled(byte, beyond, flags, caps_lock).flags =
              IF key \in Modifiers THEN SetFlag(flags, key, pressed) ELSE flags
        BY HandledFlags
      <3> QED
        BY <1>1, <3>1
    <2> QED
      BY <2>1, Zenon DEF SetFlag
  <1>4. pressed \in BOOLEAN /\ \A m \in Modifiers : byte \in BytesOf(m) <=> key = m
    BY <1>2 DEF BytesOf
  <1>5. KYBD \in pic'.irr => outbuf' # <<>>
    <2>1. send_eoi(Accepted(KYBD), KYBD).irr = pic.irr \ {KYBD}
          /\ send_eoi(Accepted(KYBD), KYBD)
                \in [masked : SUBSET Irqs, irr : SUBSET Irqs, isr : SUBSET Irqs]
      BY Acknowledged
    <2> QED
      BY <2>1 DEF KeyboardIrq
  <1> HIDE DEF byte, key, pressed
  <1>6. KeyType'
    <2>1. flags' \in [{FlagOf[k] : k \in Modifiers} -> BOOLEAN]
      BY <1>3, <1>4 DEF FlagInv, KeyType
    <2> QED
      BY <1>1, <1>2, <1>5, <2>1 DEF FlagInv, KeyType
  <1>7. \A m \in Modifiers :
            flags'[FlagOf[m]] <=> (IF byte \in BytesOf(m) THEN pressed ELSE flags[FlagOf[m]])
    <2> TAKE m \in Modifiers
    <2>1. flags \in [{FlagOf[k] : k \in Modifiers} -> BOOLEAN]
      BY DEF FlagInv, KeyType
    <2>2. CASE key = m
      BY <2>1, <2>2, <1>3, <1>4
    <2>3. CASE key # m
      BY <2>1, <2>3, <1>3, <1>4, FlagOfInjective
    <2> QED
      BY <2>2, <2>3
  <1>8. \A m \in Modifiers : Final(outbuf', flags'[FlagOf[m]], BytesOf(m))
                              <=> Final(outbuf, flags[FlagOf[m]], BytesOf(m))
    <2> TAKE m \in Modifiers
    <2>1. flags'[FlagOf[m]] <=>
            (IF Head(outbuf) \in BytesOf(m) THEN Head(outbuf) < MASK_KEY_PRESS
             ELSE flags[FlagOf[m]])
      BY <1>7 DEF byte, pressed
    <2> QED
      BY <1>1, <1>2, <2>1, FinalTail
  <1>9. "LSHIFT" \in Modifiers /\ "RSHIFT" \in Modifiers
    BY FlagOfInjective
  <1> QED
    BY <1>1, <1>6, <1>8, <1>9 DEF FlagInv, BytesOf, HeldKey

LEMMA FlagStep ==
    ASSUME \A k \in PhysKeys : k.code \in {42, 54} => ~k.ext
    PROVE  BootInv /\ FlagInv /\ [Next]_vars => FlagInv'
  <1> SUFFICES ASSUME BootInv, FlagInv, [Next]_vars PROVE FlagInv'
    OBVIOUS
  <1>a. pic \in [masked : SUBSET Irqs, irr : SUBSET Irqs, isr : SUBSET Irqs]
        /\ KYBD # PIT /\ KYBD # RTC
    BY DEF BootInv, BootType, KYBD, PIT, RTC
  <1>1. CASE BootStep
    BY <1>1, <1>a, FlagFrame DEF BootStep, Multiboot, Descriptors, InitPic, IsrsInstall,
       KybdInit, RtcInit, PitInit, PitEnable, Lidt, Sti, StartShell, keyVars, i8259_init,
       enable_irq
  <1>2. ASSUME NEW k \in PhysKeys, Press(k) \/ Release(k) PROVE FlagInv'
    BY <1>2, PressStep, ReleaseStep
  <1>3. ASSUME NEW n \in {PIT, RTC}, Request(n) PROVE FlagInv'
    BY <1>3, <1>a, FlagFrame DEF Request, keyVars
  <1>4. CASE KeyboardIrq
    BY <1>4, KeyboardIrqFlags
  <1>5. ASSUME NEW n \in Irqs, OtherIrq(n) PROVE FlagInv'
    <2>1. n \in {PIT, KYBD, RTC} /\ pic' = send_eoi(Accepted(n), n)
      BY <1>5, TakenHandled DEF OtherIrq
    <2>2. pic'.irr = pic.irr \ {n}
      BY <2>1, Acknowledged
    <2> QED
      BY <1>5, <2>2, FlagFrame DEF OtherIrq, keyVars
  <1>6. CASE TripleFault \/ ReadCall \/ ReadEnds
    BY <1>6, FlagFrame DEF TripleFault, ReadCall, ReadEnds, keyVars
  <1>7. CASE RtcOpen \/ RtcClose
    BY <1>7, <1>a, FlagFrame DEF RtcOpen, RtcClose, keyVars, enable_irq, disable_irq
  <1>8. CASE UNCHANGED vars
    BY <1>8, FlagFrame DEF vars, keyVars
  <1> QED
    BY <1>1, <1>2, <1>3, <1>4, <1>5, <1>6, <1>7, <1>8 DEF Next

LEMMA FlagInit == Init => FlagInv
  <1> SUFFICES ASSUME Init PROVE FlagInv
    OBVIOUS
  <1>1. flags \in [{FlagOf[k] : k \in Modifiers} -> BOOLEAN]
        /\ \A m \in Modifiers : ~flags[FlagOf[m]]
    BY DEF Init, NoFlags
  <1>2. KeyType
    BY <1>1 DEF Init, KeyType
  <1>3. \A m \in Modifiers : ~Final(outbuf, flags[FlagOf[m]], BytesOf(m))
    BY <1>1 DEF Init, Final
  <1>4. \A m : ~HeldKey(m)
    BY DEF Init, HeldKey
  <1> QED
    BY <1>2, <1>3, <1>4 DEF FlagInv

LEMMA ShiftHeld ==
    ASSUME FlagInv
    PROVE  \A k \in held : /\ KeyCode(k.code, beyond) = "LSHIFT" <=> k.code = 42
                           /\ KeyCode(k.code, beyond) = "RSHIFT" <=> k.code = 54
  <1>1. beyond \notin {"LSHIFT", "RSHIFT"} /\ \A k \in held : k.code \in 0 .. 127
    BY BootAssumption DEF FlagInv, KeyType
  <1>2. ASSUME NEW c \in 0 .. 127
        PROVE  /\ KeyCode(c, beyond) = "LSHIFT" <=> c = 42
               /\ KeyCode(c, beyond) = "RSHIFT" <=> c = 54
    BY <1>1, ShiftCodes
  <1> QED
    BY <1>1, <1>2

(* No modifier sticks, on any keyboard whose shift keys have no 0xE0 prefix, *)
(* however many keys are held and bytes wait: keyboard_handler_main handles  *)
(* the bytes in order, and the last one of a modifier is its release unless  *)
(* a key of that kind is held.                                               *)
THEOREM FlagsFollowKeysHolds ==
    ASSUME \A k \in PhysKeys : k.code \in {42, 54} => ~k.ext
    PROVE  Spec => []FlagsFollowKeys
  <1>1. FlagInv => FlagsFollowKeys
    <2> SUFFICES ASSUME FlagInv, outbuf = <<>>
                 PROVE  /\ \A m \in Modifiers : flags[FlagOf[m]] =>
                              \E k \in held : KeyCode(k.code, beyond) = m
                        /\ flags.l_shift_key <=> \E k \in held : k.code = 42
                        /\ flags.r_shift_key <=> \E k \in held : k.code = 54
      BY DEF FlagsFollowKeys
    <2>1. \A m \in Modifiers :
              Final(outbuf, flags[FlagOf[m]], BytesOf(m)) <=> flags[FlagOf[m]]
      BY DEF Final
    <2>2. \A m \in Modifiers : flags[FlagOf[m]] => HeldKey(m)
      BY <2>1 DEF FlagInv
    <2>3. "LSHIFT" \in Modifiers /\ "RSHIFT" \in Modifiers
      BY FlagOfInjective
    <2>4. \A m \in {"LSHIFT", "RSHIFT"} : flags[FlagOf[m]] <=> HeldKey(m)
      BY <2>1, <2>2, <2>3 DEF FlagInv
    <2>5. \A k \in held : /\ KeyCode(k.code, beyond) = "LSHIFT" <=> k.code = 42
                          /\ KeyCode(k.code, beyond) = "RSHIFT" <=> k.code = 54
      BY ShiftHeld
    <2>6. FlagOf["LSHIFT"] = "l_shift_key" /\ FlagOf["RSHIFT"] = "r_shift_key"
      BY DEF FlagOf
    <2> QED
      BY <2>2, <2>4, <2>5, <2>6 DEF HeldKey
  <1> QED
    BY <1>1, FlagInit, FlagStep, BootInvariant, PTL DEF Spec
=============================================================================
