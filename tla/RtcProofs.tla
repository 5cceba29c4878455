----------------------------- MODULE RtcProofs -----------------------------
(***************************************************************************)
(* Proofs about module Rtc, for any number of processes, descriptors and   *)
(* rates, when the driver calls of different processes do not overlap.     *)
(* Reads may wait through the calls of others.                             *)
(***************************************************************************)
EXTENDS Rtc, FiniteSetTheorems, WellFoundedInduction, TLAPS

PowersOfTwo == {1, 2, 4, 8, 16, 32, 64, 128, 256, 512, 1024}
Accepted    == PowersOfTwo \cup {IntMin}

OpenLabels  == {"turn_on", "unmask", "count_up", "store_up"}
CloseLabels == {"count_down", "store_down", "test", "mask", "turn_off", "trim",
                "close_update", "release"}
WriteLabels == {"divide", "compare", "raise", "set_rate", "write_update"}
Labels == {"user", "spin"} \cup OpenLabels \cup CloseLabels \cup WriteLabels

RtcType ==
    /\ files \in SUBSET (Procs \X Fds)
    /\ open \in Int
    /\ rtc_rate \in PowersOfTwo \cup {0}
    /\ rate \in [Procs -> Accepted]
    /\ max_count \in [Procs -> Int]
    /\ reg_b \in BOOLEAN /\ irq \in BOOLEAN
    /\ pc \in [Procs -> Labels]
    /\ arg \in [Procs -> Fds \cup {0}]
    /\ reg \in [Procs -> Int]

(* One call at a time. *)
Serial == \A p, q \in Procs : InCall(p) /\ InCall(q) => p = q

(* The calls between open++ or open-- and the change of the descriptor      *)
(* table that belongs to it.                                                *)
Uncounted == OpenLabels \cup (CloseLabels \ {"count_down", "store_down"})

(* open is the number of descriptors, the one of such a call apart. *)
Counted ==
    /\ (\E p \in Procs : pc[p] \in Uncounted) => open = Cardinality(files) - 1
    /\ (\A p \in Procs : pc[p] \notin Uncounted) => open = Cardinality(files)
    /\ \A p \in Procs :
        /\ pc[p] \in {"store_up", "store_down"} => reg[p] = open
        /\ pc[p] \in OpenLabels \cup WriteLabels => Holds(p)
        /\ pc[p] \in CloseLabels => <<p, arg[p]>> \in files

(* Where the calls are that turn the clock on for the first descriptor and  *)
(* off with the last; outside of them it is on exactly while there is one.  *)
Switched ==
    /\ (\A p \in Procs : pc[p] \notin {"turn_on", "unmask", "turn_off", "release"}) =>
            (files # {} <=> reg_b /\ irq)
    /\ \A p \in Procs :
        /\ pc[p] \in {"turn_on", "unmask", "mask", "turn_off"} => open = 0
        /\ pc[p] = "unmask" => reg_b
        /\ pc[p] = "turn_off" => ~irq
        /\ pc[p] \in {"trim", "close_update"} => open # 0
        /\ pc[p] = "release" => (open # 0 <=> reg_b /\ irq)

(* Only processes with a descriptor have asked for a rate, and a running    *)
(* clock has one that it was set to.                                        *)
Asked ==
    /\ reg_b => rtc_rate \in PowersOfTwo \ {1}
    /\ \A p \in Procs :
        /\ rate[p] # RateMin => Holds(p)
        /\ pc[p] \in CloseLabels => rate[p] = RateMin
        /\ pc[p] = "turn_on" => \A q \in Procs : rate[q] = RateMin

Divided(p) ==
    /\ rate[p] # RateMin => rate[p] <= rtc_rate
    /\ rate[p] = IntMin => max_count[p] = 0
    /\ rate[p] \notin {RateMin, IntMin} => max_count[p] * rate[p] = rtc_rate

(* The divisors between the assignments of rtc_write and rtc_close. *)
Updating == {"set_rate", "write_update", "close_update"}
Divisible ==
    /\ (\A p \in Procs : pc[p] \notin Updating) =>
            \A q \in Procs : pc[q] \in {"divide", "compare", "raise"} \/ Divided(q)
    /\ \A p \in Procs :
        /\ pc[p] \in Updating => \A q \in Procs : rate[q] <= rtc_rate
        /\ pc[p] = "compare" => max_count[p] = Divisor(rtc_rate, rate[p])
        /\ pc[p] = "raise" => rate[p] > rtc_rate
        /\ pc[p] \in {"set_rate", "write_update"} => rate[p] = rtc_rate

(* The hardware is only behind between the two assignments of rtc_write. *)
Fast ==
    reg_b => /\ reg_a \in 1 .. 15
             /\ (\A p \in Procs : pc[p] # "set_rate") => Frequency(reg_a) >= rtc_rate

RtcInv == RtcType /\ Serial /\ Counted /\ Switched /\ Asked /\ Divisible /\ Fast

-----------------------------------------------------------------------------
(* Arithmetic of the rates. *)

(* The bit test of rtc_write lets powers of two through, and IntMin. *)
LEMMA ValidRatePower ==
    ASSUME NEW r, ValidRate(r)
    PROVE  r \in Accepted
  <1>1. CASE r = IntMin
    BY <1>1 DEF Accepted
  <1>2. ASSUME NEW k \in 0 .. 10, r = 2^k PROVE r \in PowersOfTwo
    <2>1. \/ k = 0 \/ k = 1 \/ k = 2 \/ k = 3 \/ k = 4 \/ k = 5
          \/ k = 6 \/ k = 7 \/ k = 8 \/ k = 9 \/ k = 10
      OBVIOUS
    <2>2. \/ r = 2^0 \/ r = 2^1 \/ r = 2^2 \/ r = 2^3 \/ r = 2^4 \/ r = 2^5
          \/ r = 2^6 \/ r = 2^7 \/ r = 2^8 \/ r = 2^9 \/ r = 2^10
      BY <1>2, <2>1, Zenon
    <2> QED
      BY <2>2 DEF PowersOfTwo
  <1> QED
    BY <1>1, <1>2, Zenon DEF ValidRate, Accepted

(* A power of two divides every larger one without a remainder. *)
LEMMA PowersDivide ==
    ASSUME NEW r \in PowersOfTwo, NEW R \in PowersOfTwo, r <= R
    PROVE  (R \div r) * r = R
  <1>1. CASE r \in {1, 2, 4, 8}
    BY <1>1 DEF PowersOfTwo
  <1>2. CASE r \in {16, 32, 64, 128}
    BY <1>2 DEF PowersOfTwo
  <1>3. CASE r \in {256, 512, 1024}
    BY <1>3 DEF PowersOfTwo
  <1> QED
    BY <1>1, <1>2, <1>3 DEF PowersOfTwo

(* The powers of two on either side of a rate select value. *)
RateRow(n, x, y) ==
    \/ /\ n = 1 /\ x = 1 /\ y = 2
    \/ /\ n = 2 /\ x = 2 /\ y = 4
    \/ /\ n = 3 /\ x = 4 /\ y = 8
    \/ /\ n = 4 /\ x = 8 /\ y = 16
    \/ /\ n = 5 /\ x = 16 /\ y = 32
    \/ /\ n = 6 /\ x = 32 /\ y = 64
    \/ /\ n = 7 /\ x = 64 /\ y = 128
    \/ /\ n = 8 /\ x = 128 /\ y = 256
    \/ /\ n = 9 /\ x = 256 /\ y = 512
    \/ /\ n = 10 /\ x = 512 /\ y = 1024
    \/ /\ n = 11 /\ x = 1024 /\ y = 2048
    \/ /\ n = 12 /\ x = 2048 /\ y = 4096
    \/ /\ n = 13 /\ x = 4096 /\ y = 8192
    \/ /\ n = 14 /\ x = 8192 /\ y = 16384
    \/ /\ n = 15 /\ x = 16384 /\ y = 32768

LEMMA PowersTable ==
    ASSUME NEW rs \in 1 .. 15
    PROVE  RateRow(rs, 2^(rs - 1), 2^rs)
  <1>1. CASE rs = 1
    <2>1. rs - 1 = 0
      BY <1>1
    <2>2. 2^(rs - 1) = 2^0 /\ 2^rs = 2^1
      BY <1>1, <2>1, Zenon
    <2> QED
      BY <1>1, <2>2 DEF RateRow
  <1>2. CASE rs = 2
    <2>1. rs - 1 = 1
      BY <1>2
    <2>2. 2^(rs - 1) = 2^1 /\ 2^rs = 2^2
      BY <1>2, <2>1, Zenon
    <2> QED
      BY <1>2, <2>2 DEF RateRow
  <1>3. CASE rs = 3
    <2>1. rs - 1 = 2
      BY <1>3
    <2>2. 2^(rs - 1) = 2^2 /\ 2^rs = 2^3
      BY <1>3, <2>1, Zenon
    <2> QED
      BY <1>3, <2>2 DEF RateRow
  <1>4. CASE rs = 4
    <2>1. rs - 1 = 3
      BY <1>4
    <2>2. 2^(rs - 1) = 2^3 /\ 2^rs = 2^4
      BY <1>4, <2>1, Zenon
    <2> QED
      BY <1>4, <2>2 DEF RateRow
  <1>5. CASE rs = 5
    <2>1. rs - 1 = 4
      BY <1>5
    <2>2. 2^(rs - 1) = 2^4 /\ 2^rs = 2^5
      BY <1>5, <2>1, Zenon
    <2> QED
      BY <1>5, <2>2 DEF RateRow
  <1>6. CASE rs = 6
    <2>1. rs - 1 = 5
      BY <1>6
    <2>2. 2^(rs - 1) = 2^5 /\ 2^rs = 2^6
      BY <1>6, <2>1, Zenon
    <2> QED
      BY <1>6, <2>2 DEF RateRow
  <1>7. CASE rs = 7
    <2>1. rs - 1 = 6
      BY <1>7
    <2>2. 2^(rs - 1) = 2^6 /\ 2^rs = 2^7
      BY <1>7, <2>1, Zenon
    <2> QED
      BY <1>7, <2>2 DEF RateRow
  <1>8. CASE rs = 8
    <2>1. rs - 1 = 7
      BY <1>8
    <2>2. 2^(rs - 1) = 2^7 /\ 2^rs = 2^8
      BY <1>8, <2>1, Zenon
    <2> QED
      BY <1>8, <2>2 DEF RateRow
  <1>9. CASE rs = 9
    <2>1. rs - 1 = 8
      BY <1>9
    <2>2. 2^(rs - 1) = 2^8 /\ 2^rs = 2^9
      BY <1>9, <2>1, Zenon
    <2> QED
      BY <1>9, <2>2 DEF RateRow
  <1>10. CASE rs = 10
    <2>1. rs - 1 = 9
      BY <1>10
    <2>2. 2^(rs - 1) = 2^9 /\ 2^rs = 2^10
      BY <1>10, <2>1, Zenon
    <2> QED
      BY <1>10, <2>2 DEF RateRow
  <1>11. CASE rs = 11
    <2>1. rs - 1 = 10
      BY <1>11
    <2>2. 2^(rs - 1) = 2^10 /\ 2^rs = 2^11
      BY <1>11, <2>1, Zenon
    <2> QED
      BY <1>11, <2>2 DEF RateRow
  <1>12. CASE rs = 12
    <2>1. rs - 1 = 11
      BY <1>12
    <2>2. 2^(rs - 1) = 2^11 /\ 2^rs = 2^12
      BY <1>12, <2>1, Zenon
    <2> QED
      BY <1>12, <2>2 DEF RateRow
  <1>13. CASE rs = 13
    <2>1. rs - 1 = 12
      BY <1>13
    <2>2. 2^(rs - 1) = 2^12 /\ 2^rs = 2^13
      BY <1>13, <2>1, Zenon
    <2> QED
      BY <1>13, <2>2 DEF RateRow
  <1>14. CASE rs = 14
    <2>1. rs - 1 = 13
      BY <1>14
    <2>2. 2^(rs - 1) = 2^13 /\ 2^rs = 2^14
      BY <1>14, <2>1, Zenon
    <2> QED
      BY <1>14, <2>2 DEF RateRow
  <1>15. CASE rs = 15
    <2>1. rs - 1 = 14
      BY <1>15
    <2>2. 2^(rs - 1) = 2^14 /\ 2^rs = 2^15
      BY <1>15, <2>1, Zenon
    <2> QED
      BY <1>15, <2>2 DEF RateRow
  <1> QED
    BY <1>1, <1>2, <1>3, <1>4, <1>5, <1>6, <1>7, <1>8, <1>9, <1>10, <1>11, <1>12,
       <1>13, <1>14, <1>15

(* The clock set_rate programs runs at the rate asked for, 1 Hz apart. *)
LEMMA SetRateExact ==
    ASSUME NEW r \in PowersOfTwo \ {1}
    PROVE  set_rate(r) \in 1 .. 15 /\ Frequency(set_rate(r)) = r
  <1> DEFINE P(rs) == 2^(rs - 1) <= RtcAbsMax \div r /\ RtcAbsMax \div r < 2^rs
  <1>1. \E k \in 1 .. 15 : P(k)
    <2> SUFFICES \E k \in 1 .. 15 : \A x, y :
                   RateRow(k, x, y) => x <= RtcAbsMax \div r /\ RtcAbsMax \div r < y
      BY PowersTable
    <2> QED
      BY DEF RateRow, RtcAbsMax, PowersOfTwo
  <1>2. set_rate(r) \in 1 .. 15 /\ P(set_rate(r))
    BY <1>1, Zenon DEF set_rate
  <1>3. ASSUME NEW rs \in 1 .. 15, P(rs)
        PROVE  RtcAbsMax \div 2^(rs - 1) = r
    <2>1. ASSUME NEW x, NEW y, RateRow(rs, x, y), x <= RtcAbsMax \div r, RtcAbsMax \div r < y
          PROVE RtcAbsMax \div x = r
      BY <2>1 DEF RateRow, RtcAbsMax, PowersOfTwo
    <2> QED
      BY <1>3, <2>1, PowersTable
  <1> QED
    BY <1>2, <1>3 DEF Frequency

(* A set of natural numbers has a least element. *)
LEMMA NatMin ==
    ASSUME NEW T \in SUBSET Nat, T # {}
    PROVE  \E x \in T : \A y \in T : x <= y
  <1> DEFINE R == OpToRel(<, Nat)
  <1>1. IsWellFoundedOn(R, Nat)
    BY NatLessThanWellFounded
  <1>2. \A x, y \in Nat : <<y, x>> \in R <=> y < x
    BY DEF OpToRel
  <1> HIDE DEF R
  <1>3. PICK x \in T : \A y \in T : ~(<<y, x>> \in R)
    BY <1>1, WFMin
  <1>4. ASSUME NEW y \in T PROVE x <= y
    <2>1. ~(<<y, x>> \in R)
      BY <1>3
    <2>2. ~(y < x)
      BY <2>1, <1>2, Zenon
    <2> QED
      BY <2>2
  <1> QED
    BY <1>4

(* What rtc_open programs. *)
LEMMA SlowestRate == Frequency(15) = 2
  <1>1. 15 - 1 = 14
    OBVIOUS
  <1>2. 2^(15 - 1) = 2^14
    BY <1>1, Zenon
  <1> QED
    BY <1>2 DEF Frequency, RtcAbsMax

(* What update_rtc_processes and rtc_write compute. *)
LEMMA DivisorType ==
    ASSUME RtcType, NEW p \in Procs
    PROVE  Divisor(rtc_rate, rate[p]) \in Int
  <1>1. rate[p] \in Accepted /\ rtc_rate \in PowersOfTwo \cup {0}
    BY DEF RtcType
  <1> QED
    BY <1>1 DEF Divisor, Accepted, PowersOfTwo

LEMMA DivisorDivides ==
    ASSUME RtcType, NEW p \in Procs, rate[p] <= rtc_rate
    PROVE  /\ rate[p] = IntMin => Divisor(rtc_rate, rate[p]) = 0
           /\ rate[p] \notin {RateMin, IntMin} => Divisor(rtc_rate, rate[p]) * rate[p] = rtc_rate
  <1>1. rate[p] \in Accepted /\ rtc_rate \in PowersOfTwo \cup {0}
    BY DEF RtcType
  <1>2. CASE rate[p] = IntMin
    BY <1>2 DEF Divisor
  <1>3. CASE rate[p] # IntMin
    <2>1. rate[p] \in PowersOfTwo /\ rtc_rate \in PowersOfTwo
      BY <1>1, <1>3 DEF Accepted, PowersOfTwo
    <2> QED
      BY <1>3, <2>1, PowersDivide DEF Divisor
  <1> QED
    BY <1>2, <1>3

LEMMA FrequencyType ==
    ASSUME NEW rs \in 1 .. 15
    PROVE  Frequency(rs) \in Int
  <1>1. \A x, y : RateRow(rs, x, y) => RtcAbsMax \div x \in Int
    BY DEF RateRow, RtcAbsMax
  <1> QED
    BY <1>1, PowersTable DEF Frequency

(* The largest of some rates. *)
LEMMA MaxRate ==
    ASSUME NEW S \in SUBSET Accepted, S # {}
    PROVE  Max(S) \in S /\ \A x \in S : x <= Max(S)
  <1> DEFINE T == {1024 - x : x \in S}
  <1>1. PICK m \in T : \A n \in T : m <= n
    <2>1. \A x \in S : 1024 - x \in Nat
      BY DEF Accepted, PowersOfTwo, IntMin
    <2>2. \A t \in T : t \in Nat
      BY <2>1
    <2>3. PICK x \in S : TRUE
      OBVIOUS
    <2>4. 1024 - x \in T
      BY <2>3
    <2>5. T \in SUBSET Nat
      BY <2>2
    <2>6. T # {}
      BY <2>4
    <2> HIDE DEF T
    <2> QED
      BY <2>5, <2>6, NatMin
  <1>2. \E x \in S : \A y \in S : x >= y
    <2>1. PICK x \in S : m = 1024 - x
      BY Zenon
    <2>2. ASSUME NEW y \in S PROVE x >= y
      <3>1. m <= 1024 - y
        BY <1>1
      <3> QED
        BY <2>1, <3>1 DEF Accepted, PowersOfTwo, IntMin
    <2> QED
      BY <2>2
  <1>3. Max(S) \in S /\ \A x \in S : Max(S) >= x
    BY <1>2, Zenon DEF Max
  <1> QED
    BY <1>3 DEF Accepted, PowersOfTwo, IntMin

-----------------------------------------------------------------------------
(* Facts about the labels and about the steps of a call. *)

LEMMA RtcInit == Init => RtcInv
  <1> SUFFICES ASSUME Init PROVE RtcInv
    OBVIOUS
  <1> USE DEF Init
  <1>1. RtcType
    <2>1. reg_b \in BOOLEAN /\ irq \in BOOLEAN
      BY Zenon
    <2> QED
      BY <2>1 DEF RtcType, Labels, Accepted, PowersOfTwo, RateMin
  <1>2. Serial
    BY DEF Serial, InCall
  <1>3. Counted
    BY FS_EmptySet DEF Counted, Uncounted, OpenLabels, CloseLabels, WriteLabels
  <1>4. Switched
    BY DEF Switched
  <1>5. Asked
    BY DEF Asked, CloseLabels
  <1>6. Divisible
    BY DEF Divisible, Divided, Updating
  <1>7. Fast
    BY DEF Fast
  <1> QED
    BY <1>1, <1>2, <1>3, <1>4, <1>5, <1>6, <1>7 DEF RtcInv

(* A step of a call: nobody else is in one, before and after. *)
LEMMA AtStep ==
    ASSUME RtcInv, ~Interleaved, NEW p \in Procs, NEW from, NEW to \in Labels,
           At(p, from, to)
    PROVE  /\ pc[p] = from /\ pc'[p] = to
           /\ pc' \in [Procs -> Labels]
           /\ \A q \in Procs : q # p => pc'[q] = pc[q] /\ pc[q] \in {"user", "spin"}
           /\ Serial'
  BY DEF RtcInv, RtcType, At, Turn, InCall, Serial

(* The number of descriptors. *)
LEMMA FilesFinite ==
    ASSUME RtcType
    PROVE  IsFiniteSet(files)
  BY RtcAssumption, FS_Product, FS_Subset DEF RtcType

LEMMA OpenStartStep ==
    ASSUME RtcInv, ~Interleaved, NEW p \in Procs, OpenStart(p)
    PROVE  RtcInv'
  <1> USE DEF RtcInv, OpenStart
  <1> DEFINE to == IF open = 0 THEN "turn_on" ELSE "count_up"
  <1>1. /\ pc[p] = "user" /\ pc'[p] = to
        /\ pc' \in [Procs -> Labels]
        /\ \A q \in Procs : q # p => pc'[q] = pc[q] /\ pc[q] \in {"user", "spin"}
        /\ Serial'
    <2>1. to \in Labels /\ At(p, "user", to)
      BY DEF Labels, OpenLabels, CloseLabels, WriteLabels
    <2> QED
      BY <2>1, AtStep
  <1>2. RtcType'
    BY <1>1 DEF RtcType, driverVars, hwVars
  <1>a. PICK f \in Fds : <<p, f>> \notin files /\ files' = files \cup {<<p, f>>}
    BY Zenon
  <1>b. /\ open = Cardinality(files)
        /\ Cardinality(files') = Cardinality(files) + 1
        /\ open = 0 <=> files = {}
    <2>1. IsFiniteSet(files)
      BY FilesFinite
    <2>2. open = Cardinality(files)
      BY <1>1 DEF Counted, Uncounted, OpenLabels, CloseLabels
    <2> QED
      BY <1>a, <2>1, <2>2, FS_AddElement, FS_EmptySet
  <1>3. Counted'
    BY <1>1, <1>a, <1>b DEF RtcType, driverVars, hwVars, Counted, Uncounted,
       OpenLabels, CloseLabels, WriteLabels, Holds
  <1>4. Switched'
    BY <1>1, <1>a, <1>b DEF RtcType, driverVars, hwVars, Switched
  <1>5. Asked'
    BY <1>1, <1>a, <1>b DEF RtcType, driverVars, hwVars, Asked, CloseLabels, Holds
  <1>6. Divisible'
    BY <1>1 DEF RtcType, driverVars, hwVars, Divisible, Divided, Updating
  <1>7. Fast'
    BY <1>1 DEF RtcType, driverVars, hwVars, Fast
  <1> QED
    BY <1>1, <1>2, <1>3, <1>4, <1>5, <1>6, <1>7

LEMMA OpenTurnOnStep ==
    ASSUME RtcInv, ~Interleaved, NEW p \in Procs, OpenTurnOn(p)
    PROVE  RtcInv'
  <1> USE DEF RtcInv, OpenTurnOn
  <1> DEFINE to == "unmask"
  <1>1. /\ pc[p] = "turn_on" /\ pc'[p] = to
        /\ pc' \in [Procs -> Labels]
        /\ \A q \in Procs : q # p => pc'[q] = pc[q] /\ pc[q] \in {"user", "spin"}
        /\ Serial'
    <2>1. to \in Labels /\ At(p, "turn_on", to)
      BY DEF Labels, OpenLabels, CloseLabels, WriteLabels
    <2> QED
      BY <2>1, AtStep
  <1>2. RtcType'
    BY <1>1 DEF RtcType, driverVars, hwVars, PowersOfTwo, RateMin
  <1>3. Counted'
    BY <1>1 DEF RtcType, driverVars, hwVars, Counted, Uncounted, OpenLabels,
       CloseLabels, WriteLabels, Holds
  <1>4. Switched'
    BY <1>1 DEF RtcType, driverVars, hwVars, Switched
  <1>5. Asked'
    BY <1>1 DEF RtcType, driverVars, hwVars, Asked, CloseLabels, Holds, PowersOfTwo,
       RateMin
  <1>6. Divisible'
    BY <1>1 DEF RtcType, driverVars, hwVars, Asked, Divisible, Divided, Updating
  <1>7. Fast'
    BY <1>1, SlowestRate DEF RtcType, driverVars, hwVars, Fast, RateMin
  <1> QED
    BY <1>1, <1>2, <1>3, <1>4, <1>5, <1>6, <1>7

LEMMA OpenUnmaskStep ==
    ASSUME RtcInv, ~Interleaved, NEW p \in Procs, OpenUnmask(p)
    PROVE  RtcInv'
  <1> USE DEF RtcInv, OpenUnmask
  <1> DEFINE to == "count_up"
  <1>1. /\ pc[p] = "unmask" /\ pc'[p] = to
        /\ pc' \in [Procs -> Labels]
        /\ \A q \in Procs : q # p => pc'[q] = pc[q] /\ pc[q] \in {"user", "spin"}
        /\ Serial'
    <2>1. to \in Labels /\ At(p, "unmask", to)
      BY DEF Labels, OpenLabels, CloseLabels, WriteLabels
    <2> QED
      BY <2>1, AtStep
  <1>2. RtcType'
    BY <1>1 DEF RtcType, driverVars, hwVars
  <1>3. Counted'
    BY <1>1 DEF RtcType, driverVars, hwVars, Counted, Uncounted, OpenLabels,
       CloseLabels, WriteLabels, Holds
  <1>4. Switched'
    BY <1>1 DEF RtcType, driverVars, hwVars, Switched, Counted, OpenLabels, Holds
  <1>5. Asked'
    BY <1>1 DEF RtcType, driverVars, hwVars, Asked, CloseLabels, Holds
  <1>6. Divisible'
    BY <1>1 DEF RtcType, driverVars, hwVars, Divisible, Divided, Updating
  <1>7. Fast'
    BY <1>1 DEF RtcType, driverVars, hwVars, Fast
  <1> QED
    BY <1>1, <1>2, <1>3, <1>4, <1>5, <1>6, <1>7

LEMMA CloseTestStep ==
    ASSUME RtcInv, ~Interleaved, NEW p \in Procs, CloseTest(p)
    PROVE  RtcInv'
  <1> USE DEF RtcInv, CloseTest
  <1> DEFINE to == IF open = 0 THEN "mask" ELSE "trim"
  <1>1. /\ pc[p] = "test" /\ pc'[p] = to
        /\ pc' \in [Procs -> Labels]
        /\ \A q \in Procs : q # p => pc'[q] = pc[q] /\ pc[q] \in {"user", "spin"}
        /\ Serial'
    <2>1. to \in Labels /\ At(p, "test", to)
      BY DEF Labels, OpenLabels, CloseLabels, WriteLabels
    <2> QED
      BY <2>1, AtStep
  <1>2. RtcType'
    BY <1>1 DEF RtcType, driverVars, hwVars
  <1>3. Counted'
    BY <1>1 DEF RtcType, driverVars, hwVars, Counted, Uncounted, OpenLabels,
       CloseLabels, WriteLabels, Holds
  <1>4. Switched'
    BY <1>1 DEF RtcType, driverVars, hwVars, Switched
  <1>5. Asked'
    BY <1>1 DEF RtcType, driverVars, hwVars, Asked, CloseLabels, Holds
  <1>6. Divisible'
    BY <1>1 DEF RtcType, driverVars, hwVars, Divisible, Divided, Updating
  <1>7. Fast'
    BY <1>1 DEF RtcType, driverVars, hwVars, Fast
  <1> QED
    BY <1>1, <1>2, <1>3, <1>4, <1>5, <1>6, <1>7

LEMMA CloseMaskStep ==
    ASSUME RtcInv, ~Interleaved, NEW p \in Procs, CloseMask(p)
    PROVE  RtcInv'
  <1> USE DEF RtcInv, CloseMask
  <1> DEFINE to == "turn_off"
  <1>1. /\ pc[p] = "mask" /\ pc'[p] = to
        /\ pc' \in [Procs -> Labels]
        /\ \A q \in Procs : q # p => pc'[q] = pc[q] /\ pc[q] \in {"user", "spin"}
        /\ Serial'
    <2>1. to \in Labels /\ At(p, "mask", to)
      BY DEF Labels, OpenLabels, CloseLabels, WriteLabels
    <2> QED
      BY <2>1, AtStep
  <1>2. RtcType'
    BY <1>1 DEF RtcType, driverVars, hwVars
  <1>3. Counted'
    BY <1>1 DEF RtcType, driverVars, hwVars, Counted, Uncounted, OpenLabels,
       CloseLabels, WriteLabels, Holds
  <1>4. Switched'
    BY <1>1 DEF RtcType, driverVars, hwVars, Switched
  <1>5. Asked'
    BY <1>1 DEF RtcType, driverVars, hwVars, Asked, CloseLabels, Holds
  <1>6. Divisible'
    BY <1>1 DEF RtcType, driverVars, hwVars, Divisible, Divided, Updating
  <1>7. Fast'
    BY <1>1 DEF RtcType, driverVars, hwVars, Fast
  <1> QED
    BY <1>1, <1>2, <1>3, <1>4, <1>5, <1>6, <1>7

LEMMA CloseTurnOffStep ==
    ASSUME RtcInv, ~Interleaved, NEW p \in Procs, CloseTurnOff(p)
    PROVE  RtcInv'
  <1> USE DEF RtcInv, CloseTurnOff
  <1> DEFINE to == "release"
  <1>1. /\ pc[p] = "turn_off" /\ pc'[p] = to
        /\ pc' \in [Procs -> Labels]
        /\ \A q \in Procs : q # p => pc'[q] = pc[q] /\ pc[q] \in {"user", "spin"}
        /\ Serial'
    <2>1. to \in Labels /\ At(p, "turn_off", to)
      BY DEF Labels, OpenLabels, CloseLabels, WriteLabels
    <2> QED
      BY <2>1, AtStep
  <1>2. RtcType'
    BY <1>1 DEF RtcType, driverVars, hwVars
  <1>3. Counted'
    BY <1>1 DEF RtcType, driverVars, hwVars, Counted, Uncounted, OpenLabels,
       CloseLabels, WriteLabels, Holds
  <1>4. Switched'
    BY <1>1 DEF RtcType, driverVars, hwVars, Switched
  <1>5. Asked'
    BY <1>1 DEF RtcType, driverVars, hwVars, Asked, CloseLabels, Holds
  <1>6. Divisible'
    BY <1>1 DEF RtcType, driverVars, hwVars, Divisible, Divided, Updating
  <1>7. Fast'
    BY <1>1 DEF RtcType, driverVars, hwVars, Fast
  <1> QED
    BY <1>1, <1>2, <1>3, <1>4, <1>5, <1>6, <1>7

LEMMA CloseTrimStep ==
    ASSUME RtcInv, ~Interleaved, NEW p \in Procs, CloseTrim(p)
    PROVE  RtcInv'
  <1> USE DEF RtcInv, CloseTrim
  <1> DEFINE to == "close_update"
  <1>1. /\ pc[p] = "trim" /\ pc'[p] = to
        /\ pc' \in [Procs -> Labels]
        /\ \A q \in Procs : q # p => pc'[q] = pc[q] /\ pc[q] \in {"user", "spin"}
        /\ Serial'
    <2>1. to \in Labels /\ At(p, "trim", to)
      BY DEF Labels, OpenLabels, CloseLabels, WriteLabels
    <2> QED
      BY <2>1, AtStep
  <1>a. /\ rtc_rate' \in PowersOfTwo \ {1}
        /\ \A q \in Procs : rate[q] <= rtc_rate'
        /\ rtc_rate' = RateMin \/ \E q \in Procs : rtc_rate' = rate[q]
    <2> DEFINE S == {RateMin} \cup {rate[q] : q \in Procs}
    <2>1. S \in SUBSET Accepted /\ RateMin \in S
      BY DEF RtcType, RateMin, Accepted, PowersOfTwo
    <2>2. Max(S) \in S /\ \A x \in S : x <= Max(S)
      <3> HIDE DEF S
      <3> QED
        BY <2>1, MaxRate
    <2>3. rtc_rate' \in S /\ \A x \in S : x <= rtc_rate'
      BY <2>2
    <2>4. rtc_rate' \in PowersOfTwo \ {1}
      BY <2>1, <2>3 DEF RateMin, Accepted, PowersOfTwo, IntMin
    <2> QED
      BY <2>3, <2>4
  <1>2. RtcType'
    BY <1>1, <1>a DEF RtcType, driverVars, hwVars
  <1>3. Counted'
    BY <1>1 DEF RtcType, driverVars, hwVars, Counted, Uncounted, OpenLabels,
       CloseLabels, WriteLabels, Holds
  <1>4. Switched'
    BY <1>1 DEF RtcType, driverVars, hwVars, Switched
  <1>5. Asked'
    BY <1>1, <1>a DEF RtcType, driverVars, hwVars, Asked, CloseLabels, Holds
  <1>6. Divisible'
    BY <1>1, <1>a DEF RtcType, driverVars, hwVars, Divisible, Divided, Updating
  <1>7. Fast'
    <2>1. reg_b => rtc_rate' <= rtc_rate
      BY <1>1, <1>a DEF RtcType, Asked, Divisible, Divided, Updating, RateMin,
         PowersOfTwo
    <2>2. reg_b => /\ reg_a \in 1 .. 15
                   /\ Frequency(reg_a) \in Int
                   /\ Frequency(reg_a) >= rtc_rate
      BY <1>1, FrequencyType DEF Fast
    <2>3. reg_b => Frequency(reg_a) >= rtc_rate'
      BY <1>a, <2>1, <2>2 DEF RtcType, PowersOfTwo
    <2> QED
      BY <1>1, <2>2, <2>3 DEF hwVars, Fast
  <1> QED
    BY <1>1, <1>2, <1>3, <1>4, <1>5, <1>6, <1>7

LEMMA CloseUpdateStep ==
    ASSUME RtcInv, ~Interleaved, NEW p \in Procs, CloseUpdate(p)
    PROVE  RtcInv'
  <1> USE DEF RtcInv, CloseUpdate, update_rtc_processes
  <1> DEFINE to == "release"
  <1>1. /\ pc[p] = "close_update" /\ pc'[p] = to
        /\ pc' \in [Procs -> Labels]
        /\ \A q \in Procs : q # p => pc'[q] = pc[q] /\ pc[q] \in {"user", "spin"}
        /\ Serial'
    <2>1. to \in Labels /\ At(p, "close_update", to)
      BY DEF Labels, OpenLabels, CloseLabels, WriteLabels
    <2> QED
      BY <2>1, AtStep
  <1>2. RtcType'
    BY <1>1, DivisorType DEF RtcType, driverVars, hwVars
  <1>3. Counted'
    BY <1>1 DEF RtcType, driverVars, hwVars, Counted, Uncounted, OpenLabels,
       CloseLabels, WriteLabels, Holds
  <1>4. Switched'
    BY <1>1 DEF RtcType, driverVars, hwVars, Switched, Counted, CloseLabels
  <1>5. Asked'
    BY <1>1 DEF RtcType, driverVars, hwVars, Asked, CloseLabels, Holds
  <1>6. Divisible'
    <2>1. ASSUME NEW q \in Procs
          PROVE  /\ rate[q] <= rtc_rate
                 /\ rate[q] = IntMin => max_count'[q] = 0
                 /\ rate[q] \notin {RateMin, IntMin} =>
                        max_count'[q] * rate[q] = rtc_rate
      <3>1. rate[q] <= rtc_rate
        BY <1>1 DEF Divisible, Updating
      <3>2. max_count'[q] = Divisor(rtc_rate, rate[q])
        OBVIOUS
      <3> QED
        BY <3>1, <3>2, DivisorDivides
    <2> QED
      BY <1>1, <2>1 DEF RtcType, driverVars, hwVars, Divisible, Divided, Updating
  <1>7. Fast'
    BY <1>1 DEF RtcType, driverVars, hwVars, Fast
  <1> QED
    BY <1>1, <1>2, <1>3, <1>4, <1>5, <1>6, <1>7

LEMMA CloseReturnStep ==
    ASSUME RtcInv, ~Interleaved, NEW p \in Procs, CloseReturn(p)
    PROVE  RtcInv'
  <1> USE DEF RtcInv, CloseReturn
  <1> DEFINE to == "user"
  <1>1. /\ pc[p] = "release" /\ pc'[p] = to
        /\ pc' \in [Procs -> Labels]
        /\ \A q \in Procs : q # p => pc'[q] = pc[q] /\ pc[q] \in {"user", "spin"}
        /\ Serial'
    <2>1. to \in Labels /\ At(p, "release", to)
      BY DEF Labels, OpenLabels, CloseLabels, WriteLabels
    <2> QED
      BY <2>1, AtStep
  <1>2. RtcType'
    BY <1>1 DEF RtcType, driverVars, hwVars
  <1>a. /\ open = Cardinality(files')
        /\ open = 0 <=> files' = {}
    <2>1. <<p, arg[p]>> \in files /\ open = Cardinality(files) - 1
      BY <1>1 DEF Counted, Uncounted, CloseLabels
    <2>2. IsFiniteSet(files)
      BY FilesFinite
    <2>3. IsFiniteSet(files') /\ Cardinality(files') = Cardinality(files) - 1
      BY <2>1, <2>2, FS_RemoveElement
    <2> QED
      BY <2>1, <2>3, FS_EmptySet
  <1>3. Counted'
    BY <1>1, <1>a DEF RtcType, driverVars, hwVars, Counted, Uncounted, OpenLabels,
       CloseLabels, WriteLabels, Holds
  <1>4. Switched'
    BY <1>1, <1>a DEF RtcType, driverVars, hwVars, Switched
  <1>5. Asked'
    BY <1>1 DEF RtcType, driverVars, hwVars, Asked, CloseLabels, Holds
  <1>6. Divisible'
    BY <1>1 DEF RtcType, driverVars, hwVars, Divisible, Divided, Updating
  <1>7. Fast'
    BY <1>1 DEF RtcType, driverVars, hwVars, Fast
  <1> QED
    BY <1>1, <1>2, <1>3, <1>4, <1>5, <1>6, <1>7

LEMMA WriteDivideStep ==
    ASSUME RtcInv, ~Interleaved, NEW p \in Procs, WriteDivide(p)
    PROVE  RtcInv'
  <1> USE DEF RtcInv, WriteDivide
  <1> DEFINE to == "compare"
  <1>1. /\ pc[p] = "divide" /\ pc'[p] = to
        /\ pc' \in [Procs -> Labels]
        /\ \A q \in Procs : q # p => pc'[q] = pc[q] /\ pc[q] \in {"user", "spin"}
        /\ Serial'
    <2>1. to \in Labels /\ At(p, "divide", to)
      BY DEF Labels, OpenLabels, CloseLabels, WriteLabels
    <2> QED
      BY <2>1, AtStep
  <1>2. RtcType'
    BY <1>1, DivisorType DEF RtcType, driverVars, hwVars
  <1>3. Counted'
    BY <1>1 DEF RtcType, driverVars, hwVars, Counted, Uncounted, OpenLabels,
       CloseLabels, WriteLabels, Holds
  <1>4. Switched'
    BY <1>1 DEF RtcType, driverVars, hwVars, Switched
  <1>5. Asked'
    BY <1>1 DEF RtcType, driverVars, hwVars, Asked, CloseLabels, Holds
  <1>6. Divisible'
    BY <1>1 DEF RtcType, driverVars, hwVars, Divisible, Divided, Updating
  <1>7. Fast'
    BY <1>1 DEF RtcType, driverVars, hwVars, Fast
  <1> QED
    BY <1>1, <1>2, <1>3, <1>4, <1>5, <1>6, <1>7

LEMMA WriteCompareStep ==
    ASSUME RtcInv, ~Interleaved, NEW p \in Procs, WriteCompare(p)
    PROVE  RtcInv'
  <1> USE DEF RtcInv, WriteCompare
  <1> DEFINE to == IF rate[p] > rtc_rate THEN "raise" ELSE "user"
  <1>1. /\ pc[p] = "compare" /\ pc'[p] = to
        /\ pc' \in [Procs -> Labels]
        /\ \A q \in Procs : q # p => pc'[q] = pc[q] /\ pc[q] \in {"user", "spin"}
        /\ Serial'
    <2>1. to \in Labels /\ At(p, "compare", to)
      BY DEF Labels, OpenLabels, CloseLabels, WriteLabels
    <2> QED
      BY <2>1, AtStep
  <1>2. RtcType'
    BY <1>1 DEF RtcType, driverVars, hwVars
  <1>3. Counted'
    BY <1>1 DEF RtcType, driverVars, hwVars, Counted, Uncounted, OpenLabels,
       CloseLabels, WriteLabels, Holds
  <1>4. Switched'
    BY <1>1 DEF RtcType, driverVars, hwVars, Switched
  <1>5. Asked'
    BY <1>1 DEF RtcType, driverVars, hwVars, Asked, CloseLabels, Holds
  <1>6. Divisible'
    <2>1. rate[p] <= rtc_rate => Divided(p)
      BY <1>1, DivisorDivides DEF Divisible, Divided
    <2>2. rate[p] > rtc_rate \/ rate[p] <= rtc_rate
      BY DEF RtcType, Accepted, PowersOfTwo, IntMin
    <2> QED
      BY <1>1, <2>1, <2>2 DEF RtcType, driverVars, hwVars, Divisible, Divided, Updating
  <1>7. Fast'
    BY <1>1 DEF RtcType, driverVars, hwVars, Fast
  <1> QED
    BY <1>1, <1>2, <1>3, <1>4, <1>5, <1>6, <1>7

LEMMA WriteRaiseStep ==
    ASSUME RtcInv, ~Interleaved, NEW p \in Procs, WriteRaise(p)
    PROVE  RtcInv'
  <1> USE DEF RtcInv, WriteRaise
  <1> DEFINE to == "set_rate"
  <1>1. /\ pc[p] = "raise" /\ pc'[p] = to
        /\ pc' \in [Procs -> Labels]
        /\ \A q \in Procs : q # p => pc'[q] = pc[q] /\ pc[q] \in {"user", "spin"}
        /\ Serial'
    <2>1. to \in Labels /\ At(p, "raise", to)
      BY DEF Labels, OpenLabels, CloseLabels, WriteLabels
    <2> QED
      BY <2>1, AtStep
  <1>a. /\ rtc_rate' \in PowersOfTwo \ {1} /\ rtc_rate < rtc_rate'
        /\ rtc_rate' = rate[p]
    <2>1. reg_b
      BY <1>1 DEF Switched, Counted, WriteLabels, Holds
    <2> QED
      BY <1>1, <2>1 DEF RtcType, Asked, Divisible, Accepted, PowersOfTwo, IntMin
  <1>2. RtcType'
    BY <1>1, <1>a DEF RtcType, driverVars, hwVars
  <1>3. Counted'
    BY <1>1 DEF RtcType, driverVars, hwVars, Counted, Uncounted, OpenLabels,
       CloseLabels, WriteLabels, Holds
  <1>4. Switched'
    BY <1>1 DEF RtcType, driverVars, hwVars, Switched
  <1>5. Asked'
    BY <1>1, <1>a DEF RtcType, driverVars, hwVars, Asked, CloseLabels, Holds
  <1>6. Divisible'
    <2>1. \A q \in Procs : rate[q] <= rtc_rate'
      BY <1>1, <1>a DEF RtcType, Divisible, Divided, Updating, RateMin, Accepted,
         PowersOfTwo, IntMin
    <2> QED
      BY <1>1, <1>a, <2>1 DEF RtcType, driverVars, hwVars, Divisible, Divided, Updating
  <1>7. Fast'
    BY <1>1 DEF RtcType, driverVars, hwVars, Fast
  <1> QED
    BY <1>1, <1>2, <1>3, <1>4, <1>5, <1>6, <1>7

LEMMA WriteSetRateStep ==
    ASSUME RtcInv, ~Interleaved, NEW p \in Procs, WriteSetRate(p)
    PROVE  RtcInv'
  <1> USE DEF RtcInv, WriteSetRate
  <1> DEFINE to == "write_update"
  <1>1. /\ pc[p] = "set_rate" /\ pc'[p] = to
        /\ pc' \in [Procs -> Labels]
        /\ \A q \in Procs : q # p => pc'[q] = pc[q] /\ pc[q] \in {"user", "spin"}
        /\ Serial'
    <2>1. to \in Labels /\ At(p, "set_rate", to)
      BY DEF Labels, OpenLabels, CloseLabels, WriteLabels
    <2> QED
      BY <2>1, AtStep
  <1>2. RtcType'
    BY <1>1 DEF RtcType, driverVars, hwVars
  <1>3. Counted'
    BY <1>1 DEF RtcType, driverVars, hwVars, Counted, Uncounted, OpenLabels,
       CloseLabels, WriteLabels, Holds
  <1>4. Switched'
    BY <1>1 DEF RtcType, driverVars, hwVars, Switched
  <1>5. Asked'
    BY <1>1 DEF RtcType, driverVars, hwVars, Asked, CloseLabels, Holds
  <1>6. Divisible'
    BY <1>1 DEF RtcType, driverVars, hwVars, Divisible, Divided, Updating
  <1>7. Fast'
    <2>1. rate[p] = rtc_rate
      BY <1>1 DEF Divisible
    <2>2. reg_b => reg_a' \in 1 .. 15 /\ Frequency(reg_a') = rtc_rate
      BY <2>1, SetRateExact DEF Asked
    <2> QED
      BY <1>1, <2>2 DEF RtcType, driverVars, hwVars, Fast, PowersOfTwo
  <1> QED
    BY <1>1, <1>2, <1>3, <1>4, <1>5, <1>6, <1>7

LEMMA WriteUpdateStep ==
    ASSUME RtcInv, ~Interleaved, NEW p \in Procs, WriteUpdate(p)
    PROVE  RtcInv'
  <1> USE DEF RtcInv, WriteUpdate, update_rtc_processes
  <1> DEFINE to == "user"
  <1>1. /\ pc[p] = "write_update" /\ pc'[p] = to
        /\ pc' \in [Procs -> Labels]
        /\ \A q \in Procs : q # p => pc'[q] = pc[q] /\ pc[q] \in {"user", "spin"}
        /\ Serial'
    <2>1. to \in Labels /\ At(p, "write_update", to)
      BY DEF Labels, OpenLabels, CloseLabels, WriteLabels
    <2> QED
      BY <2>1, AtStep
  <1>2. RtcType'
    BY <1>1, DivisorType DEF RtcType, driverVars, hwVars
  <1>3. Counted'
    BY <1>1 DEF RtcType, driverVars, hwVars, Counted, Uncounted, OpenLabels,
       CloseLabels, WriteLabels, Holds
  <1>4. Switched'
    BY <1>1 DEF RtcType, driverVars, hwVars, Switched
  <1>5. Asked'
    BY <1>1 DEF RtcType, driverVars, hwVars, Asked, CloseLabels, Holds
  <1>6. Divisible'
    <2>1. ASSUME NEW q \in Procs
          PROVE  /\ rate[q] <= rtc_rate
                 /\ rate[q] = IntMin => max_count'[q] = 0
                 /\ rate[q] \notin {RateMin, IntMin} =>
                        max_count'[q] * rate[q] = rtc_rate
      <3>1. rate[q] <= rtc_rate
        BY <1>1 DEF Divisible, Updating
      <3>2. max_count'[q] = Divisor(rtc_rate, rate[q])
        OBVIOUS
      <3> QED
        BY <3>1, <3>2, DivisorDivides
    <2> QED
      BY <1>1, <2>1 DEF RtcType, driverVars, hwVars, Divisible, Divided, Updating
  <1>7. Fast'
    BY <1>1 DEF RtcType, driverVars, hwVars, Fast
  <1> QED
    BY <1>1, <1>2, <1>3, <1>4, <1>5, <1>6, <1>7

LEMMA CloseStartStep ==
    ASSUME RtcInv, ~Interleaved, NEW p \in Procs, NEW f \in Fds, CloseStart(p, f)
    PROVE  RtcInv'
  <1> USE DEF RtcInv, CloseStart
  <1> DEFINE to == "count_down"
  <1>1. /\ pc[p] = "user" /\ pc'[p] = to
        /\ pc' \in [Procs -> Labels]
        /\ \A q \in Procs : q # p => pc'[q] = pc[q] /\ pc[q] \in {"user", "spin"}
        /\ Serial'
    <2>1. to \in Labels /\ At(p, "user", to)
      BY DEF Labels, OpenLabels, CloseLabels, WriteLabels
    <2> QED
      BY <2>1, AtStep
  <1>2. RtcType'
    <2>1. rate' \in [Procs -> Accepted]
      BY DEF RtcType, RateMin, Accepted, PowersOfTwo
    <2>2. arg' \in [Procs -> Fds \cup {0}]
      BY DEF RtcType
    <2> QED
      BY <1>1, <2>1, <2>2 DEF RtcType, driverVars, hwVars
  <1>3. Counted'
    BY <1>1 DEF RtcType, driverVars, hwVars, Counted, Uncounted, OpenLabels,
       CloseLabels, WriteLabels, Holds
  <1>4. Switched'
    BY <1>1 DEF RtcType, driverVars, hwVars, Switched
  <1>5. Asked'
    BY <1>1 DEF RtcType, driverVars, hwVars, Asked, CloseLabels, Holds
  <1>6. Divisible'
    BY <1>1 DEF RtcType, driverVars, hwVars, Divisible, Divided, Updating,
       RateMin, IntMin
  <1>7. Fast'
    BY <1>1 DEF RtcType, driverVars, hwVars, Fast
  <1> QED
    BY <1>1, <1>2, <1>3, <1>4, <1>5, <1>6, <1>7

LEMMA WriteStartStep ==
    ASSUME RtcInv, ~Interleaved, NEW p \in Procs, NEW r \in Rates, WriteStart(p, r)
    PROVE  RtcInv'
  <1> USE DEF RtcInv, WriteStart
  <1> DEFINE to == "divide"
  <1>1. /\ pc[p] = "user" /\ pc'[p] = to
        /\ pc' \in [Procs -> Labels]
        /\ \A q \in Procs : q # p => pc'[q] = pc[q] /\ pc[q] \in {"user", "spin"}
        /\ Serial'
    <2>1. to \in Labels /\ At(p, "user", to)
      BY DEF Labels, OpenLabels, CloseLabels, WriteLabels
    <2> QED
      BY <2>1, AtStep
  <1>2. RtcType'
    BY <1>1, ValidRatePower DEF RtcType, driverVars, hwVars
  <1>3. Counted'
    BY <1>1 DEF RtcType, driverVars, hwVars, Counted, Uncounted, OpenLabels,
       CloseLabels, WriteLabels, Holds
  <1>4. Switched'
    BY <1>1 DEF RtcType, driverVars, hwVars, Switched
  <1>5. Asked'
    BY <1>1 DEF RtcType, driverVars, hwVars, Asked, CloseLabels, Holds
  <1>6. Divisible'
    BY <1>1 DEF RtcType, driverVars, hwVars, Divisible, Divided, Updating
  <1>7. Fast'
    BY <1>1 DEF RtcType, driverVars, hwVars, Fast
  <1> QED
    BY <1>1, <1>2, <1>3, <1>4, <1>5, <1>6, <1>7

LEMMA ReadStartStep ==
    ASSUME RtcInv, ~Interleaved, NEW p \in Procs, ReadStart(p)
    PROVE  RtcInv'
  <1> USE DEF RtcInv, ReadStart
  <1> DEFINE to == "spin"
  <1>1. /\ pc[p] = "user" /\ pc'[p] = to
        /\ pc' \in [Procs -> Labels]
        /\ \A q \in Procs : q # p => pc'[q] = pc[q] /\ pc[q] \in {"user", "spin"}
        /\ Serial'
    <2>1. to \in Labels /\ At(p, "user", to)
      BY DEF Labels, OpenLabels, CloseLabels, WriteLabels, At, Turn
    <2> QED
      BY <2>1, AtStep
  <1>2. RtcType'
    BY <1>1 DEF RtcType, driverVars, hwVars
  <1>3. Counted'
    BY <1>1 DEF RtcType, driverVars, hwVars, Counted, Uncounted, OpenLabels,
       CloseLabels, WriteLabels, Holds
  <1>4. Switched'
    BY <1>1 DEF RtcType, driverVars, hwVars, Switched
  <1>5. Asked'
    BY <1>1 DEF RtcType, driverVars, hwVars, Asked, CloseLabels, Holds
  <1>6. Divisible'
    BY <1>1 DEF RtcType, driverVars, hwVars, Divisible, Divided, Updating
  <1>7. Fast'
    BY <1>1 DEF RtcType, driverVars, hwVars, Fast
  <1> QED
    BY <1>1, <1>2, <1>3, <1>4, <1>5, <1>6, <1>7

LEMMA CountLoadStep ==
    ASSUME RtcInv, ~Interleaved, NEW p \in Procs, CountLoad(p)
    PROVE  RtcInv'
  <1> USE DEF RtcInv, CountLoad
  <1>a. PICK from, to :
            /\ \/ from = "count_up" /\ to = "store_up"
               \/ from = "count_down" /\ to = "store_down"
            /\ At(p, from, to)
    BY Zenon
  <1>1. /\ pc[p] = from /\ pc'[p] = to
        /\ pc' \in [Procs -> Labels]
        /\ \A q \in Procs : q # p => pc'[q] = pc[q] /\ pc[q] \in {"user", "spin"}
        /\ Serial'
    <2>1. to \in Labels
      BY <1>a DEF Labels, OpenLabels, CloseLabels
    <2> QED
      BY <1>a, <2>1, AtStep
  <1>2. RtcType'
    BY <1>1, <1>a DEF RtcType, driverVars, hwVars
  <1>3. Counted'
    BY <1>1, <1>a DEF RtcType, driverVars, hwVars, Counted, Uncounted, OpenLabels,
       CloseLabels, WriteLabels, Holds
  <1>4. Switched'
    BY <1>1, <1>a DEF RtcType, driverVars, hwVars, Switched
  <1>5. Asked'
    BY <1>1, <1>a DEF RtcType, driverVars, hwVars, Asked, CloseLabels, Holds
  <1>6. Divisible'
    BY <1>1, <1>a DEF RtcType, driverVars, hwVars, Divisible, Divided, Updating
  <1>7. Fast'
    BY <1>1, <1>a DEF RtcType, driverVars, hwVars, Fast
  <1> QED
    BY <1>1, <1>2, <1>3, <1>4, <1>5, <1>6, <1>7

LEMMA CountStoreStep ==
    ASSUME RtcInv, ~Interleaved, NEW p \in Procs, CountStore(p)
    PROVE  RtcInv'
  <1> USE DEF RtcInv, CountStore
  <1>a. PICK from, to :
            /\ \/ from = "store_up" /\ to = "user" /\ open' = reg[p] + 1
               \/ from = "store_down" /\ to = "test" /\ open' = reg[p] - 1
            /\ At(p, from, to)
    BY Zenon
  <1>1. /\ pc[p] = from /\ pc'[p] = to
        /\ pc' \in [Procs -> Labels]
        /\ \A q \in Procs : q # p => pc'[q] = pc[q] /\ pc[q] \in {"user", "spin"}
        /\ Serial'
    <2>1. to \in Labels
      BY <1>a DEF Labels, OpenLabels, CloseLabels
    <2> QED
      BY <1>a, <2>1, AtStep
  <1>b. reg[p] = open
    BY <1>1, <1>a DEF Counted
  <1>c. Cardinality(files) \in Nat
    BY FilesFinite, FS_CardinalityType
  <1>2. RtcType'
    <2>1. open' \in Int
      BY <1>a, <1>b DEF RtcType
    <2>2. reg' \in [Procs -> Int]
      BY DEF RtcType
    <2>3. UNCHANGED <<files, rtc_rate, rate, max_count, reg_b, irq, arg>>
      BY DEF hwVars
    <2> HIDE DEF CountStore
    <2> QED
      BY <1>1, <2>1, <2>2, <2>3 DEF RtcType
  <1>3. Counted'
    BY <1>1, <1>a, <1>b, <1>c DEF RtcType, driverVars, hwVars, Counted, Uncounted,
       OpenLabels, CloseLabels, WriteLabels, Holds
  <1>4. Switched'
    BY <1>1, <1>a, <1>b, <1>c DEF RtcType, driverVars, hwVars, Switched
  <1>5. Asked'
    BY <1>1, <1>a DEF RtcType, driverVars, hwVars, Asked, CloseLabels, Holds
  <1>6. Divisible'
    BY <1>1, <1>a DEF RtcType, driverVars, hwVars, Divisible, Divided, Updating
  <1>7. Fast'
    BY <1>1, <1>a DEF RtcType, driverVars, hwVars, Fast
  <1> QED
    BY <1>1, <1>2, <1>3, <1>4, <1>5, <1>6, <1>7

LEMMA ReadReturnStep ==
    ASSUME RtcInv, NEW p \in Procs, ReadReturn(p)
    PROVE  RtcInv'
  <1> USE DEF RtcInv, ReadReturn
  <1>1. /\ pc[p] = "spin" /\ pc'[p] = "user"
        /\ pc' \in [Procs -> Labels]
        /\ \A q \in Procs : q # p => pc'[q] = pc[q]
    BY DEF RtcType, Labels
  <1>2. RtcType'
    BY <1>1 DEF RtcType, driverVars, hwVars
  <1>3. Serial'
    BY <1>1 DEF RtcType, Serial, InCall
  <1>4. Counted'
    BY <1>1 DEF RtcType, driverVars, hwVars, Counted, Uncounted, OpenLabels,
       CloseLabels,
                WriteLabels, Holds
  <1>5. Switched'
    BY <1>1 DEF RtcType, driverVars, hwVars, Switched
  <1>6. Asked'
    BY <1>1 DEF RtcType, driverVars, hwVars, Asked, CloseLabels, Holds
  <1>7. Divisible'
    BY <1>1 DEF RtcType, driverVars, hwVars, Divisible, Divided, Updating
  <1>8. Fast'
    BY <1>1 DEF RtcType, driverVars, hwVars, Fast
  <1> QED
    BY <1>2, <1>3, <1>4, <1>5, <1>6, <1>7, <1>8

(* The invariant says nothing of curr_count, all that an interrupt changes. *)
LEMMA CurrCountStep ==
    ASSUME RtcInv,
           UNCHANGED <<files, driverVars, rate, max_count, hwVars, pc, arg, reg>>
    PROVE  RtcInv'
  BY DEF RtcInv, driverVars, hwVars, RtcType, Serial, InCall, Counted, Holds, Switched,
         Asked, Divisible, Divided, Fast

(* RtcInv is inductive when the driver calls do not overlap: between any two *)
(* assignments of rtc_open, rtc_close and rtc_write it says how far the      *)
(* count, the clock and the divisors may lag behind each other.              *)
THEOREM RtcInvariant ==
    ASSUME ~Interleaved
    PROVE  Spec => []RtcInv
  <1>1. RtcInv /\ [Next]_vars => RtcInv'
    <2> SUFFICES ASSUME RtcInv, [Next]_vars PROVE RtcInv'
      OBVIOUS
    <2>1. ASSUME NEW p \in Procs, OpenStart(p) PROVE RtcInv'
      BY <2>1, OpenStartStep
    <2>2. ASSUME NEW p \in Procs, NEW f \in Fds, CloseStart(p, f) PROVE RtcInv'
      BY <2>2, CloseStartStep
    <2>3. ASSUME NEW p \in Procs, NEW r \in Rates, WriteStart(p, r) PROVE RtcInv'
      BY <2>3, WriteStartStep
    <2>4. ASSUME NEW p \in Procs, ReadStart(p) PROVE RtcInv'
      BY <2>4, ReadStartStep
    <2>5. ASSUME NEW p \in Procs, Call(p) PROVE RtcInv'
      BY <2>5, OpenTurnOnStep, OpenUnmaskStep, CountLoadStep, CountStoreStep,
         CloseTestStep,
         CloseMaskStep, CloseTurnOffStep, CloseTrimStep, CloseUpdateStep, CloseReturnStep,
         WriteDivideStep, WriteCompareStep, WriteRaiseStep, WriteSetRateStep,
         WriteUpdateStep, ReadReturnStep DEF Call
    <2>6. CASE Tick
      BY <2>6, CurrCountStep DEF Tick
    <2>7. CASE UNCHANGED vars
      BY <2>7, CurrCountStep DEF vars
    <2> QED
      BY <2>1, <2>2, <2>3, <2>4, <2>5, <2>6, <2>7 DEF Next
  <1> QED
    BY <1>1, RtcInit, PTL DEF Spec

(* OnWhileOpen, for every number of processes and descriptors: rtc_open and  *)
(* rtc_close count exactly the live descriptors of the device, and the clock *)
(* interrupts exactly while there is one, when their calls do not overlap.   *)
THEOREM OnWhileOpenHolds ==
    ASSUME ~Interleaved
    PROVE  Spec => []OnWhileOpen
  <1>1. RtcInv => OnWhileOpen
    <2> SUFFICES ASSUME RtcInv, Quiet
                 PROVE  open = Cardinality(files) /\ (files # {} <=> reg_b /\ irq)
      BY DEF OnWhileOpen
    <2>1. \A p \in Procs : pc[p] \in {"user", "spin"}
      BY DEF Quiet, InCall
    <2>2. open = Cardinality(files)
      BY <2>1 DEF RtcInv, Counted, Uncounted, OpenLabels, CloseLabels
    <2>3. files # {} <=> reg_b /\ irq
      BY <2>1 DEF RtcInv, Switched
    <2> QED
      BY <2>2, <2>3
  <1> QED
    BY <1>1, RtcInvariant, PTL

(* Divisors, for every number of processes and all rates a program can       *)
(* write: between the calls, max_count counts out exactly the rate a process *)
(* asked for, whoever opened, wrote or closed since.                         *)
THEOREM DivisorsHolds ==
    ASSUME ~Interleaved
    PROVE  Spec => []Divisors
  <1>1. RtcInv => Divisors
    BY DEF RtcInv, Divisors, Quiet, InCall, Divisible, Divided, Updating
  <1> QED
    BY <1>1, RtcInvariant, PTL

(* NeverSlower, likewise: between the calls the hardware set_rate programmed *)
(* runs at least at rtc_rate while the device is open, and the interrupts a  *)
(* process with a rate of its own waits for come within the period it asked  *)
(* for.                                                                      *)
THEOREM NeverSlowerHolds ==
    ASSUME ~Interleaved
    PROVE  Spec => []NeverSlower
  <1>1. RtcInv => NeverSlower
    <2> SUFFICES ASSUME RtcInv, Quiet
                 PROVE  /\ files # {} => Frequency(reg_a) >= rtc_rate
                        /\ \A p \in Procs : rate[p] # RateMin =>
                               max_count[p] * rate[p] <= Frequency(reg_a)
      BY DEF NeverSlower
    <2>1. files # {} => reg_b /\ reg_a \in 1 .. 15 /\ Frequency(reg_a) >= rtc_rate
      BY DEF RtcInv, Quiet, InCall, Switched, Fast
    <2>2. ASSUME NEW p \in Procs, rate[p] # RateMin
          PROVE  max_count[p] * rate[p] <= Frequency(reg_a)
      <3>1. reg_b /\ reg_a \in 1 .. 15 /\ Frequency(reg_a) >= rtc_rate
        BY <2>1, <2>2 DEF RtcInv, Asked, Holds
      <3>2. Frequency(reg_a) \in Int
        BY <3>1, FrequencyType
      <3>3. rtc_rate \in Int /\ rtc_rate >= 0 /\ rate[p] \in Int
        BY DEF RtcInv, RtcType, Accepted, PowersOfTwo, IntMin
      <3>4. Divided(p)
        BY DEF RtcInv, Quiet, InCall, Divisible, Updating
      <3>5. max_count[p] * rate[p] = 0 \/ max_count[p] * rate[p] = rtc_rate
        BY <2>2, <3>3, <3>4 DEF Divided
      <3> QED
        BY <3>1, <3>2, <3>3, <3>5
    <2> QED
      BY <2>1, <2>2
  <1> QED
    BY <1>1, RtcInvariant, PTL
=============================================================================
