--------------------------- MODULE TerminalProofs ---------------------------
(***************************************************************************)
(* Proofs about module Terminal, for every buffer size and alphabet.       *)
(***************************************************************************)
EXTENDS TerminalRefinement, SequenceTheorems, TLAPS

(* The counters between two Enters: a line being edited leaves room for the *)
(* newline, and nothing typed is pending once Enter was hit.                *)
Counters ==
    /\ reading <=> pc \in {"start", "spin", "copied"}
    /\ ~Taken => buf_count <= LineBufMax - 2
    /\ Taken \/ pc \in {"copied", "done"} => input_len = 0

(* Reads take at least one byte. *)
Positive == pc # "idle" => nbytes >= 1

BufferInv == TypeOK /\ BufferSafe /\ Counters /\ RestIsClear /\ Positive

(* The 16 bits of buf_count do not wrap inside the buffer. *)
LEMMA NoWrap ==
    /\ UInt16 \in Nat
    /\ \A k \in Nat : k < UInt16 => k % UInt16 = k
  BY SMT DEF UInt16

(* kybd_init establishes the invariant. *)
LEMMA BufferInit == Init => BufferInv
  <1> SUFFICES ASSUME Init PROVE BufferInv
    OBVIOUS
  <1>1. TypeOK
    <2>1. 0 \in Count /\ 0 \in 0 .. LineBufMax /\ 0 \in Int
      BY TerminalAssumption, NoWrap DEF Count
    <2>2. [i \in Cells |-> NUL] \in [Cells -> Chars \cup {NL, NUL}]
      OBVIOUS
    <2> QED BY <2>1, <2>2, Zenon DEF Init, TypeOK
  <1>2. BufferSafe /\ Counters /\ Positive
    BY TerminalAssumption DEF Init, BufferSafe, Counters, Taken, Positive
  <1>3. RestIsClear
    BY DEF Init, RestIsClear
  <1> QED BY <1>1, <1>2, <1>3 DEF BufferInv

(* Storing v at the end of the text, cell k, keeps the buffer well formed.  *)
LEMMA AppendOK ==
    ASSUME TypeOK, BufferSafe, RestIsClear, buf_count \in Cells,
           NEW v \in Chars \cup {NL, NUL},
           line_buf' = [line_buf EXCEPT ![buf_count] = v],
           buf_count' = buf_count + 1
    PROVE  /\ line_buf' \in [Cells -> Chars \cup {NL, NUL}]
           /\ buf_count' \in Count
           /\ RestIsClear'
  <1>1. line_buf' \in [Cells -> Chars \cup {NL, NUL}]
    BY DEF TypeOK
  <1>2. buf_count' \in Count
    BY TerminalAssumption, NoWrap DEF TypeOK, Cells, Count
  <1>3. \A i \in Cells : i >= buf_count' => line_buf'[i] = NUL
    BY TerminalAssumption, NoWrap DEF TypeOK, BufferSafe, RestIsClear, Cells, Count
  <1> QED BY <1>1, <1>2, <1>3 DEF RestIsClear

(* Every step of a key or of the reader keeps the invariant. *)
LEMMA BufferStep ==
    ASSUME ~TypeAhead, ~BadBuffers, 0 \notin ReadSizes
    PROVE  BufferInv /\ [Next]_vars => BufferInv'
  <1> SUFFICES ASSUME BufferInv, [Next]_vars
               PROVE  BufferInv'
    OBVIOUS
  <1>a. TypeOK /\ BufferSafe /\ Counters /\ RestIsClear /\ Positive
    BY DEF BufferInv
  <1>b. buf_count \in Nat /\ input_len \in Nat /\ nbytes \in Nat /\ LineBufMax \in Nat
        /\ UInt16 \in Nat /\ LineBufMax >= 3 /\ LineBufMax < UInt16 /\ nbytes <= LineBufMax
    BY <1>a, TerminalAssumption, NoWrap DEF TypeOK, BufferSafe, Count
  <1>1. CASE KeyReturn
    <2>0. UNCHANGED <<reading, pc, nbytes>> /\ hit_enter' = TRUE /\ input_len' = 0
          /\ (pc = "idle" \/ (pc = "spin" /\ ~hit_enter))
      BY <1>1 DEF KeyReturn, KeyArrives, readerVars
    <2>c. buf_count <= LineBufMax - 2 /\ buf_count \in Cells
      BY <2>0, <1>a, <1>b DEF Counters, Taken, Cells
    <2>1. CASE reading
      <3>1. pc = "spin" /\ ~hit_enter
        BY <2>0, <2>1, <1>a DEF Counters
      <3>2. buf_count' = (buf_count + 1) % UInt16 /\ smashed' = "no"
            /\ line_buf' = [line_buf EXCEPT ![buf_count] = NL]
        BY <1>1, <2>1, <2>c DEF KeyReturn, Store
      <3>3. buf_count' = buf_count + 1
        BY <3>2, <2>c, <1>b, NoWrap
      <3>4. /\ line_buf' \in [Cells -> Chars \cup {NL, NUL}] /\ buf_count' \in Count
            /\ RestIsClear'
        BY <3>2, <3>3, <2>c, <1>a, AppendOK
      <3>5. TypeOK'
        BY <3>2, <3>4, <2>0, <1>a DEF TypeOK
      <3>6. BufferSafe' /\ Counters' /\ Positive'
        BY <3>1, <3>2, <3>3, <2>0, <2>c, <1>a, <1>b
           DEF BufferSafe, Counters, Taken, Positive
      <3> QED BY <3>4, <3>5, <3>6 DEF BufferInv
    <2>2. CASE ~reading
      <3>1. /\ line_buf' = [i \in Cells |-> NUL] /\ buf_count' = 0 /\ smashed' = "no"
        BY <1>1, <2>2, <2>c DEF KeyReturn
      <3>2. pc = "idle"
        BY <2>0, <2>2, <1>a DEF Counters
      <3>3. TypeOK'
        BY <3>1, <2>0, <1>a, <1>b DEF TypeOK, Count
      <3>4. BufferSafe' /\ Counters' /\ Positive' /\ RestIsClear'
        BY <3>1, <3>2, <2>0, <1>a, <1>b
           DEF BufferSafe, Counters, Taken, Positive, RestIsClear
      <3> QED BY <3>3, <3>4 DEF BufferInv
    <2> QED BY <2>1, <2>2
  <1>2. CASE KeyBackspace
    <2>0. UNCHANGED <<reading, pc, nbytes, hit_enter>> /\ input_len' = input_len - 1
          /\ input_len # 0 /\ (pc = "idle" \/ (pc = "spin" /\ ~hit_enter))
      BY <1>2 DEF KeyBackspace, KeyArrives, readerVars
    <2>1. buf_count >= 1 /\ buf_count <= LineBufMax - 2 /\ input_len >= 1
          /\ input_len <= buf_count /\ buf_count - 1 \in Cells /\ buf_count - 1 \in Nat
      BY <2>0, <1>a, <1>b DEF Counters, Taken, BufferSafe, Cells
    <2>2. buf_count' = buf_count - 1
      <3>1. buf_count' = (buf_count - 1) % UInt16
        BY <1>2 DEF KeyBackspace
      <3> QED BY <3>1, <2>1, <1>b, NoWrap
    <2>3. line_buf' = [line_buf EXCEPT ![buf_count - 1] = NUL] /\ smashed' = "no"
      BY <1>2, <2>1, <2>2 DEF KeyBackspace, Store
    <2>4. TypeOK'
      BY <2>0, <2>1, <2>2, <2>3, <1>a, <1>b DEF TypeOK, Count
    <2>5. BufferSafe' /\ Counters' /\ Positive'
      BY <2>0, <2>1, <2>2, <2>3, <1>a, <1>b DEF BufferSafe, Counters, Taken, Positive
    <2>6. RestIsClear'
      BY <2>1, <2>2, <2>3, <1>a, <1>b DEF RestIsClear, TypeOK, BufferSafe, Cells
    <2> QED BY <2>4, <2>5, <2>6 DEF BufferInv
  <1>3. ASSUME NEW c \in Chars, KeyChar(c) PROVE BufferInv'
    <2>0. UNCHANGED <<reading, pc, nbytes, hit_enter>> /\ input_len' = input_len + 1
          /\ buf_count' = buf_count + 1 /\ buf_count < LineBufMax - 2
          /\ (pc = "idle" \/ (pc = "spin" /\ ~hit_enter))
      BY <1>3, <1>b DEF KeyChar, KeyArrives, RoomForChar, readerVars
    <2>1. buf_count \in Cells
      BY <2>0, <1>b DEF Cells
    <2>2. line_buf' = [line_buf EXCEPT ![buf_count] = c] /\ smashed' = "no"
      BY <1>3, <2>1 DEF KeyChar, Store
    <2>3. /\ line_buf' \in [Cells -> Chars \cup {NL, NUL}] /\ buf_count' \in Count
          /\ RestIsClear'
      BY <2>0, <2>1, <2>2, <1>a, AppendOK
    <2>4. TypeOK'
      BY <2>0, <2>2, <2>3, <1>a DEF TypeOK
    <2>5. BufferSafe' /\ Counters' /\ Positive'
      BY <2>0, <2>2, <1>a, <1>b DEF BufferSafe, Counters, Taken, Positive
    <2> QED BY <2>3, <2>4, <2>5 DEF BufferInv
  <1>4. ASSUME NEW n \in ReadSizes, ReadStart(n) PROVE BufferInv'
    <2>1. n \in Nat /\ n >= 1
      BY TerminalAssumption
    <2>2. nbytes' \in 1 .. LineBufMax
      BY <1>4, <2>1, <1>b DEF ReadStart
    <2>3. /\ pc = "idle" /\ pc' = "start" /\ reading' = TRUE
          /\ UNCHANGED <<line_buf, buf_count, input_len, hit_enter, smashed>>
      BY <1>4 DEF ReadStart, Goto, bufVars
    <2>4. TypeOK'
      BY <2>2, <2>3, <1>a, <1>b DEF TypeOK
    <2>5. BufferSafe' /\ Counters' /\ Positive' /\ RestIsClear'
      BY <2>2, <2>3, <1>a, <1>b
         DEF BufferSafe, Counters, Taken, Positive, RestIsClear
    <2> QED BY <2>4, <2>5 DEF BufferInv
  <1>5. CASE ReadCopy
    <2> DEFINE diff == IF buf_count > nbytes THEN buf_count - nbytes ELSE 0
    <2>1. /\ buf_count' = diff /\ pc = "spin" /\ hit_enter /\ pc' = "copied"
          /\ line_buf' = [i \in Cells |->
                 IF i < diff THEN line_buf[i + nbytes]
                 ELSE IF i < diff + nbytes THEN NUL ELSE line_buf[i]]
          /\ UNCHANGED <<input_len, hit_enter, reading, nbytes, smashed>>
      BY <1>5 DEF ReadCopy, Goto
    <2>2. buf_count <= LineBufMax - 1 /\ nbytes >= 1 /\ input_len = 0
      BY <2>1, <1>a DEF Positive, BufferSafe, Counters, Taken
    <2>3. diff \in Nat /\ diff <= LineBufMax - 2 /\ diff + nbytes >= buf_count
          /\ (diff > 0 => diff + nbytes = buf_count)
      BY <2>2, <1>b
    <2> HIDE DEF diff
    <2>4. line_buf' \in [Cells -> Chars \cup {NL, NUL}]
      <3>1. ASSUME NEW i \in Cells, i < diff PROVE i + nbytes \in Cells
        BY <3>1, <2>2, <2>3, <1>b DEF Cells
      <3>2. line_buf \in [Cells -> Chars \cup {NL, NUL}]
        BY <1>a DEF TypeOK
      <3> QED BY <2>1, <3>1, <3>2
    <2>5. RestIsClear'
      <3>1. ASSUME NEW i \in Cells, i >= diff PROVE line_buf'[i] = NUL
        <4>1. i \in Nat
          BY <1>b DEF Cells
        <4>2. ~ (i < diff)
          BY <4>1, <3>1, <2>3
        <4>3. CASE i < diff + nbytes
          BY <4>2, <4>3, <2>1
        <4>4. CASE ~ (i < diff + nbytes)
          <5>1. i >= buf_count
            BY <4>1, <4>4, <2>3, <1>b
          <5>2. line_buf[i] = NUL
            BY <5>1, <1>a DEF RestIsClear, BufferSafe
          <5> QED BY <5>2, <4>2, <4>4, <2>1
        <4> QED BY <4>3, <4>4
      <3> QED BY <3>1, <2>1 DEF RestIsClear
    <2>6. TypeOK'
      BY <2>1, <2>3, <2>4, <1>a, <1>b DEF TypeOK, Count
    <2>7. BufferSafe' /\ Counters' /\ Positive'
      BY <2>1, <2>2, <2>3, <1>a, <1>b DEF BufferSafe, Counters, Taken, Positive
    <2> QED BY <2>5, <2>6, <2>7 DEF BufferInv
  <1>6. CASE ReadArm
    <2>1. /\ pc = "start" /\ pc' = "spin" /\ hit_enter' = FALSE
          /\ UNCHANGED <<line_buf, buf_count, input_len, reading, nbytes, smashed>>
      BY <1>6 DEF ReadArm, Goto, bufVars
    <2> QED BY <2>1, <1>a, <1>b
            DEF BufferInv, TypeOK, BufferSafe, Counters, Taken, Positive, RestIsClear
  <1>7. CASE ReadRelease
    <2>1. /\ pc = "copied" /\ pc' = "done" /\ reading' = FALSE
          /\ UNCHANGED <<line_buf, buf_count, input_len, hit_enter, nbytes, smashed>>
      BY <1>7 DEF ReadRelease, Goto, bufVars
    <2> QED BY <2>1, <1>a, <1>b
            DEF BufferInv, TypeOK, BufferSafe, Counters, Taken, Positive, RestIsClear
  <1>8. CASE ReadReturn
    <2>1. /\ pc = "done" /\ pc' = "idle" /\ hit_enter' = FALSE
          /\ UNCHANGED <<line_buf, buf_count, input_len, reading, nbytes, smashed>>
      BY <1>8 DEF ReadReturn, Goto, bufVars
    <2> QED BY <2>1, <1>a, <1>b
            DEF BufferInv, TypeOK, BufferSafe, Counters, Taken, Positive, RestIsClear
  <1>9. CASE UNCHANGED vars
    BY <1>9 DEF vars, bufVars, readerVars, BufferInv, TypeOK, BufferSafe, Counters,
       Taken, Positive, RestIsClear
  <1> QED BY <1>1, <1>2, <1>3, <1>4, <1>5, <1>6, <1>7, <1>8, <1>9 DEF Next, Reader, ReadFault

(* While keys come only between reads or to a waiting reader, every read    *)
(* asks for at least one byte and no copy faults, no key of update and no   *)
(* terminal_read leaves line_buf, whatever its size.                        *)
THEOREM BufferSafeHolds ==
    ASSUME ~TypeAhead, ~BadBuffers, 0 \notin ReadSizes
    PROVE  Spec => []BufferSafe
  <1>1. BufferInv => BufferSafe
    BY DEF BufferInv
  <1> QED BY <1>1, BufferInit, BufferStep, PTL DEF Spec

-----------------------------------------------------------------------------
(* The cells behind the text, whenever keys and reads come. *)

(* All that is needed: the counter leaves the buffer only by a missed store. *)
CellsInv == TypeOK /\ RestIsClear /\ (smashed = "no" => buf_count <= LineBufMax)

(* A key that stores v at cell i, at or behind the end of the text. *)
LEMMA StoreClear ==
    ASSUME CellsInv, smashed = "no", NEW key \in {"enter", "backspace", "char"},
           NEW i \in Count, NEW v \in Chars \cup {NL, NUL}, Store(i, v, key),
           buf_count' \in Count, i + 1 >= buf_count,
           buf_count' = i + 1 \/ (buf_count' = i /\ v = NUL) \/ i \notin Cells
    PROVE  /\ line_buf' \in [Cells -> Chars \cup {NL, NUL}]
           /\ smashed' \in {"no", "enter", "backspace", "char"}
           /\ RestIsClear'
           /\ smashed' = "no" => buf_count' <= LineBufMax
  <1>1. buf_count \in Nat /\ i \in Nat /\ LineBufMax \in Nat
    BY TerminalAssumption, NoWrap DEF CellsInv, TypeOK, Count
  <1>2. CASE i \in Cells
    <2>1. line_buf' = [line_buf EXCEPT ![i] = v] /\ smashed' = "no"
      BY <1>2 DEF Store
    <2>2. line_buf' \in [Cells -> Chars \cup {NL, NUL}]
      BY <2>1 DEF CellsInv, TypeOK
    <2>3. \A j \in Cells : j >= buf_count' => line_buf'[j] = NUL
      BY <1>1, <1>2, <2>1 DEF CellsInv, TypeOK, RestIsClear, Cells
    <2>4. buf_count' <= LineBufMax
      BY <1>1, <1>2 DEF Cells
    <2> QED
      BY <2>1, <2>2, <2>3, <2>4 DEF RestIsClear
  <1>3. CASE i \notin Cells
    BY <1>3 DEF Store, CellsInv, TypeOK, RestIsClear
  <1> QED
    BY <1>2, <1>3

LEMMA CellsStep == CellsInv /\ [Next]_vars => CellsInv'
  <1> SUFFICES ASSUME CellsInv, [Next]_vars PROVE CellsInv'
    OBVIOUS
  <1>a. /\ LineBufMax \in Nat /\ UInt16 \in Nat /\ LineBufMax < UInt16 /\ 3 <= LineBufMax
        /\ buf_count \in Nat /\ buf_count < UInt16 /\ nbytes \in Nat /\ input_len \in Int
    BY TerminalAssumption, NoWrap DEF CellsInv, TypeOK, Count
  <1>b. buf_count \in Count /\ 0 \in Count /\ buf_count + 1 >= buf_count
    BY <1>a DEF Count
  <1>1. CASE KeyReturn
    <2>1. /\ hit_enter' = TRUE /\ input_len' = 0 /\ smashed = "no"
          /\ UNCHANGED <<reading, pc, nbytes>>
      BY <1>1 DEF KeyReturn, KeyArrives, readerVars
    <2>2. CASE reading
      <3>1. Store(buf_count, NL, "enter") /\ buf_count' = (buf_count + 1) % UInt16
        BY <1>1, <2>2 DEF KeyReturn
      <3>2. buf_count' \in Count
        BY <3>1, <1>a DEF Count
      <3>3. buf_count' = buf_count + 1 \/ buf_count \notin Cells
        <4>1. buf_count \in Cells => buf_count + 1 < UInt16
          BY <1>a DEF Cells
        <4> QED
          BY <3>1, <4>1, <1>a, NoWrap
      <3>4. /\ line_buf' \in [Cells -> Chars \cup {NL, NUL}]
            /\ smashed' \in {"no", "enter", "backspace", "char"}
            /\ RestIsClear'
            /\ smashed' = "no" => buf_count' <= LineBufMax
        BY <2>1, <3>1, <3>2, <3>3, <1>b, StoreClear
      <3> QED
        BY <2>1, <3>2, <3>4 DEF CellsInv, TypeOK
    <2>3. CASE ~reading
      <3>1. /\ line_buf' = [i \in Cells |-> NUL] /\ buf_count' = 0
            /\ smashed' \in {"no", "enter", "backspace", "char"}
        BY <1>1, <2>3 DEF KeyReturn
      <3> QED
        BY <2>1, <3>1, <1>a, <1>b DEF CellsInv, TypeOK, RestIsClear
    <2> QED
      BY <2>2, <2>3
  <1>2. CASE KeyBackspace
    <2>1. /\ UNCHANGED <<reading, pc, nbytes, hit_enter>> /\ input_len' = input_len - 1
          /\ smashed = "no" /\ Store(buf_count', NUL, "backspace")
          /\ buf_count' = (buf_count - 1) % UInt16
      BY <1>2 DEF KeyBackspace, KeyArrives, readerVars
    <2>2. buf_count' \in Count /\ buf_count' + 1 >= buf_count
      <3>1. CASE buf_count = 0
        BY <3>1, <2>1, <1>a DEF Count
      <3>2. CASE buf_count # 0
        <4>1. buf_count - 1 \in Nat /\ buf_count - 1 < UInt16
          BY <3>2, <1>a
        <4>2. buf_count' = buf_count - 1
          BY <4>1, <2>1, NoWrap
        <4> QED
          BY <4>1, <4>2, <1>a DEF Count
      <3> QED
        BY <3>1, <3>2
    <2>3. /\ line_buf' \in [Cells -> Chars \cup {NL, NUL}]
          /\ smashed' \in {"no", "enter", "backspace", "char"}
          /\ RestIsClear'
          /\ smashed' = "no" => buf_count' <= LineBufMax
      BY <2>1, <2>2, StoreClear
    <2> QED
      BY <2>1, <2>2, <2>3, <1>a DEF CellsInv, TypeOK
  <1>3. ASSUME NEW c \in Chars, KeyChar(c) PROVE CellsInv'
    <2>1. /\ UNCHANGED <<reading, pc, nbytes, hit_enter>> /\ input_len' = input_len + 1
          /\ smashed = "no" /\ Store(buf_count, c, "char") /\ buf_count' = buf_count + 1
          /\ buf_count < LineBufMax - 1 - 1
      BY <1>3 DEF KeyChar, KeyArrives, RoomForChar, readerVars
    <2>2. buf_count' \in Count
      BY <2>1, <1>a DEF Count
    <2>3. /\ line_buf' \in [Cells -> Chars \cup {NL, NUL}]
          /\ smashed' \in {"no", "enter", "backspace", "char"}
          /\ RestIsClear'
          /\ smashed' = "no" => buf_count' <= LineBufMax
      BY <2>1, <2>2, <1>b, StoreClear
    <2> QED
      BY <2>1, <2>2, <2>3, <1>a DEF CellsInv, TypeOK
  <1>4. ASSUME NEW n \in ReadSizes, ReadStart(n) PROVE CellsInv'
    <2>1. n \in Nat
      BY TerminalAssumption
    <2>2. nbytes' \in 0 .. LineBufMax
      BY <1>4, <2>1, <1>a DEF ReadStart
    <2> QED
      BY <1>4, <2>2, <1>a DEF ReadStart, Goto, bufVars, CellsInv, TypeOK, RestIsClear
  <1>5. CASE ReadCopy
    <2> DEFINE diff == IF buf_count > nbytes THEN buf_count - nbytes ELSE 0
    <2>1. /\ buf_count' = diff /\ pc = "spin" /\ hit_enter /\ pc' = "copied"
          /\ line_buf' = [i \in Cells |->
                 IF i < diff THEN line_buf[i + nbytes]
                 ELSE IF i < diff + nbytes THEN NUL ELSE line_buf[i]]
          /\ smashed = "no" /\ UNCHANGED <<input_len, hit_enter, reading, nbytes, smashed>>
      BY <1>5 DEF ReadCopy, Goto
    <2>2. diff \in Nat /\ diff <= buf_count /\ diff + nbytes >= buf_count
          /\ (diff > 0 => diff + nbytes = buf_count) /\ buf_count <= LineBufMax
      BY <2>1, <1>a DEF CellsInv
    <2> HIDE DEF diff
    <2>3. line_buf' \in [Cells -> Chars \cup {NL, NUL}]
      <3>1. ASSUME NEW i \in Cells, i < diff PROVE i + nbytes \in Cells
        BY <3>1, <2>2, <1>a DEF Cells
      <3>2. line_buf \in [Cells -> Chars \cup {NL, NUL}]
        BY DEF CellsInv, TypeOK
      <3> QED
        BY <2>1, <3>1, <3>2
    <2>4. RestIsClear'
      <3>1. ASSUME NEW i \in Cells, i >= diff PROVE line_buf'[i] = NUL
        <4>1. i \in Nat /\ ~ (i < diff)
          BY <3>1, <2>2, <1>a DEF Cells
        <4>2. CASE i < diff + nbytes
          BY <4>1, <4>2, <2>1
        <4>3. CASE ~ (i < diff + nbytes)
          <5>1. i >= buf_count
            BY <4>1, <4>3, <2>2, <1>a
          <5>2. line_buf[i] = NUL
            BY <5>1, <2>1 DEF CellsInv, RestIsClear
          <5> QED
            BY <5>2, <4>1, <4>3, <2>1
        <4> QED
          BY <4>2, <4>3
      <3> QED
        BY <3>1, <2>1 DEF RestIsClear
    <2>5. buf_count' \in Count /\ buf_count' <= LineBufMax
      BY <2>1, <2>2, <1>a DEF Count
    <2> QED
      BY <2>1, <2>3, <2>4, <2>5 DEF CellsInv, TypeOK
  <1>6. CASE ReadArm \/ ReadRelease \/ ReadReturn \/ ReadFault
    BY <1>6 DEF ReadArm, ReadRelease, ReadReturn, ReadFault, Goto, bufVars, CellsInv, TypeOK,
       RestIsClear
  <1>7. CASE UNCHANGED vars
    BY <1>7 DEF vars, bufVars, readerVars, CellsInv, TypeOK, RestIsClear
  <1> QED
    BY <1>1, <1>2, <1>3, <1>4, <1>5, <1>6, <1>7 DEF Next, Reader

(* Whatever is typed ahead and whatever sizes are read, the cells behind the *)
(* text are clear until a store misses line_buf: terminal_read's move of the *)
(* unread rest leaves nothing of the old line.                               *)
THEOREM RestIsClearHolds == Spec => []RestIsClear
  <1>1. Init => CellsInv
    <2> SUFFICES ASSUME Init PROVE CellsInv
      OBVIOUS
    <2>1. TypeOK /\ RestIsClear
      BY BufferInit DEF BufferInv
    <2>2. buf_count <= LineBufMax
      BY TerminalAssumption DEF Init
    <2> QED
      BY <2>1, <2>2 DEF CellsInv
  <1>2. CellsInv => RestIsClear
    BY DEF CellsInv
  <1> QED
    BY <1>1, <1>2, CellsStep, PTL DEF Spec

-----------------------------------------------------------------------------
(* The refinement of LineEditor. *)

(* Reads take whole lines, and Enter leaves at least its newline. *)
WholeLines ==
    /\ pc # "idle" => nbytes = LineBufMax
    /\ Taken => buf_count >= 1

LineInv == BufferInv /\ WholeLines

(* The first n cells of a buffer as a sequence. *)
Prefix(b, n) == [i \in 1 .. n |-> b[i - 1]]

LEMMA PrefixSeq ==
    ASSUME NEW S, NEW b \in [Cells -> S], NEW n \in 0 .. LineBufMax
    PROVE  /\ Prefix(b, n) \in Seq(S)
           /\ Len(Prefix(b, n)) = n
           /\ n = 0 <=> Prefix(b, n) = <<>>
  <1>1. \A i \in 1 .. n : b[i - 1] \in S
    BY TerminalAssumption DEF Cells
  <1> QED
    BY <1>1, TerminalAssumption DEF Prefix

(* A character stored behind the line is appended to it ... *)
LEMMA PrefixAppend ==
    ASSUME NEW S, NEW b \in [Cells -> S], NEW n \in Cells, NEW v \in S
    PROVE  Prefix([b EXCEPT ![n] = v], n + 1) = Append(Prefix(b, n), v)
  <1>1. Prefix(b, n) \in Seq(S) /\ Len(Prefix(b, n)) = n
    BY PrefixSeq, TerminalAssumption DEF Cells
  <1>2. /\ Append(Prefix(b, n), v) \in Seq(S)
        /\ Len(Append(Prefix(b, n), v)) = n + 1
        /\ \A i \in 1 .. n : Append(Prefix(b, n), v)[i] = b[i - 1]
        /\ Append(Prefix(b, n), v)[n + 1] = v
    <2> DEFINE q == Prefix(b, n)
    <2>1. q \in Seq(S) /\ Len(q) = n /\ n \in Nat
      BY <1>1, TerminalAssumption DEF Cells
    <2>2. \A i \in 1 .. n : q[i] = b[i - 1]
      BY DEF Prefix
    <2> HIDE DEF q
    <2>3. /\ Append(q, v) \in Seq(S) /\ Len(Append(q, v)) = n + 1
          /\ \A i \in 1 .. n : Append(q, v)[i] = q[i]
          /\ Append(q, v)[n + 1] = v
      BY <2>1, AppendProperties
    <2> QED
      BY <2>2, <2>3 DEF q
  <1> DEFINE c == [b EXCEPT ![n] = v]
  <1>3. /\ c \in [Cells -> S] /\ c[n] = v
        /\ \A i \in 1 .. n : c[i - 1] = b[i - 1]
        /\ n + 1 \in 0 .. LineBufMax
    BY TerminalAssumption DEF Cells
  <1> HIDE DEF c
  <1>4. Prefix(c, n + 1) \in Seq(S) /\ Len(Prefix(c, n + 1)) = n + 1
    BY <1>3, PrefixSeq
  <1>5. \A i \in 1 .. n + 1 : Prefix(c, n + 1)[i] = Append(Prefix(b, n), v)[i]
    <2> SUFFICES ASSUME NEW i \in 1 .. n + 1
                 PROVE  c[i - 1] = Append(Prefix(b, n), v)[i]
      BY DEF Prefix
    <2>1. i \in 1 .. n \/ i = n + 1
      BY TerminalAssumption DEF Cells
    <2>2. (n + 1) - 1 = n
      BY TerminalAssumption DEF Cells
    <2> QED
      BY <2>1, <2>2, <1>2, <1>3
  <1>6. Prefix(c, n + 1) = Append(Prefix(b, n), v)
    BY <1>2, <1>4, <1>5, SeqEqual
  <1> QED
    BY <1>6 DEF c

(* ... and clearing the last cell of the line takes its last character off. *)
LEMMA PrefixFront ==
    ASSUME NEW S, NEW b \in [Cells -> S], NEW n \in 1 .. LineBufMax, NEW v \in S
    PROVE  Prefix([b EXCEPT ![n - 1] = v], n - 1) = LE!Front(Prefix(b, n))
  <1>1. Prefix(b, n) \in Seq(S) /\ Len(Prefix(b, n)) = n
    BY PrefixSeq, TerminalAssumption
  <1> DEFINE c == [b EXCEPT ![n - 1] = v]
  <1>2. /\ c \in [Cells -> S] /\ n - 1 \in 0 .. LineBufMax
        /\ \A i \in 1 .. n - 1 : c[i - 1] = b[i - 1]
    BY TerminalAssumption DEF Cells
  <1> HIDE DEF c
  <1>3. Prefix(c, n - 1) \in Seq(S) /\ Len(Prefix(c, n - 1)) = n - 1
    BY <1>2, PrefixSeq
  <1>4. /\ LE!Front(Prefix(b, n)) \in Seq(S)
        /\ Len(LE!Front(Prefix(b, n))) = n - 1
        /\ \A i \in 1 .. n - 1 : LE!Front(Prefix(b, n))[i] = b[i - 1]
    BY <1>1, TerminalAssumption DEF Prefix, LE!Front
  <1>5. \A i \in 1 .. n - 1 : Prefix(c, n - 1)[i] = LE!Front(Prefix(b, n))[i]
    BY <1>2, <1>4 DEF Prefix
  <1>6. Prefix(c, n - 1) = LE!Front(Prefix(b, n))
    BY <1>3, <1>4, <1>5, SeqEqual
  <1> QED
    BY <1>6 DEF c

LEMMA LineInit == Init => LineInv
  BY BufferInit DEF Init, LineInv, WholeLines, Taken

(* The invariant with whole-line reads. *)
LEMMA LineStep ==
    ASSUME ~TypeAhead, ~BadBuffers, \A n \in ReadSizes : n >= LineBufMax
    PROVE  LineInv /\ [Next]_vars => LineInv'
  <1>1. 0 \notin ReadSizes
    BY TerminalAssumption
  <1> SUFFICES ASSUME LineInv, [Next]_vars PROVE LineInv'
    OBVIOUS
  <1>2. BufferInv'
    BY <1>1, BufferStep DEF LineInv
  <1>3. BufferInv /\ WholeLines /\ buf_count \in Nat
    BY DEF LineInv, BufferInv, TypeOK, Count
  <1>4. WholeLines'
    <2>1. CASE KeyReturn
      <3>1. pc' = pc /\ nbytes' = nbytes
        BY <2>1 DEF KeyReturn, readerVars
      <3>2. CASE reading
        <4>1. buf_count + 1 < UInt16
          BY <1>3, TerminalAssumption, NoWrap DEF BufferInv, BufferSafe
        <4>2. buf_count' = buf_count + 1
          BY <2>1, <3>2, <4>1, <1>3, NoWrap DEF KeyReturn
        <4> QED
          BY <3>1, <4>2, <1>3 DEF WholeLines
      <3>3. CASE ~reading
        BY <3>1, <3>3, <1>3 DEF WholeLines, Taken, BufferInv, Counters
      <3> QED
        BY <3>2, <3>3
    <2>2. CASE KeyBackspace
      BY <2>2, <1>3 DEF KeyBackspace, KeyArrives, readerVars, WholeLines, Taken
    <2>3. ASSUME NEW c \in Chars, KeyChar(c) PROVE WholeLines'
      BY <2>3, <1>3 DEF KeyChar, KeyArrives, readerVars, WholeLines, Taken
    <2>4. ASSUME NEW n \in ReadSizes, ReadStart(n) PROVE WholeLines'
      <3>1. n \in Nat /\ n >= LineBufMax /\ LineBufMax \in Nat
        BY TerminalAssumption
      <3> QED
        BY <2>4, <3>1 DEF ReadStart, Goto, WholeLines, Taken
    <2>5. CASE Reader
      BY <2>5, <1>3 DEF Reader, ReadArm, ReadCopy, ReadRelease, ReadReturn, Goto,
         bufVars,
         WholeLines, Taken
    <2>6. CASE UNCHANGED vars
      BY <2>6, <1>3 DEF vars, bufVars, readerVars, WholeLines, Taken
    <2> QED
      BY <2>1, <2>2, <2>3, <2>4, <2>5, <2>6 DEF Next, ReadFault
  <1> QED
    BY <1>2, <1>4 DEF LineInv

(* The abstract state that a state of the terminal stands for. *)
LEMMA Abstracted ==
    ASSUME LineInv
    PROVE  /\ line_buf \in [Cells -> Chars \cup {NL, NUL}]
           /\ buf_count \in 0 .. LineBufMax - 1
           /\ Line(buf_count) = Prefix(line_buf, buf_count)
           /\ Len(Line(buf_count)) = buf_count
           /\ Line(buf_count) = <<>> <=> buf_count = 0
  <1>1. line_buf \in [Cells -> Chars \cup {NL, NUL}] /\ buf_count \in 0 .. LineBufMax - 1
    BY TerminalAssumption DEF LineInv, BufferInv, TypeOK, BufferSafe, Count
  <1>2. Line(buf_count) = Prefix(line_buf, buf_count)
    BY DEF Line, Prefix
  <1>3. buf_count \in 0 .. LineBufMax
    BY <1>1, TerminalAssumption
  <1> QED
    BY <1>1, <1>2, <1>3, PrefixSeq

(* Every key and every step of a read is a step of LineEditor, or none. *)
LEMMA LineEditorStep ==
    ASSUME ~TypeAhead, ~BadBuffers, LineInv, LineInv', [Next]_vars
    PROVE  [LE!Next]_LE!vars
  <1>a. /\ LineBufMax \in Nat /\ 3 <= LineBufMax /\ LineBufMax < UInt16
        /\ line_buf \in [Cells -> Chars \cup {NL, NUL}]
        /\ buf_count \in 0 .. LineBufMax - 1 /\ buf_count' \in 0 .. LineBufMax - 1
        /\ smashed = "no" /\ smashed' = "no"
    BY Abstracted, TerminalAssumption
       DEF LineInv, BufferInv, BufferSafe, TypeOK, Count
  <1> DEFINE S == Chars \cup {NL, NUL}
  <1>b. line_buf \in [Cells -> S] /\ NL \in S /\ NUL \in S /\ \A c \in Chars : c \in S
    BY <1>a
  <1> HIDE DEF S
  <1>c. /\ Line(buf_count) = Prefix(line_buf, buf_count)
        /\ Len(Line(buf_count)) = buf_count
        /\ Line(buf_count) = <<>> <=> buf_count = 0
    BY Abstracted
  <1>d. /\ Line(buf_count)' = Prefix(line_buf', buf_count')
        /\ Line(buf_count)' = <<>> <=> buf_count' = 0
    <2>1. Line(buf_count)' = Prefix(line_buf', buf_count')
      BY DEF Line, Prefix
    <2>2. line_buf' \in [Cells -> Chars \cup {NL, NUL}] /\ buf_count' \in 0 .. LineBufMax
      BY <1>a DEF LineInv, BufferInv, TypeOK, S
    <2> QED
      BY <2>1, <2>2, PrefixSeq
  <1>1. CASE KeyReturn
    <2>1. UNCHANGED <<pc, result>> /\ hit_enter' = TRUE
      BY <1>1 DEF KeyReturn, readerVars
    <2>2. CASE reading
      <3>1. pc = "spin" /\ ~hit_enter
        BY <1>1, <2>2 DEF KeyReturn, KeyArrives, LineInv, BufferInv, Counters
      <3>2. buf_count \in Cells
        BY <3>1, <1>a DEF LineInv, BufferInv, Counters, Cells
      <3>3. buf_count' = buf_count + 1 /\ line_buf' = [line_buf EXCEPT ![buf_count] = NL]
        <4>1. (buf_count + 1) % UInt16 = buf_count + 1
          BY <1>a, NoWrap
        <4> QED
          BY <1>1, <2>2, <3>2, <4>1 DEF KeyReturn, Store
      <3>4. Line(buf_count)' = Append(Line(buf_count), NL)
        <4>1. Prefix([line_buf EXCEPT ![buf_count] = NL], buf_count + 1)
                = Append(Prefix(line_buf, buf_count), NL)
          BY <3>2, <1>b, PrefixAppend
        <4> QED
          BY <3>3, <4>1, <1>c, <1>d
      <3>5. LE!Enter
        BY <2>1, <3>1, <3>4 DEF LE!Enter, Taken
      <3> QED
        BY <3>5 DEF LE!Next
    <2>3. CASE ~reading
      <3>1. pc = "idle"
        BY <1>1, <2>3 DEF KeyReturn, KeyArrives, LineInv, BufferInv, Counters
      <3>2. buf_count' = 0
        BY <1>1, <2>3 DEF KeyReturn
      <3>3. LE!Enter
        BY <2>1, <3>1, <3>2, <1>d DEF LE!Enter, Taken
      <3> QED
        BY <3>3 DEF LE!Next
    <2> QED
      BY <2>2, <2>3
  <1>2. CASE KeyBackspace
    <2>1. UNCHANGED <<pc, result, hit_enter>> /\ ~Taken
      BY <1>2 DEF KeyBackspace, KeyArrives, readerVars, Taken
    <2>2. buf_count >= 1 /\ buf_count - 1 \in Cells
      BY <1>2, <1>a DEF KeyBackspace, LineInv, BufferInv, BufferSafe, TypeOK, Cells
    <2>3. buf_count' = buf_count - 1
      BY <1>2, <2>2, <1>a, NoWrap DEF KeyBackspace
    <2>4. line_buf' = [line_buf EXCEPT ![buf_count - 1] = NUL]
      BY <1>2, <2>2, <2>3 DEF KeyBackspace, Store
    <2>5. Line(buf_count)' = LE!Front(Line(buf_count))
      <3>1. Prefix([line_buf EXCEPT ![buf_count - 1] = NUL], buf_count - 1)
              = LE!Front(Prefix(line_buf, buf_count))
        <4>1. buf_count \in 1 .. LineBufMax
          BY <2>2, <1>a
        <4> QED
          BY <4>1, <1>b, PrefixFront
      <3> QED
        BY <2>3, <2>4, <3>1, <1>c, <1>d
    <2>6. LE!Erase
      BY <2>1, <2>2, <2>5, <1>a, <1>c DEF LE!Erase, Taken
    <2> QED
      BY <2>6 DEF LE!Next
  <1>3. ASSUME NEW c \in Chars, KeyChar(c) PROVE [LE!Next]_LE!vars
    <2>1. UNCHANGED <<pc, result, hit_enter>> /\ ~Taken
      BY <1>3 DEF KeyChar, KeyArrives, readerVars, Taken
    <2>2. buf_count < LineBufMax - 2 /\ buf_count \in Cells
      BY <1>3, <1>a DEF KeyChar, RoomForChar, Cells
    <2>3. buf_count' = buf_count + 1 /\ line_buf' = [line_buf EXCEPT ![buf_count] = c]
      BY <1>3, <2>2 DEF KeyChar, Store
    <2>4. Line(buf_count)' = Append(Line(buf_count), c)
      <3>1. Prefix([line_buf EXCEPT ![buf_count] = c], buf_count + 1)
              = Append(Prefix(line_buf, buf_count), c)
        BY <2>2, <1>b, PrefixAppend
      <3> QED
        BY <2>3, <3>1, <1>c, <1>d
    <2>5. LE!Type(c)
      BY <2>1, <2>2, <2>4, <1>c DEF LE!Type, Taken
    <2> QED
      BY <2>5 DEF LE!Next
  <1>4. ASSUME NEW n \in ReadSizes, ReadStart(n) PROVE [LE!Next]_LE!vars
    <2>1. /\ pc = "idle" /\ pc' = "start"
          /\ UNCHANGED <<line_buf, buf_count, hit_enter, result>>
      BY <1>4 DEF ReadStart, Goto, bufVars
    <2>2. LE!Wait
      BY <2>1, <1>c, <1>d DEF LE!Wait, Taken
    <2> QED
      BY <2>2 DEF LE!Next
  <1>5. CASE ReadCopy
    <2>1. pc = "spin" /\ pc' = "copied" /\ hit_enter /\ nbytes = LineBufMax /\ buf_count >= 1
      BY <1>5 DEF ReadCopy, Goto, LineInv, WholeLines, Taken
    <2>2. ~ (buf_count > nbytes) /\ nbytes > buf_count
      BY <2>1, <1>a
    <2>3. buf_count' = 0 /\ result' = Line(buf_count)
      BY <1>5, <2>2 DEF ReadCopy
    <2>4. LE!Deliver
      BY <2>1, <2>3, <1>a, <1>c, <1>d DEF LE!Deliver, Taken
    <2> QED
      BY <2>4 DEF LE!Next
  <1>6. CASE ReadArm \/ ReadRelease \/ ReadReturn
    <2>1. /\ ~Taken /\ ~Taken'
          /\ pc \in {"start", "spin"} <=> pc' \in {"start", "spin"}
          /\ UNCHANGED <<line_buf, buf_count, result>>
      BY <1>6 DEF ReadArm, ReadRelease, ReadReturn, Goto, bufVars, Taken
    <2> QED
      BY <2>1, <1>c, <1>d DEF LE!vars
  <1>7. CASE UNCHANGED vars
    BY <1>7, <1>c, <1>d DEF vars, bufVars, readerVars, LE!vars, Taken
  <1> QED
    BY <1>1, <1>2, <1>3, <1>4, <1>5, <1>6, <1>7 DEF Next, Reader, ReadFault

(* Terminal implements LineEditor for every buffer size and alphabet, when   *)
(* programs read whole lines into memory of their own and keys come only     *)
(* between reads or to a waiting reader: terminal_read returns exactly the   *)
(* lines that were edited and entered while it waited, in order and once     *)
(* each.                                                                     *)
THEOREM RefinesLineEditorHolds ==
    ASSUME ~TypeAhead, ~BadBuffers, \A n \in ReadSizes : n >= LineBufMax
    PROVE  Spec => RefinesLineEditor
  <1>1. Init => LE!Init
    <2> SUFFICES ASSUME Init PROVE LE!Init
      OBVIOUS
    <2>1. Line(buf_count) = <<>>
      BY Abstracted, LineInit DEF Init
    <2> QED
      BY <2>1 DEF Init, LE!Init, Taken
  <1>2. LineInv /\ LineInv' /\ [Next]_vars => [LE!Next]_LE!vars
    BY LineEditorStep
  <1> QED
    BY <1>1, <1>2, LineInit, LineStep, PTL DEF Spec, RefinesLineEditor, LE!Spec
=============================================================================
