------------------------------ MODULE Terminal ------------------------------
(***************************************************************************)
(* The line discipline of one terminal (devices/keyboard.c): update, run   *)
(* by the keyboard interrupt, fills line_buf; terminal_read, run by the    *)
(* program on that terminal with interrupts on except for its copy, waits  *)
(* for Enter and takes the line.  The two share line_buf, buf_count,       *)
(* input_len, hit_enter and reading without a lock, so every access of     *)
(* terminal_read is a step of its own.  The echo on the screen is left out.*)
(***************************************************************************)
EXTENDS Integers, Sequences

CONSTANTS
    LineBufMax,   \* LINE_BUF_MAX, devices/keyboard.h
    Chars,        \* printable characters
    NL, NUL,      \* '\n' and NULL_CHAR
    ReadSizes,    \* the nbytes programs pass to terminal_read
    TypeAhead,    \* may keys arrive while terminal_read is not waiting?
    BadBuffers    \* may programs pass terminal_read a buffer that is not theirs?

UInt16 == 65536     \* uint16_t arithmetic is modulo this

ASSUME TerminalAssumption ==
    /\ LineBufMax \in Nat /\ 3 <= LineBufMax /\ LineBufMax < UInt16
    /\ NL \notin Chars /\ NUL \notin Chars /\ NL # NUL
    /\ ReadSizes \subseteq Nat
    /\ TypeAhead \in BOOLEAN
    /\ BadBuffers \in BOOLEAN

Cells == 0 .. LineBufMax - 1
Count == 0 .. UInt16 - 1

VARIABLES
    line_buf,    \* the buffer, cell by cell
    buf_count,   \* uint16_t: where the next character goes
    input_len,   \* characters typed since the last Enter
    hit_enter,
    reading,
    pc,          \* where the reader is in terminal_read, "idle" outside of it
    nbytes,      \* its argument
    result,      \* what its last call returned
    smashed      \* "no", or the key whose store missed line_buf; what the
                 \* memory behind line_buf then holds is undefined

bufVars    == <<line_buf, buf_count, input_len>>
readerVars == <<pc, nbytes, result>>
vars == <<bufVars, hit_enter, reading, readerVars, smashed>>

Line(n) == [i \in 1 .. n |-> line_buf[i - 1]]   \* the first n cells

-----------------------------------------------------------------------------
(* update(key).  Calm typing comes when nobody reads, or while the reader   *)
(* waits for Enter.                                                         *)

KeyArrives ==
    /\ smashed = "no"
    /\ TypeAhead \/ pc = "idle" \/ (pc = "spin" /\ ~hit_enter)

(* Store value v in cell i; key is what was pressed. *)
Store(i, v, key) ==
    /\ line_buf' = IF i \in Cells THEN [line_buf EXCEPT ![i] = v] ELSE line_buf
    /\ smashed' = IF i \in Cells THEN "no" ELSE key

KeyReturn ==
    /\ KeyArrives
    /\ hit_enter' = TRUE
    /\ input_len' = 0
    /\ IF reading
       THEN /\ Store(buf_count, NL, "enter")
            /\ buf_count' = (buf_count + 1) % UInt16
       ELSE \* the newline is stored, then the whole buffer is cleared
            /\ line_buf' = [i \in Cells |-> NUL]
            /\ buf_count' = 0
            /\ smashed' = IF buf_count \in Cells THEN "no" ELSE "enter"
    /\ UNCHANGED <<reading, readerVars>>

KeyBackspace ==
    /\ KeyArrives
    /\ input_len # 0
    /\ buf_count' = (buf_count - 1) % UInt16
    /\ input_len' = input_len - 1
    /\ Store(buf_count', NUL, "backspace")
    /\ UNCHANGED <<hit_enter, reading, readerVars>>

RoomForChar_OffByTwo == buf_count < LineBufMax   \* variant: no room for '\n'

RoomForChar == buf_count < LineBufMax - 1 - 1

KeyChar_ClearsEnter(c) ==   \* variant: a new character starts a new line
    /\ KeyArrives
    /\ RoomForChar
    /\ Store(buf_count, c, "char")
    /\ buf_count' = buf_count + 1
    /\ input_len' = input_len + 1
    /\ hit_enter' = FALSE
    /\ UNCHANGED <<reading, readerVars>>

KeyChar(c) ==
    /\ KeyArrives
    /\ RoomForChar
    /\ Store(buf_count, c, "char")
    /\ buf_count' = buf_count + 1
    /\ input_len' = input_len + 1
    /\ UNCHANGED <<hit_enter, reading, readerVars>>

-----------------------------------------------------------------------------
(* terminal_read, one step per access to the shared fields. *)

Goto(from, to) == smashed = "no" /\ pc = from /\ pc' = to

ReadStart(n) ==
    /\ Goto("idle", "start")
    /\ nbytes' = IF n > LineBufMax THEN LineBufMax ELSE n
    /\ reading' = TRUE
    /\ UNCHANGED <<bufVars, hit_enter, result, smashed>>

ReadArm ==
    /\ Goto("start", "spin")
    /\ hit_enter' = FALSE
    /\ UNCHANGED <<bufVars, reading, nbytes, result, smashed>>

ReadCopy_KeepRest ==     \* variant: the unread rest is not moved to the front
    /\ Goto("spin", "copied")
    /\ hit_enter
    /\ LET n    == nbytes
           diff == IF buf_count > n THEN buf_count - n ELSE 0
       IN  /\ result' = Line(IF n > buf_count THEN buf_count ELSE n)
           /\ line_buf' = line_buf
           /\ buf_count' = diff
    /\ UNCHANGED <<input_len, hit_enter, reading, nbytes, smashed>>

ReadCopy_NoReset ==      \* variant: the line read stays in the buffer
    /\ Goto("spin", "copied")
    /\ hit_enter
    /\ result' = Line(IF nbytes > buf_count THEN buf_count ELSE nbytes)
    /\ UNCHANGED <<bufVars, hit_enter, reading, nbytes, smashed>>

(* The loop has seen hit_enter; from cli() to sti() nothing interrupts.     *)
(* The unread rest moves to the front and the cells behind it are cleared.  *)
ReadCopy ==
    /\ Goto("spin", "copied")
    /\ hit_enter
    /\ LET n    == nbytes
           diff == IF buf_count > n THEN buf_count - n ELSE 0
       IN  /\ result' = Line(IF n > buf_count THEN buf_count ELSE n)
           /\ line_buf' = [i \in Cells |->
                 IF i < diff THEN line_buf[i + n]
                 ELSE IF i < diff + n THEN NUL ELSE line_buf[i]]
           /\ buf_count' = diff
    /\ UNCHANGED <<input_len, hit_enter, reading, nbytes, smashed>>

(* The memcpy into a buffer that is not mapped faults before anything is    *)
(* moved, and fault_handler halts the program: terminal_read never ends,    *)
(* and reading and hit_enter stay as they are.                              *)
ReadFault ==
    /\ BadBuffers
    /\ Goto("spin", "idle")
    /\ hit_enter
    /\ nbytes > 0
    /\ UNCHANGED <<bufVars, hit_enter, reading, nbytes, result, smashed>>

ReadRelease ==
    /\ Goto("copied", "done")
    /\ reading' = FALSE
    /\ UNCHANGED <<bufVars, hit_enter, nbytes, result, smashed>>

ReadReturn ==
    /\ Goto("done", "idle")
    /\ hit_enter' = FALSE
    /\ UNCHANGED <<bufVars, reading, nbytes, result, smashed>>

-----------------------------------------------------------------------------
(* kybd_init *)
Init ==
    /\ line_buf = [i \in Cells |-> NUL]
    /\ buf_count = 0
    /\ input_len = 0
    /\ hit_enter = FALSE
    /\ reading = FALSE
    /\ pc = "idle"
    /\ nbytes = 0
    /\ result = <<>>
    /\ smashed = "no"

Reader == ReadArm \/ ReadCopy \/ ReadRelease \/ ReadReturn

Next ==
    \/ KeyReturn
    \/ KeyBackspace
    \/ \E c \in Chars : KeyChar(c)
    \/ \E n \in ReadSizes : ReadStart(n)
    \/ Reader
    \/ ReadFault

Spec == Init /\ [][Next]_vars

(* The scheduler runs the reader again and again (module Kernel). *)
FairSpec == Spec /\ WF_vars(Reader)

-----------------------------------------------------------------------------
TypeOK ==
    /\ line_buf \in [Cells -> Chars \cup {NL, NUL}]
    /\ buf_count \in Count
    /\ input_len \in Int
    /\ hit_enter \in BOOLEAN
    /\ reading \in BOOLEAN
    /\ pc \in {"idle", "start", "spin", "copied", "done"}
    /\ nbytes \in 0 .. LineBufMax
    /\ smashed \in {"no", "enter", "backspace", "char"}

(* No key and no read ever touches memory outside line_buf, and what can be *)
(* erased with Backspace is in the buffer: the three counters that update   *)
(* and terminal_read change separately stay in step.                        *)
BufferSafe ==
    /\ smashed = "no"
    /\ 0 <= input_len /\ input_len <= buf_count
    /\ buf_count <= LineBufMax - 1

(* The cells behind the typed text are clear. *)
RestIsClear == smashed = "no" => \A i \in Cells : i >= buf_count => line_buf[i] = NUL

(* A reader that has been woken by Enter returns, whatever is typed on, or  *)
(* is killed by its copy.                                                   *)
WokenReaderReturns ==
    (pc = "spin" /\ hit_enter) ~> (pc = "idle" \/ smashed # "no")
=============================================================================
