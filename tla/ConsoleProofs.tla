--------------------------- MODULE ConsoleProofs ---------------------------
(***************************************************************************)
(* Proofs about the screen: which page the display shows, and where the    *)
(* cursor is.                                                              *)
(***************************************************************************)
EXTENDS Console, TerminalProofs, WellFoundedInduction

-----------------------------------------------------------------------------
(* The page that is shown. *)

CursorRegs == {"CURSOR_LOW", "CURSOR_HIGH"}

(* The registers between two outb when terminal t is shown: the start       *)
(* address is t's page, and the index register is not at it.                *)
VgaShows(v, t) ==
    /\ v = [index |-> v.index, reg |-> v.reg]
    /\ v.index \in CursorRegs
    /\ v.reg = [r \in VgaRegs |-> v.reg[r]]
    /\ v.reg["START_LOW"] = (t * PageCells) % ByteSize
    /\ v.reg["START_HIGH"] = ((t * PageCells) \div ByteSize) % ByteSize

VgaInv == current_terminal \in {Own, Other} /\ VgaShows(vga, current_terminal)

(* The two bytes of the start address are enough for the two pages. *)
LEMMA StartAddress ==
    ASSUME NEW t \in {Own, Other}, NEW v, VgaShows(v, t)
    PROVE  Shown(v) = t
  <1>1. /\ ByteSize \in Nat /\ ByteSize > 0 /\ PageCells \in Nat /\ PageCells % ByteSize = 0
        /\ PageCells < ByteSize * ByteSize
    BY ScreenAssumption
  <1>2. PageCells > 0
    <2>1. Rows * Cols > 0
      BY ScreenAssumption
    <2> QED
      BY <2>1, ScreenAssumption
  <1> DEFINE q == PageCells \div ByteSize
  <1>3. q \in Nat /\ q * ByteSize = PageCells
    BY <1>1
  <1>4. q < ByteSize
    <2>1. ASSUME q >= ByteSize PROVE FALSE
      <3>1. q * ByteSize >= ByteSize * ByteSize
        BY <1>1, <1>3, <2>1
      <3> QED
        BY <3>1, <1>1, <1>3
    <2> QED
      BY <2>1, <1>1, <1>3
  <1>5. q % ByteSize = q
    BY <1>1, <1>3, <1>4
  <1>6. CASE t = Own
    <2>0. t * PageCells = 0 /\ 0 % ByteSize = 0 /\ 0 \div ByteSize = 0
      BY <1>1, <1>6 DEF Own
    <2>1. v.reg["START_LOW"] = 0 /\ v.reg["START_HIGH"] = 0
      BY <2>0 DEF VgaShows
    <2> QED
      BY <1>1, <1>2, <1>6, <2>1 DEF Shown, Own
  <1>7. CASE t = Other
    <2>1. t * PageCells = PageCells
      BY <1>1, <1>7 DEF Other
    <2>2. v.reg["START_LOW"] = 0 /\ v.reg["START_HIGH"] = q
      BY <1>1, <1>5, <2>1 DEF VgaShows
    <2>3. Shown(v) = PageCells \div PageCells
      BY <1>1, <1>3, <2>2 DEF Shown
    <2> QED
      BY <1>1, <1>2, <1>7, <2>3 DEF Other
  <1> QED
    BY <1>6, <1>7

(* Writing a cursor register leaves the start address alone ... *)
LEMMA CursorOut ==
    ASSUME NEW t, NEW v, VgaShows(v, t)
    PROVE  /\ \A r \in CursorRegs : VgaShows(Select(v, r), t)
           /\ \A b : VgaShows(Data(v, b), t)
           /\ \A s, u : VgaShows(move_cursor(v, u, s), t)
  <1>1. ASSUME NEW a, VgaShows(a, t), NEW r \in CursorRegs
        PROVE  VgaShows(Select(a, r), t)
    BY <1>1 DEF VgaShows, Select
  <1>2. ASSUME NEW a, VgaShows(a, t), NEW b
        PROVE  VgaShows(Data(a, b), t)
    <2> DEFINE d == Data(a, b)
    <2>1. d = [index |-> a.index, reg |-> [a.reg EXCEPT ![a.index] = b % ByteSize]]
      BY <1>2 DEF VgaShows, Data
    <2>2. d.index = a.index /\ d.reg = [a.reg EXCEPT ![a.index] = b % ByteSize]
      BY <2>1
    <2> HIDE DEF d
    <2>3. a.index \in CursorRegs /\ a.reg = [r \in VgaRegs |-> a.reg[r]]
      BY <1>2 DEF VgaShows
    <2>4. d.reg = [r \in VgaRegs |-> d.reg[r]]
      BY <2>2, <2>3
    <2>5. d.reg["START_LOW"] = a.reg["START_LOW"] /\ d.reg["START_HIGH"] = a.reg["START_HIGH"]
      BY <2>2, <2>3 DEF CursorRegs, VgaRegs
    <2>6. d = [index |-> d.index, reg |-> d.reg]
      BY <2>1, <2>2
    <2> QED
      BY <1>2, <2>2, <2>3, <2>4, <2>5, <2>6, Zenon DEF VgaShows, d
  <1>3. ASSUME NEW s, NEW u
        PROVE  VgaShows(move_cursor(v, u, s), t)
    BY <1>1, <1>2 DEF move_cursor, Out, CursorRegs
  <1> QED
    BY <1>1, <1>2, <1>3

(* What two outb do to registers in any state. *)
VgaRecord(v) == v = [index |-> v.index, reg |-> v.reg] /\ v.reg = [r \in VgaRegs |-> v.reg[r]]

LEMMA OutWrites ==
    ASSUME NEW v, VgaRecord(v), NEW r \in VgaRegs, NEW b
    PROVE  /\ VgaRecord(Out(v, r, b))
           /\ Out(v, r, b).index = r
           /\ Out(v, r, b).reg[r] = b % ByteSize
           /\ \A p \in VgaRegs \ {r} : Out(v, r, b).reg[p] = v.reg[p]
  <1> DEFINE o == Out(v, r, b)
             d == b % ByteSize
             f == [v.reg EXCEPT ![r] = d]
  <1>1. Select(v, r) = [index |-> r, reg |-> v.reg]
    BY DEF VgaRecord, Select
  <1>2. o = [index |-> r, reg |-> f]
    <2> HIDE DEF d
    <2>1. Data(Select(v, r), b) = [Select(v, r) EXCEPT !.reg[Select(v, r).index] = d]
      BY DEF Data, d
    <2> QED
      BY <1>1, <2>1 DEF Out
  <1> HIDE DEF d
  <1>3. f = [p \in VgaRegs |-> IF p = r THEN d ELSE v.reg[p]]
    BY DEF VgaRecord
  <1> HIDE DEF f
  <1>4. o.index = r /\ o.reg = f
    BY <1>2
  <1> HIDE DEF o
  <1>5. f = [p \in VgaRegs |-> f[p]] /\ f[r] = d /\ \A p \in VgaRegs \ {r} : f[p] = v.reg[p]
    BY <1>3
  <1>6. VgaRecord(o)
    BY <1>2, <1>4, <1>5, Zenon DEF VgaRecord
  <1> QED
    BY <1>4, <1>5, <1>6, Zenon DEF o, d

(* ... and start_terminal writes it before it leaves the index register at  *)
(* the cursor, whatever the registers were.                                 *)
LEMMA StartOut ==
    ASSUME NEW t, NEW u, NEW s, NEW v, VgaRecord(v)
    PROVE  VgaShows(move_cursor(set_vga_start(v, t), u, s), t)
  <1> DEFINE addr == t * PageCells
             hi   == addr \div ByteSize
             v1   == Out(v, "START_LOW", addr)
             v2   == Out(v1, "START_HIGH", hi)
             pos  == Position(u, s)
             v3   == Out(v2, "CURSOR_LOW", pos)
             v4   == Out(v3, "CURSOR_HIGH", pos \div ByteSize)
  <1>2. v4 = move_cursor(set_vga_start(v, t), u, s)
    BY DEF move_cursor, set_vga_start
  <1> HIDE DEF pos, hi, addr
  <1>a. /\ "START_LOW" \in VgaRegs /\ "START_HIGH" \in VgaRegs
        /\ "START_LOW" \in VgaRegs \ {"START_HIGH"}
    BY DEF VgaRegs
  <1>3. VgaRecord(v1) /\ v1.reg["START_LOW"] = addr % ByteSize
    BY <1>a, OutWrites
  <1> HIDE DEF v1
  <1>4. /\ VgaRecord(v2)
        /\ v2.reg["START_LOW"] = addr % ByteSize /\ v2.reg["START_HIGH"] = hi % ByteSize
    BY <1>a, <1>3, OutWrites
  <1> HIDE DEF v2
  <1>5. /\ VgaRecord(v3)
        /\ v3.reg["START_LOW"] = addr % ByteSize /\ v3.reg["START_HIGH"] = hi % ByteSize
    <2>1. /\ "CURSOR_LOW" \in VgaRegs
          /\ "START_LOW" \in VgaRegs \ {"CURSOR_LOW"} /\ "START_HIGH" \in VgaRegs \ {"CURSOR_LOW"}
      BY DEF VgaRegs
    <2>2. VgaRecord(v3)
      BY <1>4, <2>1, OutWrites
    <2>3. v3.index = "CURSOR_LOW"
      BY <1>4, <2>1, OutWrites
    <2>4. v3.reg["START_LOW"] = v2.reg["START_LOW"]
      BY <1>4, <2>1, OutWrites
    <2>5. v3.reg["START_HIGH"] = v2.reg["START_HIGH"]
      BY <1>4, <2>1, OutWrites
    <2> QED
      BY <1>4, <2>2, <2>3, <2>4, <2>5
  <1> HIDE DEF v3
  <1>6. /\ VgaRecord(v4) /\ v4.index = "CURSOR_HIGH"
        /\ v4.reg["START_LOW"] = addr % ByteSize /\ v4.reg["START_HIGH"] = hi % ByteSize
    <2>1. /\ "CURSOR_HIGH" \in VgaRegs
          /\ "START_LOW" \in VgaRegs \ {"CURSOR_HIGH"} /\ "START_HIGH" \in VgaRegs \ {"CURSOR_HIGH"}
      BY DEF VgaRegs
    <2>2. VgaRecord(v4)
      BY <1>5, <2>1, OutWrites
    <2>3. v4.index = "CURSOR_HIGH"
      BY <1>5, <2>1, OutWrites
    <2>4. v4.reg["START_LOW"] = v3.reg["START_LOW"]
      BY <1>5, <2>1, OutWrites
    <2>5. v4.reg["START_HIGH"] = v3.reg["START_HIGH"]
      BY <1>5, <2>1, OutWrites
    <2> QED
      BY <1>5, <2>2, <2>3, <2>4, <2>5
  <1> HIDE DEF v4
  <1>7. VgaShows(v4, t)
    BY <1>6, Zenon DEF VgaShows, VgaRecord, CursorRegs, addr, hi
  <1> QED
    BY <1>2, <1>7

LEMMA VgaInit == ConsoleInit => VgaInv
  <1> SUFFICES ASSUME ConsoleInit PROVE VgaInv
    OBVIOUS
  <1> DEFINE v == [index |-> "CURSOR_LOW", reg |-> [r \in VgaRegs |-> 0]]
  <1>1. VgaRecord(v)
    BY DEF VgaRecord
  <1>2. vga = move_cursor(set_vga_start(v, Own), Own, clear) /\ current_terminal = Own
    BY DEF ConsoleInit
  <1> HIDE DEF v
  <1> QED
    BY <1>1, <1>2, StartOut DEF VgaInv

(* Every step keeps the start address at the page of the current terminal. *)
LEMMA VgaStep == VgaInv /\ [ConsoleNext]_cvars => VgaInv'
  <1> SUFFICES ASSUME VgaInv, [ConsoleNext]_cvars PROVE VgaInv'
    OBVIOUS
  <1>1. CASE EchoReturn
    BY <1>1, CursorOut DEF EchoReturn, OwnKey, Echo, VgaInv
  <1>2. CASE EchoBackspace
    BY <1>2, CursorOut DEF EchoBackspace, OwnKey, Echo, VgaInv
  <1>3. ASSUME NEW c \in Chars, EchoChar(c) PROVE VgaInv'
    BY <1>3, CursorOut DEF EchoChar, OwnKey, Echo, VgaInv
  <1>4. CASE CtrlL
    BY <1>4, CursorOut DEF CtrlL, OwnKey, Echo, VgaInv
  <1>5. CASE OtherKey
    BY <1>5, CursorOut DEF OtherKey, VgaInv
  <1>6. ASSUME NEW t \in {Own, Other}, SwitchTerminal(t) PROVE VgaInv'
    BY <1>6, StartOut DEF SwitchTerminal, ShowTerminal, VgaInv, VgaShows, VgaRecord
  <1>7. CASE CursorStep
    BY <1>7, CursorOut DEF CursorStep, CursorRegs, VgaInv
  <1>8. CASE UNCHANGED <<vga, current_terminal>>
    BY <1>8 DEF VgaInv
  <1>9. ASSUME NewlineStep \/ CharStep \/ LoopStep PROVE UNCHANGED <<vga, current_terminal>>
    BY <1>9 DEF NewlineStep, CharStep, LoopStep, Step
  <1>10. ASSUME NEW text \in Texts, WriteStart(text) PROVE UNCHANGED <<vga, current_terminal>>
    BY <1>10 DEF WriteStart
  <1>11. ASSUME NEW e \in Exceptions, Fault(e) PROVE UNCHANGED <<vga, current_terminal>>
    BY <1>11 DEF Fault
  <1>12. ASSUME UNCHANGED consoleVars PROVE UNCHANGED <<vga, current_terminal>>
    BY <1>12 DEF consoleVars
  <1> QED
    BY <1>1, <1>2, <1>3, <1>4, <1>5, <1>6, <1>7, <1>8, <1>9, <1>10, <1>11, <1>12
       DEF ConsoleNext, Writer, Reading, cvars

(* The display shows the page of the current terminal, whatever keys and    *)
(* terminal switches come between two outb of terminal_write's move_cursor, *)
(* for every size of screen, page and line buffer.                          *)
THEOREM DisplayShownHolds == ConsoleSpec => []DisplayShown
  <1>1. VgaInv => DisplayShown
    BY StartAddress DEF VgaInv, DisplayShown
  <1> QED
    BY <1>1, VgaInit, VgaStep, PTL DEF ConsoleSpec

-----------------------------------------------------------------------------
(* The cursor of the program's terminal. *)

(* A screen no store has missed; where its cursor is. *)
Sound(s) ==
    s = [x |-> s.x, y |-> s.y, cell |-> s.cell, spilled |-> s.spilled] /\ ~s.spilled
OnRow(s) == s.y \in 0 .. Rows - 1
Place(s) == Cols * s.y + s.x

(* The cursor is on the screen, with at least n cells before it. *)
Behind(s, n) == OnScreen(s) /\ Place(s) >= n

(* What holds of the screen at each label of terminal_write, n characters   *)
(* of the line being erasable: r and inc are its register and increment_y.  *)
WholeLabels == {"idle", "char", "newline", "other", "next"} \cup InCursor

AtLabel(a, s, r, inc, n) ==
    \/ a \in WholeLabels \cup {"x"} /\ Behind(s, n)
    \/ a = "y++" /\ Behind(s, n) /\ r = s.y
    \/ a = "x=0" /\ s.y \in 1 .. Rows /\ s.x \in 0 .. Cols - 1 /\ Cols * s.y >= n
    \/ a = "y>?" /\ s.y \in 1 .. Rows /\ s.x = 0 /\ Cols * s.y >= n
    \/ a \in {"scroll", "y=last"} /\ s.y \in Int /\ s.x \in 0 .. Cols - 1
    \/ a = "store" /\ Behind(s, n) /\ r = Place(s)
    \/ a = "x++" /\ Behind(s, n) /\ r = s.x
    \/ a = "x>?" /\ OnRow(s) /\ s.x \in 1 .. Cols /\ Place(s) >= n
    \/ a = "x%" /\ OnRow(s) /\ s.x \in 1 .. Cols /\ Place(s) >= n
       /\ inc = IF s.x = Cols THEN 1 ELSE 0
    \/ a = "x%=" /\ OnRow(s) /\ s.x \in 1 .. Cols /\ Place(s) >= n
       /\ inc = (IF s.x = Cols THEN 1 ELSE 0) /\ r = (IF s.x = Cols THEN 0 ELSE s.x)
    \/ a = "row>?" /\ OnRow(s) /\ s.x \in 0 .. Cols - 1 /\ inc \in {0, 1}
       /\ Cols * (s.y + inc) + s.x >= n
    \/ a = "row" /\ OnRow(s) /\ s.x \in 0 .. Cols - 1 /\ inc \in {0, 1}
       /\ s.y + inc <= Rows - 1 /\ Cols * (s.y + inc) + s.x >= n
    \/ a = "y=row" /\ OnRow(s) /\ s.x \in 0 .. Cols - 1 /\ r \in 0 .. Rows - 1
       /\ Cols * r + s.x >= n

WriterRecord(v) ==
    v = [at |-> v.at, todo |-> v.todo, reg |-> v.reg, increment_y |-> v.increment_y]

(* update and terminal_write together: the line discipline is safe, and the *)
(* characters that Backspace may erase lie before the cursor.               *)
CursorInv ==
    /\ BufferInv
    /\ Sound(screen)
    /\ WriterRecord(w)
    /\ AtLabel(w.at, screen, w.reg, w.increment_y, input_len)

-----------------------------------------------------------------------------
(* The operators of the screen. *)

(* Rows of cells. *)
LEMMA Grid ==
    /\ Cols \in Nat /\ Cols > 0 /\ Rows \in Nat /\ Rows > 0
    /\ \A y \in Int : Cols * y \in Int /\ Cols * (y + 1) = Cols * y + Cols
    /\ \A y \in Nat : Cols * y >= 0
    /\ \A y \in 1 .. Rows : Cols * y >= Cols
    /\ \A y \in 0 .. Rows - 1 : Cols * y + Cols <= Rows * Cols /\ Cols * y <= Cols * (Rows - 1)
  <1>1. Cols \in Nat /\ Cols > 0 /\ Rows \in Nat /\ Rows > 0
    BY ScreenAssumption
  <1>2. ASSUME NEW y \in Int PROVE Cols * y \in Int /\ Cols * (y + 1) = Cols * y + Cols
    BY <1>1
  <1>3. ASSUME NEW y \in Nat PROVE Cols * y >= 0
    BY <1>1
  <1>4. ASSUME NEW y \in 1 .. Rows PROVE Cols * y >= Cols
    BY <1>1
  <1>5. ASSUME NEW y \in 0 .. Rows - 1 PROVE Cols * y + Cols <= Rows * Cols /\ Cols * y <= Cols * (Rows - 1)
    <2>1. PICK d \in Nat : Rows - 1 = y + d
      BY <1>1
    <2>2. Cols * (Rows - 1) = Cols * y + Cols * d /\ Cols * d >= 0
      BY <1>1, <1>3, <2>1
    <2>3. Rows * Cols = Cols * (Rows - 1) + Cols
      BY <1>1
    <2> QED
      BY <1>1, <2>2, <2>3
  <1> QED
    BY <1>1, <1>2, <1>3, <1>4, <1>5

(* The remainders that putc takes. *)
LEMMA RemOnce ==
    ASSUME NEW b \in Nat, b > 0
    PROVE  Rem(b, b) = 0 /\ \A a \in 0 .. b - 1 : Rem(a, b) = a
  BY DEF Rem

(* The cursor's place is a cell. *)
LEMMA PlaceInCell ==
    ASSUME NEW s, OnScreen(s)
    PROVE  Place(s) \in Cell /\ s.x \in Int /\ s.y \in Int
  <1>1. s.x \in 0 .. Cols - 1 /\ s.y \in 0 .. Rows - 1
    BY DEF OnScreen
  <1> DEFINE p == Cols * s.y
  <1>2. p \in Int /\ p >= 0 /\ p + Cols <= Rows * Cols /\ Rows * Cols \in Int
    BY <1>1, Grid
  <1> HIDE DEF p
  <1>3. p + s.x \in 0 .. Rows * Cols - 1
    BY <1>1, <1>2, Grid
  <1> QED
    BY <1>1, <1>3, Grid DEF p, Place, Cell

(* Storing in a cell. *)
LEMMA StoreSound ==
    ASSUME NEW s, Sound(s), NEW i \in Cell, NEW c
    PROVE  LET t == StoreCell(s, i, c)
           IN  Sound(t) /\ t.x = s.x /\ t.y = s.y
  <1> DEFINE t == StoreCell(s, i, c)
  <1>1. t = [x |-> s.x, y |-> s.y, cell |-> [s.cell EXCEPT ![i] = c], spilled |-> s.spilled]
    BY DEF StoreCell, Sound
  <1>2. t.x = s.x /\ t.y = s.y /\ t.cell = [s.cell EXCEPT ![i] = c]
    BY <1>1
  <1> HIDE DEF t
  <1>3. Sound(t)
    BY <1>1, <1>2 DEF Sound
  <1> QED
    BY <1>2, <1>3 DEF t

(* Setting the cursor, and scrolling. *)
Moved(s, a, b) == [s EXCEPT !.x = a, !.y = b]

LEMMA MoveSound ==
    ASSUME NEW s, Sound(s), NEW a, NEW b
    PROVE  /\ Sound(Moved(s, a, b))
           /\ Moved(s, a, b).x = a /\ Moved(s, a, b).y = b
           /\ Sound(vert_scroll(s)) /\ vert_scroll(s).x = s.x /\ vert_scroll(s).y = s.y
  <1>1. Moved(s, a, b) = [x |-> a, y |-> b, cell |-> s.cell, spilled |-> s.spilled]
    <2> DEFINE m == [s EXCEPT !.x = a]
    <2>1. Moved(s, a, b) = [m EXCEPT !.y = b]
      BY DEF Sound, Moved
    <2>2. m = [x |-> a, y |-> s.y, cell |-> s.cell, spilled |-> s.spilled]
      BY DEF Sound
    <2>3. m.x = a /\ m.cell = s.cell /\ m.spilled = s.spilled
      BY <2>2
    <2> HIDE DEF m
    <2>4. [m EXCEPT !.y = b] = [x |-> m.x, y |-> b, cell |-> m.cell, spilled |-> m.spilled]
      BY <2>2, <2>3
    <2> QED
      BY <2>1, <2>3, <2>4
  <1> DEFINE f == [i \in Cell |-> IF i < (Rows - 1) * Cols THEN s.cell[i + Cols] ELSE Blank]
  <1>2. vert_scroll(s) = [s EXCEPT !.cell = f]
    BY DEF vert_scroll
  <1> HIDE DEF f
  <1>3. vert_scroll(s) = [x |-> s.x, y |-> s.y, cell |-> f, spilled |-> s.spilled]
    BY <1>2 DEF Sound
  <1>4. Sound(Moved(s, a, b))
    BY <1>1 DEF Sound
  <1>5. Sound(vert_scroll(s))
    BY <1>3 DEF Sound
  <1> QED
    BY <1>1, <1>3, <1>4, <1>5

(* putc on the screen: the cursor stays on it and moves on by one cell or   *)
(* more, unless the screen scrolls, which leaves it in the last row.        *)
LEMMA PutcSound ==
    ASSUME NEW s, Sound(s), OnScreen(s), NEW c
    PROVE  LET t == putc_in_terminal(c, s)
           IN  /\ Sound(t) /\ OnScreen(t)
               /\ Place(t) >= Place(s) + 1 \/ Place(t) >= Cols * (Rows - 1)
               /\ c # Newline /\ s.x < Cols - 1 => t.x = s.x + 1 /\ t.y = s.y
               /\ c # Newline /\ s.x = Cols - 1 /\ s.y < Rows - 1 => t.x = 0 /\ t.y = s.y + 1
  <1> DEFINE newline == c = Newline
             stored  == IF newline THEN s ELSE StoreCell(s, Cols * s.y + s.x, c)
             x       == IF newline THEN 0 ELSE Rem(s.x + 1, Cols)
             y       == s.y + (IF newline \/ s.x + 1 > Cols - 1 THEN 1 ELSE 0)
             t       == putc_in_terminal(c, s)
  <1>1. t = IF y > Rows - 1 THEN Moved(vert_scroll(stored), x, Rows - 1)
                            ELSE Moved(stored, x, IF newline THEN y ELSE Rem(y, Rows))
    BY DEF putc_in_terminal, Moved
  <1>2. Sound(stored)
    BY PlaceInCell, StoreSound DEF Place
  <1>3. /\ s.x \in 0 .. Cols - 1 /\ s.y \in 0 .. Rows - 1
        /\ Cols \in Nat /\ Cols > 0 /\ Rows \in Nat /\ Rows > 0
    BY Grid DEF OnScreen
  <1>4. /\ newline => x = 0 /\ y = s.y + 1
        /\ ~newline /\ s.x < Cols - 1 => x = s.x + 1 /\ y = s.y
        /\ ~newline /\ s.x = Cols - 1 => x = 0 /\ y = s.y + 1
    <2>1. s.x < Cols - 1 => Rem(s.x + 1, Cols) = s.x + 1
      BY <1>3, RemOnce
    <2>2. s.x = Cols - 1 => Rem(s.x + 1, Cols) = 0
      BY <1>3, RemOnce
    <2> QED
      BY <1>3, <2>1, <2>2
  <1>5. y \in 0 .. Rows - 1 => Rem(y, Rows) = y
    BY <1>3, RemOnce
  <1>6. x \in 0 .. Cols - 1 /\ y \in 0 .. Rows
    BY <1>3, <1>4
  <1> HIDE DEF newline, stored, x, y, t
  <1>7. t = IF y > Rows - 1 THEN Moved(vert_scroll(stored), x, Rows - 1)
                            ELSE Moved(stored, x, y)
    BY <1>1, <1>3, <1>5, <1>6
  <1>8. Sound(t) /\ t.x = x /\ t.y = IF y > Rows - 1 THEN Rows - 1 ELSE y
    <2>1. Sound(vert_scroll(stored))
      BY <1>2, MoveSound
    <2>2. CASE y > Rows - 1
      BY <1>7, <2>1, <2>2, MoveSound
    <2>3. CASE ~(y > Rows - 1)
      <3>1. t = Moved(stored, x, y)
        BY <1>7, <2>3
      <3>2. Sound(t) /\ t.x = x /\ t.y = y
        BY <1>2, <3>1, MoveSound
      <3> QED
        BY <2>3, <3>2
    <2> QED
      BY <2>2, <2>3
  <1>9. OnScreen(t)
    BY <1>3, <1>6, <1>8 DEF OnScreen
  <1>10. Place(t) >= Place(s) + 1 \/ Place(t) >= Cols * (Rows - 1)
    <2>1. CASE y > Rows - 1
      BY <1>3, <1>6, <1>8, <2>1, Grid DEF Place
    <2>2. CASE y <= Rows - 1 /\ y = s.y + 1
      <3>1. Cols * t.y = Cols * s.y + Cols /\ Cols * s.y \in Int
        BY <1>3, <1>8, <2>2, Grid
      <3> QED
        BY <1>3, <1>6, <1>8, <3>1 DEF Place
    <2>3. CASE y <= Rows - 1 /\ y = s.y
      <3>1. t.x = s.x + 1 /\ t.y = s.y /\ Cols * s.y \in Int
        BY <1>3, <1>4, <1>8, <2>3, Grid
      <3> QED
        BY <1>3, <3>1 DEF Place
    <2> QED
      BY <1>3, <1>4, <1>6, <2>1, <2>2, <2>3
  <1>11. /\ c # Newline /\ s.x < Cols - 1 => t.x = s.x + 1 /\ t.y = s.y
         /\ c # Newline /\ s.x = Cols - 1 /\ s.y < Rows - 1 => t.x = 0 /\ t.y = s.y + 1
    BY <1>3, <1>4, <1>8 DEF newline
  <1> QED
    BY <1>8, <1>9, <1>10, <1>11 DEF t

(* Backspace behind at least one cell goes back by one. *)
LEMMA BackspaceSound ==
    ASSUME NEW s, Sound(s), OnScreen(s), Place(s) >= 1
    PROVE  LET t == backspace_fnc(s)
           IN  Sound(t) /\ OnScreen(t) /\ Place(t) = Place(s) - 1
  <1>1. /\ s.x \in 0 .. Cols - 1 /\ s.y \in 0 .. Rows - 1 /\ Blank # Newline
        /\ Cols \in Nat /\ Cols > 0 /\ Rows \in Nat /\ Rows > 0
    BY Grid, ScreenAssumption DEF OnScreen
  <1> DEFINE t == backspace_fnc(s)
  <1>2. CASE s.x = 0
    <2> DEFINE r == [s EXCEPT !.x = Cols - 1, !.y = @ - 1]
               p == putc_in_terminal(Blank, r)
    <2>1. s.y >= 1
      BY <1>1, <1>2, Grid DEF Place
    <2>2. r = Moved(s, Cols - 1, s.y - 1)
      BY DEF Sound, Moved
    <2>3. Sound(r) /\ r.x = Cols - 1 /\ r.y = s.y - 1
      BY <2>2, MoveSound
    <2>4. t = [p EXCEPT !.x = Cols - 1, !.y = @ - 1]
      BY <1>2 DEF backspace_fnc
    <2> HIDE DEF r
    <2>5. OnScreen(r)
      BY <1>1, <2>1, <2>3 DEF OnScreen
    <2>6. Sound(p) /\ p.y = s.y
      BY <1>1, <2>1, <2>3, <2>5, PutcSound
    <2> HIDE DEF p, t
    <2>7. t = Moved(p, Cols - 1, s.y - 1)
      BY <2>4, <2>6 DEF Sound, Moved
    <2>8. Sound(t) /\ t.x = Cols - 1 /\ t.y = s.y - 1
      BY <2>6, <2>7, MoveSound
    <2>9. Cols * (s.y - 1) = Cols * s.y - Cols /\ Cols * s.y \in Int
      BY <1>1, Grid
    <2> QED
      BY <1>1, <1>2, <2>1, <2>8, <2>9 DEF t, OnScreen, Place
  <1>3. CASE s.x # 0
    <2> DEFINE r == [s EXCEPT !.x = @ - 1]
               p == putc_in_terminal(Blank, r)
    <2>1. r = Moved(s, s.x - 1, s.y)
      BY DEF Sound, Moved
    <2>2. Sound(r) /\ r.x = s.x - 1 /\ r.y = s.y
      BY <2>1, MoveSound
    <2>3. t = [p EXCEPT !.x = @ - 1]
      BY <1>3 DEF backspace_fnc
    <2> HIDE DEF r
    <2>4. OnScreen(r)
      BY <1>1, <1>3, <2>2 DEF OnScreen
    <2>5. Sound(p) /\ p.x = s.x /\ p.y = s.y
      BY <1>1, <1>3, <2>2, <2>4, PutcSound
    <2> HIDE DEF p, t
    <2>6. t = Moved(p, s.x - 1, s.y)
      BY <2>3, <2>5 DEF Sound, Moved
    <2>7. Sound(t) /\ t.x = s.x - 1 /\ t.y = s.y
      BY <2>5, <2>6, MoveSound
    <2>8. Cols * s.y \in Int
      BY <1>1, Grid
    <2> QED
      BY <1>1, <1>3, <2>7, <2>8 DEF t, OnScreen, Place
  <1> QED
    BY <1>2, <1>3

-----------------------------------------------------------------------------
(* The loops of puts, itoa and printf. *)

LEMMA NatInduct ==
    ASSUME NEW T, 0 \in T, \A k \in Nat : k \in T => k + 1 \in T
    PROVE  Nat \subseteq T
  <1> DEFINE U == {k \in Nat : k \notin T}
             R == OpToRel(<, Nat)
  <1>1. IsWellFoundedOn(R, Nat)
    BY NatLessThanWellFounded
  <1>2. \A x, y \in Nat : <<y, x>> \in R <=> y < x
    BY DEF OpToRel
  <1> HIDE DEF R
  <1>3. ASSUME U # {} PROVE FALSE
    <2>1. PICK x \in U : \A y \in U : ~(<<y, x>> \in R)
      BY <1>1, <1>3, WFMin
    <2>2. x \in Nat /\ x # 0 /\ x \notin T
      OBVIOUS
    <2>3. x - 1 \in Nat /\ x - 1 < x /\ (x - 1) + 1 = x
      BY <2>2
    <2>4. x - 1 \notin U
      BY <1>2, <2>1, <2>2, <2>3
    <2> QED
      BY <2>2, <2>3, <2>4
  <1> QED
    BY <1>3

(* The loop of puts. *)
LEMMA PutsLoop ==
    ASSUME NEW str, Len(str) \in Nat, NEW s
    PROVE  \E f : /\ f = [i \in 0 .. Len(str) |-> IF i = 0 THEN s ELSE putc(str[i], f[i - 1])]
                  /\ puts(str, s) = f[Len(str)]
  <1> DEFINE E(f, n) == f = [i \in 0 .. n |-> IF i = 0 THEN s ELSE putc(str[i], f[i - 1])]
             T == {n \in Nat : \E f : E(f, n)}
  <1>1. 0 \in T
    <2>1. E([i \in 0 .. 0 |-> s], 0)
      OBVIOUS
    <2> QED
      BY <2>1
  <1>2. ASSUME NEW n \in Nat, n \in T PROVE n + 1 \in T
    <2>1. PICK f : E(f, n)
      BY <1>2
    <2> DEFINE g == [i \in 0 .. n + 1 |-> IF i = n + 1 THEN putc(str[n + 1], f[n]) ELSE f[i]]
    <2>2. ASSUME NEW i \in 0 .. n + 1 PROVE g[i] = IF i = 0 THEN s ELSE putc(str[i], g[i - 1])
      <3>1. CASE i = n + 1
        <4>1. g[n + 1] = putc(str[n + 1], f[n]) /\ g[n] = f[n] /\ i - 1 = n /\ i # 0
          BY <3>1, <1>2
        <4> QED
          BY <3>1, <4>1
      <3>2. CASE i # n + 1
        <4>1. i \in 0 .. n /\ g[i] = f[i] /\ (i # 0 => i - 1 \in 0 .. n /\ g[i - 1] = f[i - 1])
          BY <3>2, <1>2
        <4>2. f[i] = IF i = 0 THEN s ELSE putc(str[i], f[i - 1])
          BY <2>1, <4>1
        <4> QED
          BY <4>1, <4>2
      <3> QED
        BY <3>1, <3>2
    <2>3. E(g, n + 1)
      BY <2>2
    <2> HIDE DEF E, g
    <2> QED
      BY <2>3, <1>2
  <1> HIDE DEF E
  <1>3. \E f : E(f, Len(str))
    BY <1>1, <1>2, NatInduct
  <1> DEFINE loop[i \in 0 .. Len(str)] == IF i = 0 THEN s ELSE putc(str[i], loop[i - 1])
  <1>4. loop = CHOOSE f : E(f, Len(str))
    BY Zenon DEF E
  <1>5. E(loop, Len(str))
    BY <1>3, <1>4, Zenon
  <1>6. puts(str, s) = loop[Len(str)]
    BY DEF puts
  <1> QED
    BY <1>5, <1>6 DEF E

(* A string leaves the cursor on the screen, as many cells further as it    *)
(* has characters, or in the last row.                                      *)
LEMMA PutsSound ==
    ASSUME NEW str, Len(str) \in Nat, NEW s, Sound(s), OnScreen(s)
    PROVE  LET t == puts(str, s)
           IN  /\ Sound(t) /\ OnScreen(t)
               /\ Place(t) >= Place(s) + Len(str) \/ Place(t) >= Cols * (Rows - 1)
  <1>1. PICK f : /\ f = [i \in 0 .. Len(str) |-> IF i = 0 THEN s ELSE putc(str[i], f[i - 1])]
                 /\ puts(str, s) = f[Len(str)]
    BY PutsLoop
  <1> DEFINE P(i) == /\ Sound(f[i]) /\ OnScreen(f[i])
                     /\ Place(f[i]) >= Place(s) + i \/ Place(f[i]) >= Cols * (Rows - 1)
             T == {i \in Nat : i <= Len(str) => P(i)}
  <1>2. 0 \in T
    <2>1. f[0] = s
      BY <1>1
    <2>2. Place(s) \in Int
      BY PlaceInCell, Grid DEF Cell
    <2> QED
      BY <2>1, <2>2
  <1>3. ASSUME NEW i \in Nat, i \in T PROVE i + 1 \in T
    <2> SUFFICES ASSUME i + 1 <= Len(str) PROVE P(i + 1)
      BY <1>3
    <2>1. P(i)
      BY <1>3
    <2>2. f[i + 1] = putc_in_terminal(str[i + 1], f[i])
      <3>1. i + 1 \in 0 .. Len(str) /\ i + 1 # 0 /\ (i + 1) - 1 = i
        BY <1>3
      <3> QED
        BY <1>1, <3>1 DEF putc
    <2> DEFINE t == f[i + 1]
    <2>3. /\ Sound(t) /\ OnScreen(t)
          /\ Place(t) >= Place(f[i]) + 1 \/ Place(t) >= Cols * (Rows - 1)
      BY <2>1, <2>2, PutcSound
    <2>4. Place(s) \in Int /\ Place(f[i]) \in Int /\ Place(t) \in Int /\ Cols * (Rows - 1) \in Int
      BY <2>1, <2>3, PlaceInCell, Grid DEF Cell
    <2> HIDE DEF t
    <2>5. Place(t) >= Place(s) + (i + 1) \/ Place(t) >= Cols * (Rows - 1)
      BY <1>3, <2>1, <2>3, <2>4
    <2> QED
      BY <2>3, <2>5 DEF t
  <1>4. Len(str) \in T
    <2> HIDE DEF T
    <2> QED
      BY <1>2, <1>3, NatInduct
  <1> QED
    BY <1>1, <1>4

(* The digits of a number are a finite string. *)
DigitChars == {Digits[i] : i \in 1 .. 16}

LEMMA ItoaSeq == \A n \in Nat : itoa(n, 10) \in Seq(DigitChars)
  <1> SUFFICES ASSUME NEW n \in Nat PROVE itoa(n, 10) \in Seq(DigitChars)
    OBVIOUS
  <1> DEFINE digit(v) == Digits[(v % 10) + 1]
             E(f, m) == f = [v \in 0 .. m |-> IF v = 0 THEN <<>> ELSE <<digit(v)>> \o f[v \div 10]]
             S == DigitChars
             T == {m \in Nat : \E f : E(f, m) /\ \A v \in 0 .. m : f[v] \in Seq(S)}
  <1>0. ASSUME NEW v \in Nat, v # 0 PROVE v \div 10 \in 0 .. v - 1
    BY <1>0
  <1>a. \A v \in Nat : digit(v) \in S
    <2>1. \A v \in Nat : (v % 10) + 1 \in 1 .. 16
      OBVIOUS
    <2> QED
      BY <2>1 DEF DigitChars
  <1> HIDE DEF digit, S
  <1>1. 0 \in T
    <2> DEFINE g == [v \in 0 .. 0 |-> <<>>]
    <2>1. E(g, 0)
      OBVIOUS
    <2>2. \A v \in 0 .. 0 : g[v] \in Seq(S)
      OBVIOUS
    <2> HIDE DEF E, g
    <2> QED
      BY <2>1, <2>2
  <1>2. ASSUME NEW m \in Nat, m \in T PROVE m + 1 \in T
    <2>1. PICK f : E(f, m) /\ \A v \in 0 .. m : f[v] \in Seq(S)
      BY <1>2
    <2> DEFINE k == (m + 1) \div 10
               g == [v \in 0 .. m + 1 |-> IF v = m + 1 THEN <<digit(v)>> \o f[k] ELSE f[v]]
    <2>2. k \in 0 .. m
      BY <1>0, m + 1 # 0, (m + 1) - 1 = m
    <2> HIDE DEF k
    <2>3. ASSUME NEW v \in 0 .. m + 1
          PROVE  g[v] = IF v = 0 THEN <<>> ELSE <<digit(v)>> \o g[v \div 10]
      <3>1. CASE v = m + 1
        <4>1. g[m + 1] = <<digit(v)>> \o f[k] /\ g[k] = f[k] /\ v \div 10 = k /\ v # 0
          BY <2>2, <3>1 DEF k
        <4> QED
          BY <3>1, <4>1
      <3>2. CASE v # m + 1
        <4>1. v \in 0 .. m /\ g[v] = f[v]
          BY <3>2
        <4>2. v # 0 => v \div 10 \in 0 .. m /\ g[v \div 10] = f[v \div 10]
          <5> SUFFICES ASSUME v # 0 PROVE v \div 10 \in 0 .. m /\ g[v \div 10] = f[v \div 10]
            OBVIOUS
          <5>1. v \div 10 \in 0 .. v - 1
            BY <1>0, <4>1
          <5>2. v \div 10 \in 0 .. m /\ v \div 10 # m + 1
            BY <5>1, <4>1
          <5> QED
            BY <5>2
        <4>3. f[v] = IF v = 0 THEN <<>> ELSE <<digit(v)>> \o f[v \div 10]
          BY <2>1, <4>1
        <4> QED
          BY <4>1, <4>2, <4>3
      <3> QED
        BY <3>1, <3>2
    <2>4. E(g, m + 1)
      BY <2>3
    <2>5. ASSUME NEW v \in 0 .. m + 1 PROVE g[v] \in Seq(S)
      <3>1. CASE v = m + 1
        <4>1. f[k] \in Seq(S) /\ digit(v) \in S /\ g[v] = <<digit(v)>> \o f[k]
          BY <1>a, <2>1, <2>2, <3>1
        <4> HIDE DEF E, g
        <4> QED
          BY <4>1
      <3>2. CASE v # m + 1
        <4>1. v \in 0 .. m /\ g[v] = f[v]
          BY <3>2
        <4> HIDE DEF E, g
        <4> QED
          BY <2>1, <4>1
      <3> QED
        BY <3>1, <3>2
    <2> HIDE DEF E, g
    <2> QED
      BY <2>4, <2>5
  <1> HIDE DEF E
  <1>3. \E f : E(f, n) /\ \A v \in 0 .. n : f[v] \in Seq(S)
    BY <1>1, <1>2, NatInduct
  <1>4. ASSUME NEW f, NEW h, E(f, n), E(h, n) PROVE f = h
    <2> DEFINE Q == {m \in Nat : \A v \in 0 .. m : v <= n => f[v] = h[v]}
    <2>1. 0 \in Q
      BY <1>4 DEF E
    <2>2. ASSUME NEW m \in Nat, m \in Q PROVE m + 1 \in Q
      <3> SUFFICES ASSUME m + 1 <= n PROVE f[m + 1] = h[m + 1]
        BY <2>2
      <3>1. (m + 1) \div 10 \in 0 .. m
        BY <1>0, m + 1 # 0, (m + 1) - 1 = m
      <3>2. f[(m + 1) \div 10] = h[(m + 1) \div 10]
        BY <2>2, <3>1
      <3>3. m + 1 \in 0 .. n /\ m + 1 # 0
        OBVIOUS
      <3>4. f[m + 1] = <<digit(m + 1)>> \o f[(m + 1) \div 10]
        BY <1>4, <3>3, Zenon DEF E
      <3>5. h[m + 1] = <<digit(m + 1)>> \o h[(m + 1) \div 10]
        BY <1>4, <3>3, Zenon DEF E
      <3> QED
        BY <3>2, <3>4, <3>5
    <2>3. n \in Q
      <3> HIDE DEF Q
      <3> QED
        BY <2>1, <2>2, NatInduct
    <2> QED
      BY <1>4, <2>3 DEF E
  <1> DEFINE loop[v \in 0 .. n] == IF v = 0 THEN <<>> ELSE <<digit(v)>> \o loop[v \div 10]
  <1>5. loop = CHOOSE f : E(f, n)
    BY Zenon DEF E
  <1>6. E(loop, n)
    BY <1>3, <1>5, Zenon
  <1>7. itoa(n, 10) = IF n = 0 THEN <<"0">> ELSE strrev(loop[n])
    BY DEF itoa, digit
  <1> HIDE DEF loop
  <1>8. loop[n] \in Seq(S)
    BY <1>3, <1>4, <1>6
  <1>9. strrev(loop[n]) \in Seq(S)
    <2> DEFINE q == loop[n]
    <2>1. q \in Seq(S)
      BY <1>8
    <2> HIDE DEF q
    <2>2. \A i \in 1 .. Len(q) : q[Len(q) + 1 - i] \in S
      BY <2>1
    <2> QED
      BY <2>1, <2>2 DEF strrev, q
  <1>10. <<"0">> \in Seq(S)
    <2>1. "0" \in S
      <3>1. "0" = Digits[1] /\ 1 \in 1 .. 16
        BY DEF Digits
      <3> QED
        BY <3>1 DEF S, DigitChars
    <2> QED
      BY <2>1
  <1> QED
    BY <1>7, <1>9, <1>10 DEF S

(* The loop of printf. *)
LEMMA PrintfLoop ==
    ASSUME NEW format, Len(format) \in Nat, NEW s
    PROVE  \E f : /\ f = [i \in 0 .. Len(format) |->
                            IF i = 0 THEN s ELSE puts(Converted(format[i]), f[i - 1])]
                  /\ printf(format, s) = f[Len(format)]
  <1> DEFINE E(f, n) == f = [i \in 0 .. n |->
                                IF i = 0 THEN s ELSE puts(Converted(format[i]), f[i - 1])]
             T == {n \in Nat : \E f : E(f, n)}
  <1>1. 0 \in T
    <2>1. E([i \in 0 .. 0 |-> s], 0)
      OBVIOUS
    <2> QED
      BY <2>1
  <1>2. ASSUME NEW n \in Nat, n \in T PROVE n + 1 \in T
    <2>1. PICK f : E(f, n)
      BY <1>2
    <2> DEFINE last == puts(Converted(format[n + 1]), f[n])
               g == [i \in 0 .. n + 1 |-> IF i = n + 1 THEN last ELSE f[i]]
    <2>2. ASSUME NEW i \in 0 .. n + 1
          PROVE  g[i] = IF i = 0 THEN s ELSE puts(Converted(format[i]), g[i - 1])
      <3>1. CASE i = n + 1
        <4>1. g[n + 1] = last /\ g[n] = f[n] /\ i - 1 = n /\ i # 0
          BY <3>1, <1>2
        <4> QED
          BY <3>1, <4>1
      <3>2. CASE i # n + 1
        <4>1. i \in 0 .. n /\ g[i] = f[i] /\ (i # 0 => i - 1 \in 0 .. n /\ g[i - 1] = f[i - 1])
          BY <3>2, <1>2
        <4>2. f[i] = IF i = 0 THEN s ELSE puts(Converted(format[i]), f[i - 1])
          BY <2>1, <4>1
        <4> QED
          BY <4>1, <4>2
      <3> QED
        BY <3>1, <3>2
    <2>3. E(g, n + 1)
      BY <2>2
    <2> HIDE DEF E, g
    <2> QED
      BY <2>3, <1>2
  <1> HIDE DEF E
  <1>3. \E f : E(f, Len(format))
    BY <1>1, <1>2, NatInduct
  <1> DEFINE loop[i \in 0 .. Len(format)] ==
               IF i = 0 THEN s ELSE puts(Converted(format[i]), loop[i - 1])
  <1>4. loop = CHOOSE f : E(f, Len(format))
    BY Zenon DEF E
  <1>5. E(loop, Len(format))
    BY <1>3, <1>4, Zenon
  <1>6. printf(format, s) = loop[Len(format)]
    BY DEF printf
  <1> QED
    BY <1>5, <1>6 DEF E

(* puts prints a string piece by piece. *)
LEMMA PutsConcat ==
    ASSUME NEW S, NEW a \in Seq(S), NEW b \in Seq(S), NEW s
    PROVE  puts(a \o b, s) = puts(b, puts(a, s))
  <1> DEFINE A == Len(a)
             B == Len(b)
             c == a \o b
             u == puts(a, s)
  <1>1. /\ A \in Nat /\ B \in Nat /\ Len(c) = A + B
        /\ \A i \in 1 .. A : c[i] = a[i]
        /\ \A i \in 1 .. B : c[A + i] = b[i]
    OBVIOUS
  <1> HIDE DEF A, B, c
  <1>2. PICK f : /\ f = [i \in 0 .. A + B |-> IF i = 0 THEN s ELSE putc(c[i], f[i - 1])]
                 /\ puts(c, s) = f[A + B]
    <2>1. Len(c) \in Nat
      BY <1>1
    <2>2. \E f : /\ f = [i \in 0 .. Len(c) |-> IF i = 0 THEN s ELSE putc(c[i], f[i - 1])]
                /\ puts(c, s) = f[Len(c)]
      BY <2>1, PutsLoop
    <2> QED
      BY <1>1, <2>2, Zenon
  <1>3. PICK g : /\ g = [i \in 0 .. A |-> IF i = 0 THEN s ELSE putc(a[i], g[i - 1])]
                 /\ u = g[A]
    BY <1>1, PutsLoop DEF A
  <1> HIDE DEF u
  <1>4. PICK h : /\ h = [i \in 0 .. B |-> IF i = 0 THEN u ELSE putc(b[i], h[i - 1])]
                 /\ puts(b, u) = h[B]
    BY <1>1, PutsLoop DEF B
  <1>5. f[A] = g[A]
    <2> DEFINE T == {k \in Nat : k <= A => f[k] = g[k]}
    <2>1. 0 \in T
      BY <1>1, <1>2, <1>3
    <2>2. ASSUME NEW k \in Nat, k \in T PROVE k + 1 \in T
      <3> SUFFICES ASSUME k + 1 <= A PROVE f[k + 1] = g[k + 1]
        BY <2>2
      <3>1. /\ k + 1 \in 0 .. A + B /\ k + 1 \in 0 .. A /\ k + 1 \in 1 .. A
            /\ k + 1 # 0 /\ (k + 1) - 1 = k /\ k <= A
        BY <1>1
      <3>2. f[k + 1] = putc(c[k + 1], f[k]) /\ g[k + 1] = putc(a[k + 1], g[k])
        BY <1>2, <1>3, <3>1
      <3> QED
        BY <1>1, <2>2, <3>1, <3>2
    <2> HIDE DEF T
    <2>3. A \in T
      BY <1>1, <2>1, <2>2, NatInduct
    <2> QED
      BY <1>1, <2>3 DEF T
  <1>6. f[A + B] = h[B]
    <2> DEFINE T == {k \in Nat : k <= B => f[A + k] = h[k]}
    <2>1. 0 \in T
      BY <1>1, <1>3, <1>4, <1>5
    <2>2. ASSUME NEW k \in Nat, k \in T PROVE k + 1 \in T
      <3> SUFFICES ASSUME k + 1 <= B PROVE f[A + (k + 1)] = h[k + 1]
        BY <2>2
      <3>1. /\ A + (k + 1) \in 0 .. A + B /\ k + 1 \in 0 .. B /\ k + 1 \in 1 .. B
            /\ k + 1 # 0 /\ (k + 1) - 1 = k /\ k <= B
            /\ A + (k + 1) # 0 /\ (A + (k + 1)) - 1 = A + k
        BY <1>1
      <3>2. f[A + (k + 1)] = putc(c[A + (k + 1)], f[A + k]) /\ h[k + 1] = putc(b[k + 1], h[k])
        BY <1>2, <1>4, <3>1
      <3> QED
        BY <1>1, <2>2, <3>1, <3>2
    <2> HIDE DEF T
    <2>3. B \in T
      BY <1>1, <2>1, <2>2, NatInduct
    <2> QED
      BY <1>1, <2>3 DEF T
  <1> QED
    BY <1>2, <1>4, <1>6 DEF c, u

(* What the characters of fault_handler's message are. *)
FaultChars(e) == DigitChars \cup Wording \cup Letters(e.message)

(* The message of fault_handler is its text and a newline. *)
LEMMA FaultMessage ==
    ASSUME NEW e \in Exceptions, NEW s
    PROVE  /\ FaultText(e) \in Seq(FaultChars(e)) /\ FaultText(e) # <<>>
           /\ Newline \notin FaultChars(e)
           /\ printf(FaultFormat(e), s) = puts(<<NL>>, puts(FaultText(e), s))
  <1> DEFINE S == FaultChars(e)
             n == itoa(e.int_no, 10)
             m == e.message
             r == itoa(e.err_code, 10)
             format == FaultFormat(e)
             t1 == <<"P">>
             t2 == t1 \o n
             t3 == t2 \o <<":">>
             t4 == t3 \o m
             t5 == t4 \o <<"(">>
             t6 == t5 \o r
             t7 == t6 \o <<")">>
  <1>1. /\ n \in Seq(S) /\ r \in Seq(S) /\ m \in Seq(S)
        /\ <<"P">> \in Seq(S) /\ <<":">> \in Seq(S)
        /\ <<"(">> \in Seq(S) /\ <<")">> \in Seq(S)
    <2>1. n \in Seq(DigitChars) /\ r \in Seq(DigitChars) /\ m \in Seq(Letters(m))
      BY ConsoleAssumption, ItoaSeq
    <2>2. DigitChars \subseteq S /\ Letters(m) \subseteq S
      BY DEF FaultChars
    <2>3. "P" \in S /\ ":" \in S /\ "(" \in S /\ ")" \in S
      BY DEF FaultChars, Wording
    <2> HIDE DEF S, n, m, r
    <2>4. \A T : T \subseteq S => \A q \in Seq(T) : q \in Seq(S)
      OBVIOUS
    <2> QED
      BY <2>1, <2>2, <2>3, <2>4
  <1>2. Newline \notin S
    <2>1. Newline \notin DigitChars
      BY ScreenAssumption DEF DigitChars
    <2> QED
      BY <2>1, ConsoleAssumption DEF FaultChars
  <1>3. /\ Len(format) = 8
        /\ Converted(format[1]) = <<"P">> /\ Converted(format[2]) = n
        /\ Converted(format[3]) = <<":">> /\ Converted(format[4]) = m
        /\ Converted(format[5]) = <<"(">> /\ Converted(format[6]) = r
        /\ Converted(format[7]) = <<")">> /\ Converted(format[8]) = <<NL>>
    <2>1. \A c : Converted(Text(c)) = <<c>>
      BY DEF Converted, Text
    <2>2. \A k \in Nat : Converted([conv |-> "%d", arg |-> k]) = itoa(k, 10)
      BY DEF Converted
    <2>3. \A q : Converted([conv |-> "%s", arg |-> q]) = q
      BY DEF Converted
    <2> DEFINE d1 == [conv |-> "%d", arg |-> e.int_no]
               d2 == [conv |-> "%d", arg |-> e.err_code]
               str == [conv |-> "%s", arg |-> e.message]
    <2>4. Converted(d1) = n /\ Converted(d2) = r /\ Converted(str) = m
      BY <2>2, <2>3, ConsoleAssumption
    <2> HIDE DEF d1, d2, str
    <2>5. format = <<Text("P"), d1, Text(":"), str, Text("("), d2, Text(")"), Text(NL)>>
      BY DEF FaultFormat, d1, d2, str
    <2> HIDE DEF format, n, m, r
    <2>6. /\ Len(format) = 8 /\ format[1] = Text("P") /\ format[2] = d1
          /\ format[3] = Text(":") /\ format[4] = str /\ format[5] = Text("(")
          /\ format[6] = d2 /\ format[7] = Text(")") /\ format[8] = Text(NL)
      BY <2>5
    <2> QED
      BY <2>1, <2>4, <2>6
  <1> HIDE DEF S, n, m, r, format
  <1>4. /\ t1 \in Seq(S) /\ t2 \in Seq(S) /\ t3 \in Seq(S) /\ t4 \in Seq(S)
        /\ t5 \in Seq(S) /\ t6 \in Seq(S) /\ t7 \in Seq(S)
    <2> HIDE DEF t1, t2, t3, t4, t5, t6, t7
    <2>1. t1 \in Seq(S)
      BY <1>1 DEF t1
    <2>2. t2 \in Seq(S)
      BY <1>1, <2>1 DEF t2
    <2>3. t3 \in Seq(S)
      BY <1>1, <2>2 DEF t3
    <2>4. t4 \in Seq(S)
      BY <1>1, <2>3 DEF t4
    <2>5. t5 \in Seq(S)
      BY <1>1, <2>4 DEF t5
    <2>6. t6 \in Seq(S)
      BY <1>1, <2>5 DEF t6
    <2>7. t7 \in Seq(S)
      BY <1>1, <2>6 DEF t7
    <2> QED
      BY <2>1, <2>2, <2>3, <2>4, <2>5, <2>6, <2>7
  <1>5. FaultText(e) = t7
    BY DEF FaultText, n, m, r
  <1>6. t7 # <<>>
    <2> HIDE DEF t6
    <2>1. Len(t7) = Len(t6) + 1 /\ Len(t6) \in Nat
      BY <1>4
    <2> HIDE DEF t7
    <2> QED
      BY <1>4, <2>1
  <1>7. PICK f : /\ f = [i \in 0 .. 8 |->
                           IF i = 0 THEN s ELSE puts(Converted(format[i]), f[i - 1])]
                 /\ printf(format, s) = f[8]
    <2>1. Len(format) \in Nat
      BY <1>3
    <2>2. \E f : /\ f = [i \in 0 .. Len(format) |->
                           IF i = 0 THEN s ELSE puts(Converted(format[i]), f[i - 1])]
                /\ printf(format, s) = f[Len(format)]
      BY <2>1, PrintfLoop
    <2> QED
      BY <1>3, <2>2, Zenon
  <1>8. ASSUME NEW i \in 1 .. 8 PROVE f[i] = puts(Converted(format[i]), f[i - 1])
    <2>1. i \in 0 .. 8 /\ i # 0
      OBVIOUS
    <2> QED
      BY <1>7, <2>1
  <1>9. /\ f[0] = s
        /\ f[1] = puts(t1, f[0]) /\ f[2] = puts(n, f[1]) /\ f[3] = puts(<<":">>, f[2])
        /\ f[4] = puts(m, f[3]) /\ f[5] = puts(<<"(">>, f[4]) /\ f[6] = puts(r, f[5])
        /\ f[7] = puts(<<")">>, f[6]) /\ f[8] = puts(<<NL>>, f[7])
    <2>0. f[0] = s
      BY <1>7
    <2>1. /\ 1 - 1 = 0 /\ 2 - 1 = 1 /\ 3 - 1 = 2 /\ 4 - 1 = 3 /\ 5 - 1 = 4
          /\ 6 - 1 = 5 /\ 7 - 1 = 6 /\ 8 - 1 = 7
      OBVIOUS
    <2>2. \A i \in {1, 2, 3, 4, 5, 6, 7, 8} : i \in 1 .. 8
      OBVIOUS
    <2> QED
      BY <1>3, <1>8, <2>0, <2>1, <2>2
  <1>10. f[7] = puts(t7, s)
    <2> HIDE DEF t1, t2, t3, t4, t5, t6, t7
    <2>1. f[1] = puts(t1, s)
      BY <1>9
    <2>2. f[2] = puts(t2, s)
      BY <1>1, <1>4, <1>9, <2>1, PutsConcat DEF t2
    <2>3. f[3] = puts(t3, s)
      <3> DEFINE sign == <<":">>
      <3>1. sign \in Seq(S)
        BY <1>1
      <3> HIDE DEF sign
      <3>2. puts(t2 \o sign, s) = puts(sign, puts(t2, s))
        BY <1>4, <3>1, PutsConcat
      <3>3. puts(t2 \o <<":">>, s) = puts(<<":">>, puts(t2, s))
        BY <3>2, Zenon DEF sign
      <3> QED
        BY <1>9, <2>2, <3>3, Zenon DEF t3
    <2>4. f[4] = puts(t4, s)
      <3>1. puts(t3 \o m, s) = puts(m, puts(t3, s))
        BY <1>1, <1>4, PutsConcat
      <3> QED
        BY <1>9, <2>3, <3>1, Zenon DEF t4
    <2>5. f[5] = puts(t5, s)
      <3> DEFINE sign == <<"(">>
      <3>1. sign \in Seq(S)
        BY <1>1
      <3> HIDE DEF sign
      <3>2. puts(t4 \o sign, s) = puts(sign, puts(t4, s))
        BY <1>4, <3>1, PutsConcat
      <3>3. puts(t4 \o <<"(">>, s) = puts(<<"(">>, puts(t4, s))
        BY <3>2, Zenon DEF sign
      <3> QED
        BY <1>9, <2>4, <3>3, Zenon DEF t5
    <2>6. f[6] = puts(t6, s)
      <3>1. puts(t5 \o r, s) = puts(r, puts(t5, s))
        BY <1>1, <1>4, PutsConcat
      <3> QED
        BY <1>9, <2>5, <3>1, Zenon DEF t6
    <2>7. puts(t6 \o <<")">>, s) = puts(<<")">>, puts(t6, s))
      <3> DEFINE sign == <<")">>
      <3>1. sign \in Seq(S)
        BY <1>1
      <3> HIDE DEF sign
      <3>2. puts(t6 \o sign, s) = puts(sign, puts(t6, s))
        BY <1>4, <3>1, PutsConcat
      <3> QED
        BY <3>2, Zenon DEF sign
    <2> QED
      BY <1>9, <2>6, <2>7, Zenon DEF t7
  <1> HIDE DEF t7
  <1> QED
    BY <1>2, <1>4, <1>5, <1>6, <1>7, <1>9, <1>10 DEF S, format

(* The message leaves the cursor on the screen, further on or in the last   *)
(* row.                                                                     *)
LEMMA MessageSound ==
    ASSUME NEW e \in Exceptions, NEW s, Sound(s), OnScreen(s)
    PROVE  LET t == printf(FaultFormat(e), s)
           IN  /\ Sound(t) /\ OnScreen(t)
               /\ Place(t) >= Place(s) \/ Place(t) >= Cols * (Rows - 1)
  <1> DEFINE q == FaultText(e)
             u == puts(q, s)
             t == printf(FaultFormat(e), s)
             nl == <<NL>>
  <1>1. q \in Seq(FaultChars(e)) /\ t = puts(nl, u)
    BY FaultMessage
  <1>2. Len(q) \in Nat /\ Len(nl) \in Nat
    <2> HIDE DEF q
    <2> QED
      BY <1>1
  <1> HIDE DEF q, t, nl
  <1>3. /\ Sound(u) /\ OnScreen(u)
        /\ Place(u) >= Place(s) + Len(q) \/ Place(u) >= Cols * (Rows - 1)
    BY <1>2, PutsSound
  <1> HIDE DEF u
  <1>4. /\ Sound(t) /\ OnScreen(t)
        /\ Place(t) >= Place(u) + Len(nl) \/ Place(t) >= Cols * (Rows - 1)
    BY <1>1, <1>2, <1>3, PutsSound
  <1>5. Place(s) \in Int /\ Place(u) \in Int /\ Place(t) \in Int /\ Cols * (Rows - 1) \in Int
    BY <1>3, <1>4, PlaceInCell, Grid DEF Cell
  <1>6. Place(t) >= Place(s) \/ Place(t) >= Cols * (Rows - 1)
    BY <1>2, <1>3, <1>4, <1>5
  <1> QED
    BY <1>4, <1>6 DEF t

-----------------------------------------------------------------------------
(* terminal_write. *)

LEMMA MoveX ==
    ASSUME NEW s, Sound(s), NEW a
    PROVE  LET t == [s EXCEPT !.x = a] IN Sound(t) /\ t.x = a /\ t.y = s.y
  <1> DEFINE t == [s EXCEPT !.x = a]
  <1>1. t = [x |-> a, y |-> s.y, cell |-> s.cell, spilled |-> s.spilled]
    BY DEF Sound
  <1> HIDE DEF t
  <1> QED
    BY <1>1 DEF Sound, t

LEMMA MoveY ==
    ASSUME NEW s, Sound(s), NEW b
    PROVE  LET t == [s EXCEPT !.y = b] IN Sound(t) /\ t.x = s.x /\ t.y = b
  <1> DEFINE t == [s EXCEPT !.y = b]
  <1>1. t = [x |-> s.x, y |-> b, cell |-> s.cell, spilled |-> s.spilled]
    BY DEF Sound
  <1> HIDE DEF t
  <1> QED
    BY <1>1 DEF Sound, t

(* The locals of terminal_write after a step to label a. *)
Located(v, a, r, inc) == [v EXCEPT !.at = a, !.reg = r, !.increment_y = inc]

LEMMA LocatedIs ==
    ASSUME NEW v, WriterRecord(v), NEW a, NEW r, NEW inc
    PROVE  /\ WriterRecord(Located(v, a, r, inc))
           /\ Located(v, a, r, inc).at = a
           /\ Located(v, a, r, inc).reg = r
           /\ Located(v, a, r, inc).increment_y = inc
  <1> DEFINE u == Located(v, a, r, inc)
             u1 == [v EXCEPT !.at = a]
             u2 == [u1 EXCEPT !.reg = r]
  <1>1. u = [u2 EXCEPT !.increment_y = inc]
    BY DEF WriterRecord, Located
  <1>2. /\ u1 = [at |-> a, todo |-> v.todo, reg |-> v.reg, increment_y |-> v.increment_y]
    BY DEF WriterRecord
  <1> HIDE DEF u1
  <1>3. u2 = [at |-> a, todo |-> v.todo, reg |-> r, increment_y |-> v.increment_y]
    BY <1>2
  <1> HIDE DEF u, u2
  <1>4. u = [at |-> a, todo |-> v.todo, reg |-> r, increment_y |-> inc]
    BY <1>1, <1>3
  <1>5. u.at = a /\ u.todo = v.todo /\ u.reg = r /\ u.increment_y = inc
    BY <1>4
  <1>6. WriterRecord(u)
    BY <1>4, <1>5 DEF WriterRecord
  <1> QED
    BY <1>5, <1>6 DEF u

(* What the line discipline gives. *)
LEMMA Erasable ==
    ASSUME BufferInv
    PROVE  /\ input_len \in Nat /\ buf_count \in Nat /\ input_len <= buf_count
           /\ buf_count <= Cols * (Rows - 1) /\ Cols * (Rows - 1) \in Nat
  <1>1. Rows - 1 \in Nat
    BY Grid
  <1>2. Cols * (Rows - 1) \in Nat
    BY <1>1, Grid
  <1> QED
    BY <1>2, ConsoleAssumption, TerminalAssumption DEF BufferInv, BufferSafe, TypeOK, Count

(* A step of putc_in_terminal that leads to a label where the invariant     *)
(* holds.                                                                   *)
LEMMA StepTo ==
    ASSUME CursorInv, NEW from, NEW to, NEW reg, NEW inc, NEW scr,
           Step(from, to, reg, inc, scr),
           Sound(scr), AtLabel(to, scr, reg, inc, input_len), BufferInv'
    PROVE  CursorInv'
  <1>1. w' = Located(w, to, reg, inc) /\ screen' = scr /\ input_len' = input_len
    BY DEF Step, Located, vars, bufVars
  <1>2. /\ WriterRecord(w') /\ w'.at = to /\ w'.reg = reg /\ w'.increment_y = inc
    BY <1>1, LocatedIs DEF CursorInv
  <1> QED
    BY <1>1, <1>2 DEF CursorInv

(* Every step of a newline. *)
LEMMA NewlineKeeps ==
    ASSUME CursorInv, NewlineStep, BufferInv'
    PROVE  CursorInv'
  <1> DEFINE n == input_len
             s == screen
  <1>a. /\ Sound(s) /\ AtLabel(w.at, s, w.reg, w.increment_y, n)
        /\ n \in Nat /\ n <= Cols * (Rows - 1) /\ Cols * (Rows - 1) \in Nat
    BY Erasable DEF CursorInv
  <1>b. Cols \in Nat /\ Cols > 0 /\ Rows \in Nat /\ Rows > 0
    BY Grid
  <1>1. CASE Step("newline", "y++", screen.y, 0, screen)
    <2>1. Behind(s, n)
      BY <1>1, <1>a DEF Step, AtLabel, WholeLabels, InCursor
    <2>2. AtLabel("y++", s, s.y, 0, n)
      BY <2>1 DEF AtLabel
    <2> QED
      BY <1>1, <1>a, <2>2, StepTo
  <1>2. CASE Step("y++", "x=0", 0, 0, [screen EXCEPT !.y = w.reg + 1])
    <2> DEFINE t == [screen EXCEPT !.y = w.reg + 1]
    <2>1. Behind(s, n) /\ w.reg = s.y
      BY <1>2, <1>a DEF Step, AtLabel, WholeLabels, InCursor
    <2>2. Sound(t) /\ t.x = s.x /\ t.y = s.y + 1
      BY <1>a, <2>1, MoveY
    <2> HIDE DEF t
    <2>3. Cols * t.y = Cols * s.y + Cols /\ Cols * s.y \in Int
      BY <2>1, <2>2, Grid DEF Behind, OnScreen
    <2>4. AtLabel("x=0", t, 0, 0, n)
      BY <1>a, <1>b, <2>1, <2>2, <2>3 DEF AtLabel, Behind, OnScreen, Place
    <2> QED
      BY <1>2, <2>2, <2>4, StepTo DEF t
  <1>3. CASE Step("x=0", "y>?", 0, 0, [screen EXCEPT !.x = 0])
    <2> DEFINE t == [screen EXCEPT !.x = 0]
    <2>1. s.y \in 1 .. Rows /\ Cols * s.y >= n
      BY <1>3, <1>a DEF Step, AtLabel, WholeLabels, InCursor
    <2>2. Sound(t) /\ t.x = 0 /\ t.y = s.y
      BY <1>a, MoveX
    <2> HIDE DEF t
    <2>3. AtLabel("y>?", t, 0, 0, n)
      BY <2>1, <2>2 DEF AtLabel
    <2> QED
      BY <1>3, <2>2, <2>3, StepTo DEF t
  <1>4. CASE Step("y>?", IF screen.y > Rows - 1 THEN "scroll" ELSE "next", 0, 0, screen)
    <2> DEFINE to == IF screen.y > Rows - 1 THEN "scroll" ELSE "next"
    <2>1. s.y \in 1 .. Rows /\ s.x = 0 /\ Cols * s.y >= n
      BY <1>4, <1>a DEF Step, AtLabel, WholeLabels, InCursor
    <2>2. CASE s.y > Rows - 1
      <3>1. AtLabel("scroll", s, 0, 0, n)
        BY <1>b, <2>1 DEF AtLabel
      <3> QED
        BY <1>4, <1>a, <2>2, <3>1, StepTo
    <2>3. CASE ~(s.y > Rows - 1)
      <3>1. Behind(s, n)
        BY <1>a, <1>b, <2>1, <2>3, Grid DEF Behind, OnScreen, Place
      <3>2. AtLabel("next", s, 0, 0, n)
        BY <3>1 DEF AtLabel, WholeLabels
      <3> QED
        BY <1>4, <1>a, <2>3, <3>2, StepTo
    <2> QED
      BY <2>2, <2>3
  <1>5. CASE Step("scroll", "y=last", 0, 0, vert_scroll(screen))
    <2>1. s.x \in 0 .. Cols - 1 /\ s.y \in Int
      BY <1>5, <1>a DEF Step, AtLabel, WholeLabels, InCursor
    <2>2. Sound(vert_scroll(s)) /\ vert_scroll(s).x = s.x /\ vert_scroll(s).y = s.y
      BY <1>a, MoveSound
    <2>3. AtLabel("y=last", vert_scroll(s), 0, 0, n)
      BY <2>1, <2>2 DEF AtLabel
    <2> QED
      BY <1>5, <2>2, <2>3, StepTo
  <1>6. CASE Step("y=last", "next", 0, 0, [screen EXCEPT !.y = Rows - 1])
    <2> DEFINE t == [screen EXCEPT !.y = Rows - 1]
    <2>1. s.x \in 0 .. Cols - 1
      BY <1>6, <1>a DEF Step, AtLabel, WholeLabels, InCursor
    <2>2. Sound(t) /\ t.x = s.x /\ t.y = Rows - 1
      BY <1>a, MoveY
    <2> HIDE DEF t
    <2>3. Behind(t, n)
      BY <1>a, <1>b, <2>1, <2>2 DEF Behind, OnScreen, Place
    <2>4. AtLabel("next", t, 0, 0, n)
      BY <2>3 DEF AtLabel, WholeLabels
    <2> QED
      BY <1>6, <2>2, <2>4, StepTo DEF t
  <1> QED
    BY <1>1, <1>2, <1>3, <1>4, <1>5, <1>6 DEF NewlineStep

(* Taking the remainder of x and carrying into the row keeps the place. *)
LEMMA Wrapped ==
    ASSUME NEW s, OnRow(s), s.x \in 1 .. Cols, NEW i, NEW r,
           i = (IF s.x = Cols THEN 1 ELSE 0), r = (IF s.x = Cols THEN 0 ELSE s.x)
    PROVE  Cols * (s.y + i) + r = Place(s)
  <1>1. /\ s.y \in Int /\ Cols * (s.y + 1) = Cols * s.y + Cols /\ Cols * s.y \in Int
        /\ s.y + 0 = s.y /\ Cols \in Nat
    BY Grid DEF OnRow
  <1>2. CASE s.x = Cols
    <2>1. i = 1 /\ r = 0
      BY <1>2
    <2> QED
      BY <1>1, <1>2, <2>1 DEF Place
  <1>3. CASE s.x # Cols
    <2>1. i = 0 /\ r = s.x
      BY <1>3
    <2> QED
      BY <1>1, <2>1 DEF Place
  <1> QED
    BY <1>2, <1>3

(* Every step of another character. *)
LEMMA CharKeeps ==
    ASSUME CursorInv, CharStep, BufferInv'
    PROVE  CursorInv'
  <1> DEFINE n == input_len
             s == screen
             i == w.increment_y
  <1>a. /\ Sound(s) /\ AtLabel(w.at, s, w.reg, i, n)
        /\ n \in Nat /\ n <= Cols * (Rows - 1) /\ Cols * (Rows - 1) \in Nat
    BY Erasable DEF CursorInv
  <1>b. Cols \in Nat /\ Cols > 0 /\ Rows \in Nat /\ Rows > 0
    BY Grid
  <1>1. CASE Step("other", "store", Cols * screen.y + screen.x, 0, screen)
    <2>1. Behind(s, n)
      BY <1>1, <1>a DEF Step, AtLabel, WholeLabels, InCursor
    <2>2. AtLabel("store", s, Cols * s.y + s.x, 0, n)
      BY <2>1 DEF AtLabel, Place
    <2> QED
      BY <1>1, <1>a, <2>2, StepTo
  <1>2. CASE Step("store", "x", 0, 0, StoreCell(screen, w.reg, Head(w.todo)))
    <2> DEFINE t == StoreCell(screen, w.reg, Head(w.todo))
    <2>1. Behind(s, n) /\ w.reg = Place(s)
      BY <1>2, <1>a DEF Step, AtLabel, WholeLabels, InCursor
    <2>2. w.reg \in Cell
      BY <2>1, PlaceInCell DEF Behind
    <2>3. Sound(t) /\ t.x = s.x /\ t.y = s.y
      BY <1>a, <2>2, StoreSound
    <2> HIDE DEF t
    <2>4. Behind(t, n)
      BY <2>1, <2>3 DEF Behind, OnScreen, Place
    <2>5. AtLabel("x", t, 0, 0, n)
      BY <2>4 DEF AtLabel, WholeLabels
    <2> QED
      BY <1>2, <2>3, <2>5, StepTo DEF t
  <1>3. CASE Step("x", "x++", screen.x, 0, screen)
    <2>1. Behind(s, n)
      BY <1>3, <1>a DEF Step, AtLabel, WholeLabels, InCursor
    <2>2. AtLabel("x++", s, s.x, 0, n)
      BY <2>1 DEF AtLabel
    <2> QED
      BY <1>3, <1>a, <2>2, StepTo
  <1>4. CASE Step("x++", "x>?", 0, 0, [screen EXCEPT !.x = w.reg + 1])
    <2> DEFINE t == [screen EXCEPT !.x = w.reg + 1]
    <2>1. Behind(s, n) /\ w.reg = s.x
      BY <1>4, <1>a DEF Step, AtLabel, WholeLabels, InCursor
    <2>2. Sound(t) /\ t.x = s.x + 1 /\ t.y = s.y
      BY <1>a, <2>1, MoveX
    <2> HIDE DEF t
    <2>3. Cols * t.y = Cols * s.y /\ Cols * s.y \in Int
      BY <2>1, <2>2, Grid DEF Behind, OnScreen
    <2>4. AtLabel("x>?", t, 0, 0, n)
      BY <1>a, <1>b, <2>1, <2>2, <2>3 DEF AtLabel, Behind, OnScreen, OnRow, Place
    <2> QED
      BY <1>4, <2>2, <2>4, StepTo DEF t
  <1>5. CASE Step("x>?", "x%", 0, IF screen.x > Cols - 1 THEN 1 ELSE 0, screen)
    <2> DEFINE inc == IF screen.x > Cols - 1 THEN 1 ELSE 0
    <2>1. OnRow(s) /\ s.x \in 1 .. Cols /\ Place(s) >= n
      BY <1>5, <1>a DEF Step, AtLabel, WholeLabels, InCursor
    <2>2. inc = IF s.x = Cols THEN 1 ELSE 0
      BY <1>b, <2>1
    <2> HIDE DEF inc
    <2>3. AtLabel("x%", s, 0, inc, n)
      BY <2>1, <2>2 DEF AtLabel
    <2> QED
      BY <1>5, <1>a, <2>3, StepTo DEF inc
  <1>6. CASE Step("x%", "x%=", Rem(screen.x, Cols), w.increment_y, screen)
    <2>1. /\ OnRow(s) /\ s.x \in 1 .. Cols /\ Place(s) >= n
          /\ i = IF s.x = Cols THEN 1 ELSE 0
      BY <1>6, <1>a DEF Step, AtLabel, WholeLabels, InCursor
    <2>2. Rem(s.x, Cols) = IF s.x = Cols THEN 0 ELSE s.x
      BY <1>b, <2>1, RemOnce
    <2>3. AtLabel("x%=", s, Rem(s.x, Cols), i, n)
      BY <2>1, <2>2 DEF AtLabel
    <2> QED
      BY <1>6, <1>a, <2>3, StepTo
  <1>7. CASE Step("x%=", "row>?", 0, w.increment_y, [screen EXCEPT !.x = w.reg])
    <2> DEFINE t == [screen EXCEPT !.x = w.reg]
    <2>1. /\ OnRow(s) /\ s.x \in 1 .. Cols /\ Place(s) >= n
          /\ i = (IF s.x = Cols THEN 1 ELSE 0) /\ w.reg = (IF s.x = Cols THEN 0 ELSE s.x)
      BY <1>7, <1>a DEF Step, AtLabel, WholeLabels, InCursor
    <2>2. Sound(t) /\ t.x = w.reg /\ t.y = s.y
      BY <1>a, MoveX
    <2> HIDE DEF t
    <2>3. Cols * (s.y + i) + w.reg = Place(s)
      BY <2>1, Wrapped
    <2>4. AtLabel("row>?", t, 0, i, n)
      <3>1. OnRow(t) /\ t.x \in 0 .. Cols - 1 /\ i \in {0, 1}
        BY <1>b, <2>1, <2>2 DEF OnRow
      <3>2. Cols * (t.y + i) + t.x >= n
        BY <2>1, <2>2, <2>3
      <3> QED
        BY <3>1, <3>2 DEF AtLabel
    <2> QED
      BY <1>7, <2>2, <2>4, StepTo DEF t
  <1>8. CASE Step("row>?", IF Row(screen) > Rows - 1 THEN "scroll" ELSE "row",
                  0, w.increment_y, screen)
    <2>1. /\ OnRow(s) /\ s.x \in 0 .. Cols - 1 /\ i \in {0, 1}
          /\ Cols * (s.y + i) + s.x >= n
      BY <1>8, <1>a DEF Step, AtLabel, WholeLabels, InCursor
    <2>2. Row(s) = s.y + i
      <3>1. s.x \div Cols = 0
        BY <1>b, <2>1
      <3> QED
        BY <2>1, <3>1 DEF Row, OnRow
    <2>3. CASE Row(s) > Rows - 1
      <3>1. AtLabel("scroll", s, 0, i, n)
        BY <1>b, <2>1 DEF AtLabel, OnRow
      <3> QED
        BY <1>8, <1>a, <2>3, <3>1, StepTo
    <2>4. CASE ~(Row(s) > Rows - 1)
      <3>1. AtLabel("row", s, 0, i, n)
        BY <1>b, <2>1, <2>2, <2>4 DEF AtLabel, OnRow
      <3> QED
        BY <1>8, <1>a, <2>4, <3>1, StepTo
    <2> QED
      BY <2>3, <2>4
  <1>9. CASE Step("row", "y=row", Rem(Row(screen), Rows), 0, screen)
    <2>1. /\ OnRow(s) /\ s.x \in 0 .. Cols - 1 /\ i \in {0, 1}
          /\ s.y + i <= Rows - 1 /\ Cols * (s.y + i) + s.x >= n
      BY <1>9, <1>a DEF Step, AtLabel, WholeLabels, InCursor
    <2>2. Row(s) = s.y + i
      <3>1. s.x \div Cols = 0
        BY <1>b, <2>1
      <3> QED
        BY <2>1, <3>1 DEF Row, OnRow
    <2>3. s.y + i \in 0 .. Rows - 1
      BY <1>b, <2>1 DEF OnRow
    <2>4. Rem(Row(s), Rows) = s.y + i
      BY <1>b, <2>2, <2>3, RemOnce
    <2>5. AtLabel("y=row", s, Rem(Row(s), Rows), 0, n)
      BY <2>1, <2>3, <2>4 DEF AtLabel
    <2> QED
      BY <1>9, <1>a, <2>5, StepTo
  <1>10. CASE Step("y=row", "next", 0, 0, [screen EXCEPT !.y = w.reg])
    <2> DEFINE t == [screen EXCEPT !.y = w.reg]
    <2>1. s.x \in 0 .. Cols - 1 /\ w.reg \in 0 .. Rows - 1 /\ Cols * w.reg + s.x >= n
      BY <1>10, <1>a DEF Step, AtLabel, WholeLabels, InCursor
    <2>2. Sound(t) /\ t.x = s.x /\ t.y = w.reg
      BY <1>a, MoveY
    <2> HIDE DEF t
    <2>3. Behind(t, n)
      BY <2>1, <2>2 DEF Behind, OnScreen, Place
    <2>4. AtLabel("next", t, 0, 0, n)
      BY <2>3 DEF AtLabel, WholeLabels
    <2> QED
      BY <1>10, <2>2, <2>4, StepTo DEF t
  <1> QED
    BY <1>1, <1>2, <1>3, <1>4, <1>5, <1>6, <1>7, <1>8, <1>9, <1>10 DEF CharStep

(* Where the loop and move_cursor lead. *)
LEMMA LoopLabels ==
    ASSUME WriterRecord(w), LoopStep \/ CursorStep
    PROVE  WriterRecord(w') /\ w'.at \in WholeLabels
  <1>1. WriterRecord(w)
    OBVIOUS
  <1>2. WriterRecord(Idle) /\ Idle.at = "idle"
    BY DEF WriterRecord, Idle
  <1>3. ASSUME NEW a, w' = [w EXCEPT !.at = a] PROVE WriterRecord(w') /\ w'.at = a
    BY <1>1, <1>3 DEF WriterRecord
  <1>4. ASSUME NEW a, NEW b, w' = [w EXCEPT !.at = a, !.todo = b]
        PROVE  WriterRecord(w') /\ w'.at = a
    <2> DEFINE u == [w EXCEPT !.at = a]
    <2>1. w' = [u EXCEPT !.todo = b]
      BY <1>1, <1>4 DEF WriterRecord
    <2>2. u = [at |-> a, todo |-> w.todo, reg |-> w.reg, increment_y |-> w.increment_y]
      BY <1>1 DEF WriterRecord
    <2> HIDE DEF u
    <2>3. w' = [at |-> a, todo |-> b, reg |-> w.reg, increment_y |-> w.increment_y]
      BY <2>1, <2>2
    <2> QED
      BY <2>3 DEF WriterRecord
  <1>5. ASSUME NEW a, NEW b, w' = [w EXCEPT !.at = a, !.reg = b]
        PROVE  WriterRecord(w') /\ w'.at = a
    <2> DEFINE u == [w EXCEPT !.at = a]
    <2>1. w' = [u EXCEPT !.reg = b]
      BY <1>1, <1>5 DEF WriterRecord
    <2>2. u = [at |-> a, todo |-> w.todo, reg |-> w.reg, increment_y |-> w.increment_y]
      BY <1>1 DEF WriterRecord
    <2> HIDE DEF u
    <2>3. w' = [at |-> a, todo |-> w.todo, reg |-> b, increment_y |-> w.increment_y]
      BY <2>1, <2>2
    <2> QED
      BY <2>3 DEF WriterRecord
  <1>6. CASE LoopStep
    <2>1. CASE w.at = "char" /\ w.todo # <<>>
               /\ w' = [w EXCEPT !.at = IF Head(w.todo) = NL THEN "newline" ELSE "other"]
      <3> DEFINE a == IF Head(w.todo) = NL THEN "newline" ELSE "other"
      <3>1. a \in WholeLabels
        BY DEF WholeLabels
      <3>2. w' = [w EXCEPT !.at = a]
        BY <2>1
      <3> HIDE DEF a
      <3> QED
        BY <1>3, <3>1, <3>2
    <2>2. CASE w.at = "next" /\ w' = [w EXCEPT !.at = "char", !.todo = Tail(@)]
      <3>1. w' = [w EXCEPT !.at = "char", !.todo = Tail(w.todo)]
        BY <1>1, <2>2 DEF WriterRecord
      <3>2. WriterRecord(w') /\ w'.at = "char"
        BY <1>4, <3>1
      <3> QED
        BY <3>2 DEF WholeLabels
    <2>3. CASE w' = IF current_terminal = Own THEN [w EXCEPT !.at = "cursor"] ELSE Idle
      <3>1. CASE current_terminal = Own
        <4>1. WriterRecord(w') /\ w'.at = "cursor"
          BY <1>3, <2>3, <3>1
        <4> QED
          BY <4>1 DEF WholeLabels, InCursor
      <3>2. CASE current_terminal # Own
        BY <1>2, <2>3, <3>2 DEF WholeLabels
      <3> QED
        BY <3>1, <3>2
    <2> QED
      BY <1>6, <2>1, <2>2, <2>3 DEF LoopStep
  <1>7. CASE CursorStep
    <2>1. CASE w' = [w EXCEPT !.at = "low", !.reg = Position(Own, screen)]
      <3>1. WriterRecord(w') /\ w'.at = "low"
        BY <1>5, <2>1
      <3> QED
        BY <3>1 DEF WholeLabels, InCursor
    <2>2. CASE \E a \in {"lowdata", "high", "highdata"} : w' = [w EXCEPT !.at = a]
      <3>1. PICK a \in {"lowdata", "high", "highdata"} : w' = [w EXCEPT !.at = a]
        BY <2>2
      <3>2. WriterRecord(w') /\ w'.at = a
        BY <1>3, <3>1
      <3> QED
        BY <3>2 DEF WholeLabels, InCursor
    <2>3. CASE w' = Idle
      BY <1>2, <2>3 DEF WholeLabels
    <2> QED
      BY <1>7, <2>1, <2>2, <2>3 DEF CursorStep
  <1> QED
    BY <1>6, <1>7

(* The loop and move_cursor leave the screen alone. *)
LEMMA LoopKeeps ==
    ASSUME CursorInv, LoopStep \/ CursorStep, BufferInv'
    PROVE  CursorInv'
  <1>1. screen' = screen /\ input_len' = input_len
    BY DEF LoopStep, CursorStep, vars, bufVars
  <1>2. w.at \in {"char", "next"} \cup InCursor
    BY DEF LoopStep, CursorStep, InCursor
  <1>3. Behind(screen, input_len)
    BY <1>2 DEF CursorInv, AtLabel, WholeLabels, InCursor
  <1>4. WriterRecord(w') /\ w'.at \in WholeLabels
    BY LoopLabels DEF CursorInv
  <1>5. AtLabel(w'.at, screen, w'.reg, w'.increment_y, input_len)
    BY <1>3, <1>4 DEF AtLabel
  <1> QED
    BY <1>1, <1>4, <1>5 DEF CursorInv

-----------------------------------------------------------------------------
(* Keys, faults and reads. *)

(* clear_terminal. *)
LEMMA ClearSound ==
    ASSUME NEW s, Sound(s)
    PROVE  Sound(clear_terminal(s)) /\ OnScreen(clear_terminal(s)) /\ Place(clear_terminal(s)) = 0
  <1> DEFINE t == clear_terminal(s)
             f == [i \in Cell |-> Blank]
  <1>1. t = [x |-> 0, y |-> 0, cell |-> f, spilled |-> s.spilled]
    <2> HIDE DEF f
    <2>1. clear = [x |-> 0, y |-> 0, cell |-> f, spilled |-> FALSE]
      BY DEF clear, f
    <2> QED
      BY <2>1 DEF clear_terminal
  <1> HIDE DEF t, f
  <1>2. t.x = 0 /\ t.y = 0 /\ t.cell = f /\ t.spilled = s.spilled
    BY <1>1
  <1>3. Sound(t)
    BY <1>1, <1>2 DEF Sound
  <1>4. OnScreen(t) /\ Place(t) = 0
    <2>1. Cols * 0 + 0 = 0 /\ 0 \in 0 .. Cols - 1 /\ 0 \in 0 .. Rows - 1
      BY Grid
    <2> QED
      BY <1>2, <2>1 DEF OnScreen, Place
  <1> QED
    BY <1>3, <1>4 DEF t

(* Whatever is written to the screen leaves the erasable characters behind  *)
(* the cursor when it leaves the writer at a label between two characters.  *)
LEMMA ScreenTo ==
    ASSUME NEW s, Sound(s), NEW v, WriterRecord(v), v.at \in WholeLabels, NEW n, Behind(s, n),
           BufferInv', screen' = s, w' = v, input_len' = n
    PROVE  CursorInv'
  <1>1. AtLabel(v.at, s, v.reg, v.increment_y, n)
    BY DEF AtLabel
  <1> QED
    BY <1>1 DEF CursorInv

LEMMA CursorInit == ConsoleInit => CursorInv
  <1> SUFFICES ASSUME ConsoleInit PROVE CursorInv
    OBVIOUS
  <1>1. BufferInv /\ input_len = 0 /\ screen = clear /\ w = Idle
    BY BufferInit DEF ConsoleInit, Init
  <1> DEFINE f == [i \in Cell |-> Blank]
  <1>2. screen = [x |-> 0, y |-> 0, cell |-> f, spilled |-> FALSE]
    BY <1>1 DEF clear
  <1> HIDE DEF f
  <1>3. Sound(screen)
    <2>1. screen.x = 0 /\ screen.y = 0 /\ screen.cell = f
      BY <1>2
    <2>2. screen.spilled = FALSE
      BY <1>2, Zenon
    <2> QED
      BY <1>2, <2>1, <2>2, Zenon DEF Sound
  <1>4. Behind(screen, 0)
    BY <1>2, Grid DEF Behind, OnScreen, Place
  <1>5. WriterRecord(w) /\ w.at \in WholeLabels
    BY <1>1 DEF WriterRecord, Idle, WholeLabels
  <1> QED
    BY <1>1, <1>3, <1>4, <1>5 DEF CursorInv, AtLabel

(* The line discipline does not see the screen. *)
LEMMA ConsoleBuffer ==
    ASSUME ~TypeAhead, ~BadBuffers, 0 \notin ReadSizes, BufferInv, [ConsoleNext]_cvars
    PROVE  BufferInv'
  <1>1. [Next]_vars
    BY DEF ConsoleNext, cvars, EchoReturn, EchoBackspace, EchoChar, CtrlL, OtherKey,
           SwitchTerminal, WriteStart, Writer, NewlineStep, CharStep, LoopStep, CursorStep,
           Step, Fault, Reading, Next
  <1> QED
    BY <1>1, BufferStep

(* Every step of the console. *)
LEMMA CursorKept ==
    ASSUME ~TypeAhead, ~BadBuffers, 0 \notin ReadSizes, "putc" \notin KeysHit
    PROVE  CursorInv /\ [ConsoleNext]_cvars => CursorInv'
  <1> SUFFICES ASSUME CursorInv, [ConsoleNext]_cvars PROVE CursorInv'
    OBVIOUS
  <1>a. BufferInv'
    BY ConsoleBuffer DEF CursorInv
  <1>b. /\ input_len \in Nat /\ buf_count \in Nat /\ input_len <= buf_count
        /\ buf_count <= Cols * (Rows - 1) /\ Cols * (Rows - 1) \in Nat
        /\ Sound(screen) /\ WriterRecord(w)
    BY Erasable DEF CursorInv
  <1>c. ASSUME OwnKey
        PROVE  /\ w.at \in WholeLabels /\ w' = w /\ Behind(screen, input_len)
               /\ OnScreen(screen) /\ Place(screen) \in Nat
    <2>1. w.at \in {"idle"} \cup InCursor /\ w' = w
      BY <1>c DEF OwnKey
    <2>2. Behind(screen, input_len)
      BY <2>1 DEF CursorInv, AtLabel, WholeLabels, InCursor
    <2>3. OnScreen(screen) /\ Place(screen) \in Nat
      BY <2>2, PlaceInCell, Grid DEF Behind, Cell
    <2> QED
      BY <2>1, <2>2, <2>3 DEF WholeLabels
  <1>d. WriterRecord(Idle) /\ Idle.at \in WholeLabels
    BY DEF WriterRecord, Idle, WholeLabels
  <1>1. CASE EchoReturn
    <2>1. OwnKey /\ screen' = putc_in_terminal(NL, screen) /\ input_len' = 0
      BY <1>1 DEF EchoReturn, Echo, KeyReturn
    <2> DEFINE t == putc_in_terminal(NL, screen)
    <2>2. Sound(t) /\ OnScreen(t)
      BY <1>b, <1>c, <2>1, PutcSound
    <2> HIDE DEF t
    <2>3. Behind(t, 0)
      BY <2>2, PlaceInCell, Grid DEF Behind, Cell
    <2> QED
      BY <1>a, <1>b, <1>c, <2>1, <2>2, <2>3, ScreenTo DEF t
  <1>2. CASE EchoBackspace
    <2>1. /\ OwnKey /\ screen' = backspace_fnc(screen)
          /\ input_len # 0 /\ input_len' = input_len - 1
      BY <1>2 DEF EchoBackspace, Echo, KeyBackspace
    <2>2. Place(screen) >= 1 /\ Place(screen) >= input_len
      BY <1>b, <1>c, <2>1 DEF Behind
    <2> DEFINE t == backspace_fnc(screen)
    <2>3. Sound(t) /\ OnScreen(t) /\ Place(t) = Place(screen) - 1
      BY <1>b, <1>c, <2>1, <2>2, BackspaceSound
    <2> HIDE DEF t
    <2>4. Behind(t, input_len - 1)
      BY <1>b, <1>c, <2>1, <2>2, <2>3 DEF Behind
    <2> QED
      BY <1>a, <1>b, <1>c, <2>1, <2>3, <2>4, ScreenTo DEF t
  <1>3. ASSUME NEW c \in Chars, EchoChar(c) PROVE CursorInv'
    <2>1. /\ OwnKey /\ screen' = putc_in_terminal(c, screen)
          /\ input_len' = input_len + 1 /\ buf_count < LineBufMax - 1 - 1
      BY <1>3 DEF EchoChar, Echo, KeyChar, RoomForChar
    <2>2. input_len + 1 <= Cols * (Rows - 1)
      BY <1>b, <2>1, ConsoleAssumption, TerminalAssumption
    <2> DEFINE t == putc_in_terminal(c, screen)
    <2>3. /\ Sound(t) /\ OnScreen(t)
          /\ Place(t) >= Place(screen) + 1 \/ Place(t) >= Cols * (Rows - 1)
      BY <1>b, <1>c, <2>1, PutcSound
    <2> HIDE DEF t
    <2>4. Place(screen) >= input_len /\ Place(screen) \in Nat
      BY <1>c, <2>1 DEF Behind
    <2>5. Place(t) \in Int
      BY <2>3, PlaceInCell, Grid DEF Cell
    <2>6. Behind(t, input_len + 1)
      BY <1>b, <2>2, <2>3, <2>4, <2>5 DEF Behind
    <2> QED
      BY <1>a, <1>b, <1>c, <2>1, <2>3, <2>6, ScreenTo DEF t
  <1>4. CASE CtrlL
    <2>1. OwnKey /\ screen' = ClearScreen /\ input_len' = input_len
      BY <1>4 DEF CtrlL, Echo, vars, bufVars
    <2> DEFINE t == clear_terminal(screen)
    <2>2. Sound(t) /\ OnScreen(t) /\ Place(t) = 0
      BY <1>b, ClearSound
    <2> HIDE DEF t
    <2>3. Len(Line(buf_count)) = buf_count
      BY <1>b DEF Line
    <2>4. ClearScreen = puts(Line(buf_count), t)
      BY DEF ClearScreen, t
    <2> DEFINE u == ClearScreen
    <2>5. /\ Sound(u) /\ OnScreen(u)
          /\ Place(u) >= Place(t) + buf_count \/ Place(u) >= Cols * (Rows - 1)
      BY <1>b, <2>2, <2>3, <2>4, PutsSound
    <2> HIDE DEF u
    <2>6. Place(u) \in Int
      BY <2>5, PlaceInCell, Grid DEF Cell
    <2>7. Behind(u, input_len)
      BY <1>b, <2>2, <2>5, <2>6 DEF Behind
    <2> QED
      BY <1>a, <1>b, <1>c, <2>1, <2>5, <2>7, ScreenTo DEF u
  <1>5. CASE UNCHANGED <<screen, w, input_len>>
    BY <1>5, <1>a DEF CursorInv
  <1>6. CASE OtherKey
    BY <1>5, <1>6 DEF OtherKey, vars, bufVars
  <1>7. ASSUME NEW t \in {Own, Other}, SwitchTerminal(t) PROVE CursorInv'
    BY <1>5, <1>7 DEF SwitchTerminal, vars, bufVars
  <1>8. ASSUME NEW text \in Texts, WriteStart(text) PROVE CursorInv'
    <2>1. /\ w.at = "idle" /\ UNCHANGED <<screen, input_len>>
          /\ w' = [Idle EXCEPT !.at = "char", !.todo = text]
      BY <1>8 DEF WriteStart, vars, bufVars
    <2>2. Behind(screen, input_len)
      BY <2>1 DEF CursorInv, AtLabel, WholeLabels, InCursor
    <2>3. w' = [at |-> "char", todo |-> text, reg |-> 0, increment_y |-> 0]
      BY <2>1 DEF Idle
    <2>4. WriterRecord(w') /\ w'.at \in WholeLabels
      BY <2>3 DEF WriterRecord, WholeLabels
    <2> QED
      BY <1>a, <1>b, <2>1, <2>2, <2>4, ScreenTo
  <1>9. CASE Writer
    BY <1>9, <1>a, NewlineKeeps, CharKeeps, LoopKeeps DEF Writer
  <1>10. ASSUME NEW e \in Exceptions, Fault(e) PROVE CursorInv'
    <2> DEFINE t == printf(FaultFormat(e), screen)
    <2>1. w.at \in {"idle", "char"} /\ screen' = t /\ w' = Idle /\ input_len' = input_len
      BY <1>10 DEF Fault, FaultScreen, ReadFault, vars, bufVars
    <2>2. Behind(screen, input_len)
      BY <2>1 DEF CursorInv, AtLabel, WholeLabels, InCursor
    <2>3. /\ Sound(t) /\ OnScreen(t)
          /\ Place(t) >= Place(screen) \/ Place(t) >= Cols * (Rows - 1)
      BY <1>b, <2>2, MessageSound DEF Behind
    <2> HIDE DEF t
    <2>4. Place(t) \in Int /\ Place(screen) \in Int
      BY <2>2, <2>3, PlaceInCell, Grid DEF Cell, Behind
    <2>5. Behind(t, input_len)
      BY <1>b, <2>2, <2>3, <2>4 DEF Behind
    <2> QED
      BY <1>a, <1>d, <2>1, <2>3, <2>5, ScreenTo
  <1>11. ASSUME NEW n \in ReadSizes, Reading(ReadStart(n)) PROVE CursorInv'
    BY <1>5, <1>11 DEF Reading, consoleVars, ReadStart, bufVars
  <1>12. CASE Reading(Reader)
    BY <1>5, <1>12 DEF Reading, consoleVars, Reader, ReadArm, ReadCopy, ReadRelease,
                      ReadReturn, bufVars
  <1>13. CASE UNCHANGED cvars
    BY <1>5, <1>13 DEF cvars, consoleVars, vars, bufVars
  <1> QED
    BY <1>1, <1>2, <1>3, <1>4, <1>6, <1>7, <1>8, <1>9, <1>10, <1>11, <1>12, <1>13
       DEF ConsoleNext

(* The cursor stays on the screen and no store misses it, for every size of *)
(* screen and line buffer, every text and every exception, when keys do not *)
(* come inside putc_in_terminal or during the copy of terminal_read.        *)
THEOREM CursorOnScreenHolds ==
    ASSUME ~TypeAhead, ~BadBuffers, 0 \notin ReadSizes, "putc" \notin KeysHit
    PROVE  ConsoleSpec => []CursorOnScreen
  <1>1. CursorInv => CursorOnScreen
    <2> SUFFICES ASSUME CursorInv PROVE CursorOnScreen
      OBVIOUS
    <2>1. ~screen.spilled
      BY DEF CursorInv, Sound
    <2>2. w.at = "idle" => OnScreen(screen)
      BY DEF CursorInv, AtLabel, WholeLabels, InCursor, Behind
    <2> QED
      BY <2>1, <2>2 DEF CursorOnScreen
  <1> QED
    BY <1>1, CursorInit, CursorKept, PTL DEF ConsoleSpec
=============================================================================
