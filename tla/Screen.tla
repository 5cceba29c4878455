------------------------------- MODULE Screen -------------------------------
(***************************************************************************)
(* The text screens and the VGA registers (lib.c).  A screen is the record *)
(* [x, y, cell, spilled] of a screen_t and the page its video_mem points   *)
(* to; the attribute bytes are left out.  A store whose address is outside *)
(* of the Rows * Cols cells sets spilled: it lands in what lies next to    *)
(* the page.  The generic screen of putc, puts and printf (screen_x,       *)
(* screen_y and video_mem of lib.c) is such a record too.                  *)
(***************************************************************************)
EXTENDS Integers, Sequences

CONSTANTS
    Cols, Rows,    \* NUM_COLS, NUM_ROWS
    Newline,       \* '\n' and '\r'
    ByteSize,      \* what a VGA data register holds: 256
    PageCells      \* PAGE_SIZE >> 1, the distance of two terminals' pages

Blank == " "
Digits == <<"0", "1", "2", "3", "4", "5", "6", "7", "8", "9",
            "A", "B", "C", "D", "E", "F">>

ASSUME ScreenAssumption ==
    /\ Cols \in Nat \ {0} /\ Rows \in Nat \ {0} /\ ByteSize \in Nat \ {0}
    /\ PageCells \in Nat /\ PageCells >= Rows * Cols /\ PageCells % ByteSize = 0
    /\ PageCells < ByteSize * ByteSize
    /\ Newline # Blank /\ \A i \in 1 .. 16 : Newline # Digits[i]

Cell == 0 .. Rows * Cols - 1

(* A screen as clear and kybd_init leave it. *)
clear == [x |-> 0, y |-> 0, cell |-> [i \in Cell |-> Blank], spilled |-> FALSE]

OnScreen(s) == s.x \in 0 .. Cols - 1 /\ s.y \in 0 .. Rows - 1

(* C's remainder of a by b has the sign of a. *)
Rem(a, b) == IF a >= 0 THEN a % b ELSE -((-a) % b)

StoreCell(s, i, c) ==
    IF i \in Cell THEN [s EXCEPT !.cell[i] = c] ELSE [s EXCEPT !.spilled = TRUE]

clear_terminal(s) == [clear EXCEPT !.spilled = s.spilled]

vert_scroll(s) ==
    [s EXCEPT !.cell = [i \in Cell |->
        IF i < (Rows - 1) * Cols THEN s.cell[i + Cols] ELSE Blank]]

putc_in_terminal_NoLastRow(c, s) ==   \* variant: scrolls, but leaves y behind
    LET newline  == c = Newline
        stored   == IF newline THEN s ELSE StoreCell(s, Cols * s.y + s.x, c)
        x        == IF newline THEN 0 ELSE Rem(s.x + 1, Cols)
        y        == s.y + (IF newline \/ s.x + 1 > Cols - 1 THEN 1 ELSE 0)
    IN  [(IF y > Rows - 1 THEN vert_scroll(stored) ELSE stored) EXCEPT !.x = x, !.y = y]

putc_in_terminal(c, s) ==
    LET newline  == c = Newline
        stored   == IF newline THEN s ELSE StoreCell(s, Cols * s.y + s.x, c)
        x        == IF newline THEN 0 ELSE Rem(s.x + 1, Cols)
        y        == s.y + (IF newline \/ s.x + 1 > Cols - 1 THEN 1 ELSE 0)
    IN  IF y > Rows - 1
        THEN [vert_scroll(stored) EXCEPT !.x = x, !.y = Rows - 1]
        ELSE [stored EXCEPT !.x = x, !.y = IF newline THEN y ELSE Rem(y, Rows)]

(* At the left edge the cursor goes up to the end of the row above, both    *)
(* before the blank is put there and after it.                              *)
backspace_fnc(s) ==
    IF s.x = 0
    THEN LET t == putc_in_terminal(Blank, [s EXCEPT !.x = Cols - 1, !.y = @ - 1])
         IN  [t EXCEPT !.x = Cols - 1, !.y = @ - 1]
    ELSE LET t == putc_in_terminal(Blank, [s EXCEPT !.x = @ - 1])
         IN  [t EXCEPT !.x = @ - 1]

-----------------------------------------------------------------------------
(* The generic console: putc is putc_in_terminal on screen_x, screen_y and  *)
(* video_mem.                                                               *)
putc(c, s) == putc_in_terminal(c, s)

puts(str, s) ==
    LET loop[i \in 0 .. Len(str)] == IF i = 0 THEN s ELSE putc(str[i], loop[i - 1])
    IN  loop[Len(str)]

strrev(s) == [i \in 1 .. Len(s) |-> s[Len(s) + 1 - i]]

(* The loop adds the digits from the lowest to the highest. *)
itoa(value, radix) ==
    LET loop[v \in 0 .. value] ==
          IF v = 0 THEN <<>> ELSE <<Digits[(v % radix) + 1]>> \o loop[v \div radix]
    IN  IF value = 0 THEN <<"0">> ELSE strrev(loop[value])

(* What printf prints for one piece of its format: a conversion with its    *)
(* argument, or text.  A digit string is filled up to eight for %#x.        *)
Converted(item) ==
    CASE item.conv = "text" -> item.arg
      [] item.conv = "%s"   -> item.arg
      [] item.conv = "%c"   -> <<item.arg>>
      [] item.conv = "%u"   -> itoa(item.arg, 10)
      [] item.conv = "%x"   -> itoa(item.arg, 16)
      [] item.conv = "%d"   -> IF item.arg < 0 THEN <<"-">> \o itoa(-item.arg, 10)
                                               ELSE itoa(item.arg, 10)
      [] item.conv = "%#x"  -> LET d == itoa(item.arg, 16)
                               IN  [i \in 1 .. 8 - Len(d) |-> "0"] \o d

printf(format, s) ==
    LET loop[i \in 0 .. Len(format)] ==
          IF i = 0 THEN s ELSE puts(Converted(format[i]), loop[i - 1])
    IN  loop[Len(format)]

-----------------------------------------------------------------------------
(* The VGA registers: two outb write the index register and then the data   *)
(* register it selects.                                                     *)
VgaRegs == {"START_HIGH", "START_LOW", "CURSOR_HIGH", "CURSOR_LOW"}

Select(v, r) == [v EXCEPT !.index = r]
Data(v, b)   == [v EXCEPT !.reg[v.index] = b % ByteSize]
Out(v, r, b) == Data(Select(v, r), b)

set_vga_start(v, term) ==
    LET addr == term * PageCells
    IN  Out(Out(v, "START_LOW", addr), "START_HIGH", addr \div ByteSize)

Position(term, s) == s.y * Cols + s.x + term * PageCells

move_cursor(v, term, s) ==
    LET position == Position(term, s)
    IN  Out(Out(v, "CURSOR_LOW", position), "CURSOR_HIGH", position \div ByteSize)

(* The terminal whose page the display starts at. *)
Shown(v) == (v.reg["START_HIGH"] * ByteSize + v.reg["START_LOW"]) \div PageCells
=============================================================================
