------------------------- MODULE ConsoleTextProofs -------------------------
(***************************************************************************)
(* Proofs about what is on the screen: the line being typed, and the       *)
(* message of a fault.                                                     *)
(***************************************************************************)
EXTENDS ConsoleProofs

(* A page is a function on the cells; from cell p on it is blank. *)
Full(s) == s.cell = [i \in Cell |-> s.cell[i]]
BlankFrom(s, p) == \A j \in Cell : j >= p => s.cell[j] = Blank

(* What is behind the cursor at each label of terminal_write. *)
BlankAt(a, s, r, inc) ==
    \/ a \in WholeLabels \cup {"y++", "store", "x>?", "x%", "x%="}
       /\ BlankFrom(s, Place(s))
    \/ a \in {"x", "x++"} /\ BlankFrom(s, Place(s) + 1)
    \/ a \in {"x=0", "y>?"} /\ BlankFrom(s, Cols * s.y)
    \/ a = "scroll"
    \/ a = "y=last" /\ BlankFrom(s, Cols * (Rows - 1))
    \/ a \in {"row>?", "row"} /\ BlankFrom(s, Cols * (s.y + inc) + s.x)
    \/ a = "y=row" /\ BlankFrom(s, Cols * r + s.x)

BlankInv ==
    /\ CursorInv
    /\ Full(screen)
    /\ BlankAt(w.at, screen, w.reg, w.increment_y)

(* What Backspace may erase was typed. *)
Typed == \A i \in 1 .. input_len : line_buf[buf_count - i] \in Chars

(* The typed line is before the cursor. *)
ShownInv ==
    typed_only =>
        /\ w.at \in {"idle"} \cup InCursor \/ input_len = 0
        /\ \A i \in 1 .. input_len : screen.cell[Place(screen) - i] = line_buf[buf_count - i]

(* A message that must be seen is the last thing the program wrote. *)
ReportInv == (report # <<>> => w.at = "idle") /\ FaultReported

-----------------------------------------------------------------------------
(* The operators of the screen, cell by cell. *)

LEMMA LastRow ==
    /\ Rows * Cols \in Nat /\ Cols * (Rows - 1) \in Nat
    /\ (Rows - 1) * Cols = Cols * (Rows - 1) /\ Rows * Cols = Cols * (Rows - 1) + Cols
  <1>1. Rows - 1 \in Nat /\ Cols \in Nat /\ Rows \in Nat
    BY Grid
  <1> QED
    BY <1>1

LEMMA StoreCells ==
    ASSUME NEW s, Sound(s), Full(s), NEW i \in Cell, NEW c
    PROVE  StoreCell(s, i, c).cell = [j \in Cell |-> IF j = i THEN c ELSE s.cell[j]]
  <1>1. StoreCell(s, i, c) = [x |-> s.x, y |-> s.y, cell |-> [s.cell EXCEPT ![i] = c],
                              spilled |-> s.spilled]
    BY DEF StoreCell, Sound
  <1>2. StoreCell(s, i, c).cell = [s.cell EXCEPT ![i] = c]
    BY <1>1
  <1>3. [s.cell EXCEPT ![i] = c] = [j \in Cell |-> IF j = i THEN c ELSE s.cell[j]]
    BY DEF Full
  <1> QED
    BY <1>2, <1>3

LEMMA MovedCells ==
    ASSUME NEW s, Sound(s), NEW a, NEW b
    PROVE  Moved(s, a, b).cell = s.cell
  <1> DEFINE m == [s EXCEPT !.x = a]
  <1>1. Moved(s, a, b) = [m EXCEPT !.y = b]
    BY DEF Sound, Moved
  <1>2. m = [x |-> a, y |-> s.y, cell |-> s.cell, spilled |-> s.spilled]
    BY DEF Sound
  <1> HIDE DEF m
  <1> QED
    BY <1>1, <1>2

LEMMA MoveCells ==
    ASSUME NEW s, Sound(s), NEW a
    PROVE  [s EXCEPT !.x = a].cell = s.cell /\ [s EXCEPT !.y = a].cell = s.cell
  BY DEF Sound

LEMMA ScrollCells ==
    ASSUME NEW s, Sound(s)
    PROVE  vert_scroll(s).cell = [i \in Cell |->
                 IF i < Cols * (Rows - 1) THEN s.cell[i + Cols] ELSE Blank]
  <1> DEFINE f == [i \in Cell |-> IF i < (Rows - 1) * Cols THEN s.cell[i + Cols] ELSE Blank]
  <1>1. vert_scroll(s) = [s EXCEPT !.cell = f]
    BY DEF vert_scroll
  <1>2. f = [i \in Cell |-> IF i < Cols * (Rows - 1) THEN s.cell[i + Cols] ELSE Blank]
    BY LastRow
  <1> HIDE DEF f
  <1>3. vert_scroll(s).cell = f
    BY <1>1 DEF Sound
  <1> QED
    BY <1>2, <1>3

(* A character before the screen scrolls: where it is, what is in the       *)
(* cells, where the cursor is then.                                         *)
After(c, s, j) == IF c # Newline /\ j = Place(s) THEN c ELSE s.cell[j]
Advanced(c, s) == IF c = Newline THEN Cols * s.y + Cols ELSE Place(s) + 1

(* putc, cell by cell: the page moves up by sh cells, none or a row. *)
LEMMA PutcCells ==
    ASSUME NEW s, Sound(s), OnScreen(s), Full(s), NEW c
    PROVE  LET t == putc_in_terminal(c, s)
           IN  /\ Full(t)
               /\ \E sh \in {0, Cols} :
                     /\ sh = Cols => Place(t) >= Cols * (Rows - 1)
                     /\ Place(t) + sh = Advanced(c, s)
                     /\ \A j \in Cell : t.cell[j] =
                           IF j + sh \in Cell THEN After(c, s, j + sh) ELSE Blank
  <1> DEFINE newline == c = Newline
             stored  == IF newline THEN s ELSE StoreCell(s, Cols * s.y + s.x, c)
             x       == IF newline THEN 0 ELSE Rem(s.x + 1, Cols)
             y       == s.y + (IF newline \/ s.x + 1 > Cols - 1 THEN 1 ELSE 0)
             t       == putc_in_terminal(c, s)
  <1>1. t = IF y > Rows - 1 THEN Moved(vert_scroll(stored), x, Rows - 1)
                            ELSE Moved(stored, x, IF newline THEN y ELSE Rem(y, Rows))
    BY DEF putc_in_terminal, Moved
  <1>2. /\ s.x \in 0 .. Cols - 1 /\ s.y \in 0 .. Rows - 1
        /\ Cols \in Nat /\ Cols > 0 /\ Rows \in Nat /\ Rows > 0
    BY Grid DEF OnScreen
  <1>3. Sound(stored) /\ stored.cell = [j \in Cell |-> After(c, s, j)]
    <2>1. CASE newline
      <3>1. \A j \in Cell : After(c, s, j) = s.cell[j]
        BY <2>1 DEF After
      <3> QED
        BY <2>1, <3>1 DEF Full
    <2>2. CASE ~newline
      <3>1. stored = StoreCell(s, Place(s), c) /\ Place(s) \in Cell
        BY <2>2, PlaceInCell DEF Place
      <3>2. Sound(stored)
        BY <3>1, StoreSound
      <3>3. stored.cell = [j \in Cell |-> IF j = Place(s) THEN c ELSE s.cell[j]]
        BY <3>1, StoreCells
      <3>4. \A j \in Cell : After(c, s, j) = IF j = Place(s) THEN c ELSE s.cell[j]
        BY <2>2 DEF After
      <3> QED
        BY <3>2, <3>3, <3>4
    <2> QED
      BY <2>1, <2>2
  <1>4. /\ newline => x = 0 /\ y = s.y + 1
        /\ ~newline /\ s.x < Cols - 1 => x = s.x + 1 /\ y = s.y
        /\ ~newline /\ s.x = Cols - 1 => x = 0 /\ y = s.y + 1
    <2>1. s.x < Cols - 1 => Rem(s.x + 1, Cols) = s.x + 1
      BY <1>2, RemOnce
    <2>2. s.x = Cols - 1 => Rem(s.x + 1, Cols) = 0
      BY <1>2, RemOnce
    <2> QED
      BY <1>2, <2>1, <2>2
  <1>5. y \in 0 .. Rows - 1 => Rem(y, Rows) = y
    BY <1>2, RemOnce
  <1>6. x \in 0 .. Cols - 1 /\ y \in 0 .. Rows
    BY <1>2, <1>4
  <1> HIDE DEF newline, stored, x, y, t
  <1>7. Cols * y + x = Advanced(c, s) /\ Cols * y \in Int
    <2>1. Cols * (s.y + 1) = Cols * s.y + Cols /\ Cols * s.y \in Int
      BY <1>2, Grid
    <2>2. CASE y = s.y + 1 /\ x = 0
      <3>1. Cols * y + x = Cols * s.y + Cols /\ Cols * y \in Int
        BY <1>2, <2>1, <2>2
      <3>2. Advanced(c, s) = Cols * s.y + Cols
        <4>1. newline \/ s.x = Cols - 1
          BY <1>2, <1>4, <2>2
        <4> QED
          BY <1>2, <2>1, <4>1 DEF Advanced, Place, newline
      <3> QED
        BY <3>1, <3>2
    <2>3. CASE ~newline /\ y = s.y /\ x = s.x + 1
      BY <1>2, <2>1, <2>3 DEF Advanced, Place, newline
    <2> QED
      BY <1>2, <1>4, <2>2, <2>3
  <1>8. CASE y > Rows - 1
    <2>1. y = Rows /\ t = Moved(vert_scroll(stored), x, Rows - 1)
      BY <1>1, <1>2, <1>6, <1>8
    <2>2. Sound(vert_scroll(stored))
      BY <1>3, MoveSound
    <2>3. t.x = x /\ t.y = Rows - 1 /\ t.cell = vert_scroll(stored).cell
      <3> DEFINE v == vert_scroll(stored)
      <3>1. Sound(v) /\ t = Moved(v, x, Rows - 1)
        BY <2>1, <2>2
      <3> HIDE DEF v
      <3>2. t.x = x /\ t.y = Rows - 1
        BY <3>1, MoveSound
      <3>3. t.cell = v.cell
        BY <3>1, MovedCells
      <3> QED
        BY <3>2, <3>3 DEF v
    <2>4. Place(t) + Cols = Advanced(c, s) /\ Place(t) >= Cols * (Rows - 1)
      BY <1>2, <1>6, <1>7, <2>1, <2>3, LastRow DEF Place
    <2>5. t.cell = [j \in Cell |->
                      IF j < Cols * (Rows - 1) THEN stored.cell[j + Cols] ELSE Blank]
      BY <1>3, <2>3, ScrollCells
    <2>6. ASSUME NEW j \in Cell
          PROVE  t.cell[j] = IF j + Cols \in Cell THEN After(c, s, j + Cols) ELSE Blank
      <3>1. j + Cols \in Cell <=> j < Cols * (Rows - 1)
        BY <1>2, LastRow DEF Cell
      <3>2. CASE j + Cols \in Cell
        BY <1>3, <2>5, <3>1, <3>2
      <3>3. CASE j + Cols \notin Cell
        BY <2>5, <3>1, <3>3
      <3> QED
        BY <3>2, <3>3
    <2>7. Full(t)
      BY <2>5 DEF Full
    <2> QED
      BY <2>4, <2>6, <2>7 DEF t
  <1>9. CASE ~(y > Rows - 1)
    <2>1. y \in 0 .. Rows - 1
      BY <1>2, <1>6, <1>9
    <2>2. t = Moved(stored, x, y)
      BY <1>1, <1>5, <1>9, <2>1
    <2>3. t.x = x /\ t.y = y /\ t.cell = stored.cell
      <3>1. t.x = x /\ t.y = y
        BY <1>3, <2>2, MoveSound
      <3>2. t.cell = stored.cell
        BY <1>3, <2>2, MovedCells
      <3> QED
        BY <3>1, <3>2
    <2>4. Place(t) + 0 = Advanced(c, s) /\ (0 = Cols => Place(t) >= Cols * (Rows - 1))
      BY <1>2, <1>6, <1>7, <2>3 DEF Place
    <2>5. ASSUME NEW j \in Cell
          PROVE  t.cell[j] = IF j + 0 \in Cell THEN After(c, s, j + 0) ELSE Blank
      <3>1. j + 0 = j
        BY LastRow DEF Cell
      <3> QED
        BY <1>3, <2>3, <3>1
    <2>6. Full(t)
      BY <1>3, <2>3 DEF Full
    <2> QED
      BY <2>4, <2>5, <2>6 DEF t
  <1> QED
    BY <1>8, <1>9

LEMMA AdvancedIs ==
    ASSUME NEW s, OnScreen(s), NEW c
    PROVE  Advanced(c, s) \in Int /\ Place(s) \in Cell /\ Advanced(c, s) > Place(s)
  <1>1. /\ s.x \in 0 .. Cols - 1 /\ Cols \in Nat /\ Cols * s.y \in Int /\ Place(s) \in Cell
    BY Grid, PlaceInCell DEF OnScreen
  <1> QED
    BY <1>1 DEF Advanced, Place

(* putc keeps what is behind the cursor blank. *)
LEMMA PutcBlank ==
    ASSUME NEW s, Sound(s), OnScreen(s), Full(s), NEW c, BlankFrom(s, Place(s))
    PROVE  LET t == putc_in_terminal(c, s) IN BlankFrom(t, Place(t))
  <1> DEFINE t == putc_in_terminal(c, s)
  <1>1. PICK sh \in {0, Cols} :
          /\ Place(t) + sh = Advanced(c, s)
          /\ \A j \in Cell : t.cell[j] = IF j + sh \in Cell THEN After(c, s, j + sh) ELSE Blank
    BY PutcCells
  <1>2. Place(t) \in Cell
    BY PutcSound, PlaceInCell
  <1> HIDE DEF t
  <1>3. ASSUME NEW j \in Cell, j >= Place(t) PROVE t.cell[j] = Blank
    <2>1. j \in Int /\ sh \in Int /\ Place(t) \in Int /\ Place(s) \in Int
      BY <1>2, AdvancedIs, LastRow, Grid DEF Cell
    <2>2. j + sh > Place(s)
      BY <1>1, <1>3, <2>1, AdvancedIs
    <2>3. CASE j + sh \in Cell
      <3>1. t.cell[j] = s.cell[j + sh]
        BY <1>1, <2>1, <2>2, <2>3 DEF After
      <3>2. j + sh >= Place(s)
        BY <2>1, <2>2
      <3> QED
        BY <2>3, <3>1, <3>2 DEF BlankFrom
    <2>4. CASE j + sh \notin Cell
      BY <1>1, <2>4
    <2> QED
      BY <2>3, <2>4
  <1> QED
    BY <1>3 DEF BlankFrom, t

(* putc of a character that is not a newline puts it just before the cursor *)
(* and behind the text that was there.                                      *)
LEMMA PutcText ==
    ASSUME NEW s, Sound(s), OnScreen(s), Full(s), NEW c, c # Newline
    PROVE  LET t == putc_in_terminal(c, s)
           IN  \A i \in Nat \ {0} : Place(t) - i >= 0 =>
                  /\ Place(s) - (i - 1) \in Cell
                  /\ t.cell[Place(t) - i] = IF i = 1 THEN c ELSE s.cell[Place(s) - (i - 1)]
  <1> DEFINE t == putc_in_terminal(c, s)
  <1>1. PICK sh \in {0, Cols} :
          /\ Place(t) + sh = Advanced(c, s)
          /\ \A j \in Cell : t.cell[j] = IF j + sh \in Cell THEN After(c, s, j + sh) ELSE Blank
    BY PutcCells
  <1>2. Place(t) \in Cell
    BY PutcSound, PlaceInCell
  <1> HIDE DEF t
  <1>3. ASSUME NEW i \in Nat \ {0}, Place(t) - i >= 0
        PROVE  /\ Place(s) - (i - 1) \in Cell
               /\ t.cell[Place(t) - i] = IF i = 1 THEN c ELSE s.cell[Place(s) - (i - 1)]
    <2> DEFINE j == Place(t) - i
               k == Place(s) - (i - 1)
    <2>1. /\ sh \in Nat /\ Place(t) \in Int /\ Place(s) \in Int /\ Place(s) <= Rows * Cols - 1
          /\ Place(t) <= Rows * Cols - 1 /\ Rows * Cols \in Nat
      BY <1>2, AdvancedIs, LastRow, Grid DEF Cell
    <2>2. Place(t) + sh = Place(s) + 1
      BY <1>1 DEF Advanced
    <2>3. j + sh = k /\ k >= 0 /\ k <= Place(s) /\ j \in Cell
      BY <1>3, <2>1, <2>2 DEF Cell
    <2>4. k \in Cell
      BY <1>3, <2>1, <2>3 DEF Cell
    <2>5. k = Place(s) <=> i = 1
      BY <1>3, <2>1
    <2> HIDE DEF j, k
    <2>6. t.cell[j] = After(c, s, k)
      BY <1>1, <2>3, <2>4
    <2>7. t.cell[j] = IF i = 1 THEN c ELSE s.cell[k]
      BY <2>5, <2>6 DEF After
    <2> QED
      BY <2>4, <2>7 DEF j, k
  <1> QED
    BY <1>3 DEF t

(* Backspace blanks the cell before the cursor and nothing else. *)
LEMMA BackspaceCells ==
    ASSUME NEW s, Sound(s), OnScreen(s), Full(s), Place(s) >= 1
    PROVE  LET t == backspace_fnc(s)
           IN  t.cell = [j \in Cell |-> IF j = Place(s) - 1 THEN Blank ELSE s.cell[j]]
  <1>1. /\ s.x \in 0 .. Cols - 1 /\ s.y \in 0 .. Rows - 1 /\ Blank # Newline
        /\ Cols \in Nat /\ Cols > 0 /\ Rows \in Nat /\ Rows > 0 /\ Cols * s.y \in Int
    BY Grid, ScreenAssumption DEF OnScreen
  <1> DEFINE t == backspace_fnc(s)
  <1>2. ASSUME NEW r, Sound(r), OnScreen(r), r.cell = s.cell, Place(r) = Place(s) - 1,
               NEW p, p = putc_in_terminal(Blank, r), Place(p) = Place(s)
        PROVE  p.cell = [j \in Cell |-> IF j = Place(s) - 1 THEN Blank ELSE s.cell[j]]
    <2>0. Full(r)
      BY <1>2 DEF Full
    <2>1. PICK sh \in {0, Cols} :
            /\ Place(p) + sh = Advanced(Blank, r)
            /\ \A j \in Cell : p.cell[j] =
                  IF j + sh \in Cell THEN After(Blank, r, j + sh) ELSE Blank
      BY <1>2, <2>0, PutcCells
    <2>2. Full(p)
      BY <1>2, <2>0, PutcCells
    <2>3. Place(s) \in Int
      BY AdvancedIs, LastRow DEF Cell
    <2>4. sh = 0
      BY <1>1, <1>2, <2>1, <2>3 DEF Advanced
    <2>5. ASSUME NEW j \in Cell
          PROVE  p.cell[j] = IF j = Place(s) - 1 THEN Blank ELSE s.cell[j]
      <3>1. j + sh = j
        BY <2>4, LastRow DEF Cell
      <3> QED
        BY <1>1, <1>2, <2>1, <3>1 DEF After
    <2> QED
      BY <2>2, <2>5 DEF Full
  <1>3. CASE s.x = 0
    <2> DEFINE r == [s EXCEPT !.x = Cols - 1, !.y = @ - 1]
               p == putc_in_terminal(Blank, r)
    <2>1. s.y >= 1
      BY <1>1, <1>3, Grid DEF Place
    <2>2. r = Moved(s, Cols - 1, s.y - 1)
      BY DEF Sound, Moved
    <2>3. Sound(r) /\ r.x = Cols - 1 /\ r.y = s.y - 1
      BY <2>2, MoveSound
    <2>a. r.cell = s.cell
      BY <2>2, MovedCells
    <2>4. t = [p EXCEPT !.x = Cols - 1, !.y = @ - 1]
      BY <1>3 DEF backspace_fnc
    <2> HIDE DEF r
    <2>5. OnScreen(r)
      BY <1>1, <2>1, <2>3 DEF OnScreen
    <2>6. Sound(p) /\ p.x = 0 /\ p.y = s.y
      BY <1>1, <2>1, <2>3, <2>5, PutcSound
    <2>7. Cols * (s.y - 1) = Cols * s.y - Cols
      BY <1>1
    <2>8. Place(r) = Place(s) - 1 /\ Place(p) = Place(s)
      BY <1>1, <1>3, <2>3, <2>6, <2>7 DEF Place
    <2>9. p.cell = [j \in Cell |-> IF j = Place(s) - 1 THEN Blank ELSE s.cell[j]]
      BY <1>2, <2>3, <2>a, <2>5, <2>8
    <2> HIDE DEF p, t
    <2>10. t = Moved(p, Cols - 1, s.y - 1)
      BY <2>4, <2>6 DEF Sound, Moved
    <2>11. t.cell = p.cell
      BY <2>6, <2>10, MovedCells
    <2> QED
      BY <2>9, <2>11 DEF t
  <1>4. CASE s.x # 0
    <2> DEFINE r == [s EXCEPT !.x = @ - 1]
               p == putc_in_terminal(Blank, r)
    <2>1. r = Moved(s, s.x - 1, s.y)
      BY DEF Sound, Moved
    <2>2. Sound(r) /\ r.x = s.x - 1 /\ r.y = s.y
      BY <2>1, MoveSound
    <2>a. r.cell = s.cell
      BY <2>1, MovedCells
    <2>3. t = [p EXCEPT !.x = @ - 1]
      BY <1>4 DEF backspace_fnc
    <2> HIDE DEF r
    <2>4. OnScreen(r)
      BY <1>1, <1>4, <2>2 DEF OnScreen
    <2>5. Sound(p) /\ p.x = s.x /\ p.y = s.y
      BY <1>1, <1>4, <2>2, <2>4, PutcSound
    <2>6. Place(r) = Place(s) - 1 /\ Place(p) = Place(s)
      BY <1>1, <2>2, <2>5 DEF Place
    <2>7. p.cell = [j \in Cell |-> IF j = Place(s) - 1 THEN Blank ELSE s.cell[j]]
      BY <1>2, <2>2, <2>a, <2>4, <2>6
    <2> HIDE DEF p, t
    <2>8. t = Moved(p, s.x - 1, s.y)
      BY <2>3, <2>5 DEF Sound, Moved
    <2>9. t.cell = p.cell
      BY <2>5, <2>8, MovedCells
    <2> QED
      BY <2>7, <2>9 DEF t
  <1> QED
    BY <1>3, <1>4

(* puts: the last m characters, none of them a newline, are just before the *)
(* cursor, and what is behind it stays blank.                               *)
LEMMA PutsCells ==
    ASSUME NEW str, Len(str) \in Nat, NEW s, Sound(s), OnScreen(s), Full(s),
           NEW m \in 0 .. Len(str), m <= Cols * (Rows - 1),
           \A i \in Len(str) - m + 1 .. Len(str) : str[i] # Newline
    PROVE  LET t == puts(str, s)
           IN  /\ Full(t)
               /\ BlankFrom(s, Place(s)) => BlankFrom(t, Place(t))
               /\ \A i \in 1 .. m : /\ Place(t) - i \in Cell
                                    /\ t.cell[Place(t) - i] = str[Len(str) + 1 - i]
  <1> DEFINE L == Len(str)
  <1>1. PICK f : /\ f = [i \in 0 .. L |-> IF i = 0 THEN s ELSE putc(str[i], f[i - 1])]
                 /\ puts(str, s) = f[L]
    BY PutsLoop
  <1> DEFINE Ok(k)    == Sound(f[k]) /\ OnScreen(f[k]) /\ Full(f[k])
             Blk(k)   == BlankFrom(s, Place(s)) => BlankFrom(f[k], Place(f[k]))
             Txt(k)   == \A i \in Nat \ {0} :
                            i <= k - (L - m) /\ Place(f[k]) - i >= 0 =>
                                f[k].cell[Place(f[k]) - i] = str[k + 1 - i]
             T == {k \in Nat : k <= L => Ok(k) /\ Blk(k) /\ Txt(k)}
  <1>a. L \in Nat /\ m \in Nat /\ m <= L
    OBVIOUS
  <1>2. 0 \in T
    <2>1. f[0] = s
      BY <1>1
    <2>2. Txt(0)
      BY <1>a
    <2> QED
      BY <2>1, <2>2
  <1>3. ASSUME NEW k \in Nat, k \in T PROVE k + 1 \in T
    <2> SUFFICES ASSUME k + 1 <= L PROVE Ok(k + 1) /\ Blk(k + 1) /\ Txt(k + 1)
      BY <1>3
    <2>1. Ok(k) /\ Blk(k) /\ Txt(k)
      BY <1>3, <1>a
    <2> DEFINE t == f[k + 1]
               u == f[k]
               c == str[k + 1]
    <2>2. t = putc_in_terminal(c, u)
      <3>1. k + 1 \in 0 .. L /\ k + 1 # 0 /\ (k + 1) - 1 = k
        BY <1>3
      <3> QED
        BY <1>1, <3>1 DEF putc
    <2>3. Ok(k + 1)
      BY <2>1, <2>2, PutcSound, PutcCells
    <2>4. Blk(k + 1)
      <3> SUFFICES ASSUME BlankFrom(s, Place(s)) PROVE BlankFrom(t, Place(t))
        OBVIOUS
      <3>1. BlankFrom(u, Place(u)) /\ Sound(u) /\ OnScreen(u) /\ Full(u)
        BY <2>1
      <3> HIDE DEF t, u, c
      <3> QED
        BY <2>2, <3>1, PutcBlank
    <2>5. Txt(k + 1)
      <3> SUFFICES ASSUME NEW i \in Nat \ {0}, i <= (k + 1) - (L - m), Place(t) - i >= 0
                   PROVE  t.cell[Place(t) - i] = str[(k + 1) + 1 - i]
        OBVIOUS
      <3>1. c # Newline
        <4>1. k + 1 \in L - m + 1 .. L
          BY <1>a
        <4> QED
          BY <4>1
      <3>2. Sound(u) /\ OnScreen(u) /\ Full(u)
        BY <2>1
      <3>3. Place(u) \in Int
        BY <3>2, AdvancedIs, LastRow DEF Cell
      <3>4. /\ Place(u) - (i - 1) \in Cell
            /\ t.cell[Place(t) - i] = IF i = 1 THEN c ELSE u.cell[Place(u) - (i - 1)]
        <4> HIDE DEF t, u, c, L
        <4> QED
          BY <2>2, <3>1, <3>2, PutcText
      <3>5. CASE i = 1
        <4>1. (k + 1) + 1 - i = k + 1
          BY <3>5
        <4> QED
          BY <3>4, <3>5, <4>1
      <3>6. CASE i # 1
        <4>1. i - 1 \in Nat \ {0} /\ i - 1 <= k - (L - m) /\ k + 1 - (i - 1) = (k + 1) + 1 - i
          BY <1>a, <3>6
        <4>2. Place(u) - (i - 1) >= 0
          BY <3>4, LastRow DEF Cell
        <4>3. u.cell[Place(u) - (i - 1)] = str[k + 1 - (i - 1)]
          BY <2>1, <4>1, <4>2
        <4> QED
          BY <3>4, <3>6, <4>1, <4>3
      <3> QED
        BY <3>5, <3>6
    <2> QED
      BY <2>3, <2>4, <2>5
  <1>4. L \in T
    <2> HIDE DEF T
    <2> QED
      BY <1>2, <1>3, NatInduct
  <1> DEFINE t == puts(str, s)
  <1>5. Full(t) /\ (BlankFrom(s, Place(s)) => BlankFrom(t, Place(t)))
    BY <1>1, <1>4
  <1>6. Txt(L)
    BY <1>a, <1>4
  <1>7. OnScreen(t) /\ (Place(t) >= Place(s) + L \/ Place(t) >= Cols * (Rows - 1))
    BY PutsSound
  <1>8. Place(t) \in Cell /\ Place(s) \in Cell
    BY <1>7, AdvancedIs
  <1>9. ASSUME NEW i \in 1 .. m
        PROVE  Place(t) - i \in Cell /\ t.cell[Place(t) - i] = str[L + 1 - i]
    <2>1. Place(t) - i >= 0
      BY <1>a, <1>7, <1>8, LastRow DEF Cell
    <2>2. Place(t) - i \in Cell
      BY <1>a, <1>8, <2>1, LastRow DEF Cell
    <2>3. i \in Nat \ {0} /\ i <= L - (L - m)
      BY <1>a
    <2> HIDE DEF t
    <2>4. t.cell[Place(t) - i] = str[L + 1 - i]
      BY <1>1, <1>6, <2>1, <2>3 DEF t
    <2> QED
      BY <2>2, <2>4
  <1> QED
    BY <1>5, <1>9

(* The message of fault_handler: its text is followed by blanks only, after *)
(* the newline as before it.                                                *)
LEMMA MessageCells ==
    ASSUME NEW e \in Exceptions, NEW s, Sound(s), OnScreen(s), Full(s), BlankFrom(s, Place(s))
    PROVE  LET q == FaultText(e)
               t == printf(FaultFormat(e), s)
           IN  /\ Full(t) /\ BlankFrom(t, Place(t))
               /\ q # <<>> /\ Len(q) <= Cols * (Rows - 2) => \E k \in Cell :
                     /\ k + Len(q) - 1 \in Cell
                     /\ \A i \in Cell : i >= k =>
                           t.cell[i] = IF i < k + Len(q) THEN q[i - k + 1] ELSE Blank
  <1> DEFINE q == FaultText(e)
             L == Len(q)
             u == puts(q, s)
             t == printf(FaultFormat(e), s)
  <1>3. t = puts(<<NL>>, u)
    BY FaultMessage
  <1>4. q \in Seq(FaultChars(e)) /\ Newline \notin FaultChars(e)
    BY FaultMessage
  <1>5. /\ L \in Nat /\ (q # <<>> => L >= 1)
        /\ \A i \in L - L + 1 .. L : q[i] # Newline
    <2> HIDE DEF q
    <2>1. L \in Nat /\ (q # <<>> => L >= 1) /\ \A i \in 1 .. L : q[i] \in FaultChars(e)
      BY <1>4
    <2>2. L - L + 1 = 1
      BY <2>1
    <2> QED
      BY <1>4, <2>1, <2>2
  <1>6. ASSUME L <= Cols * (Rows - 2)
        PROVE  L <= Cols * (Rows - 1) /\ L <= Cols * (Rows - 1) - Cols
    <2>1. Cols * (Rows - 2) = Cols * (Rows - 1) - Cols /\ Cols \in Nat
      BY Grid
    <2> QED
      BY <1>5, <1>6, <2>1, LastRow
  <1> HIDE DEF q, t
  <1>7. Sound(u) /\ OnScreen(u) /\ Full(u) /\ BlankFrom(u, Place(u))
    <2>1. Sound(u) /\ OnScreen(u)
      BY <1>5, PutsSound
    <2>2. 0 \in 0 .. L /\ 0 <= Cols * (Rows - 1) /\ \A i \in L - 0 + 1 .. L : FALSE
      BY <1>5, LastRow
    <2> QED
      BY <1>5, <2>1, <2>2, PutsCells
  <1>t. ASSUME L <= Cols * (Rows - 2), NEW i \in 1 .. L
        PROVE  Place(u) - i \in Cell /\ u.cell[Place(u) - i] = q[L + 1 - i]
    <2>1. L \in 0 .. L /\ L <= Cols * (Rows - 1)
      BY <1>5, <1>6, <1>t
    <2> QED
      BY <1>5, <2>1, PutsCells
  <1> HIDE DEF u, L
  <1>8. t = putc_in_terminal(NL, u)
    <2> HIDE DEF t
    <2>1. Len(<<NL>>) = 1 /\ <<NL>>[1] = NL
      OBVIOUS
    <2> DEFINE str == <<NL>>
    <2> HIDE DEF str
    <2>2. PICK f : /\ f = [i \in 0 .. Len(str) |-> IF i = 0 THEN u ELSE putc(str[i], f[i - 1])]
                   /\ puts(str, u) = f[Len(str)]
      BY <2>1, PutsLoop DEF str
    <2>3. f[0] = u
      BY <2>1, <2>2 DEF str
    <2>4. f[1] = putc(str[1], f[0])
      <3>1. 1 \in 0 .. Len(str) /\ 1 # 0 /\ 1 - 1 = 0
        BY <2>1 DEF str
      <3> QED
        BY <2>2, <3>1
    <2> QED
      BY <1>3, <2>1, <2>2, <2>3, <2>4 DEF str, putc
  <1> HIDE DEF t
  <1>9. Full(t) /\ BlankFrom(t, Place(t))
    BY <1>7, <1>8, PutcCells, PutcBlank
  <1>10. PICK sh \in {0, Cols} :
           /\ sh = Cols => Place(t) >= Cols * (Rows - 1)
           /\ Place(t) + sh = Advanced(NL, u)
           /\ \A j \in Cell : t.cell[j] = IF j + sh \in Cell THEN After(NL, u, j + sh) ELSE Blank
    BY <1>7, <1>8, PutcCells
  <1>11. /\ Place(u) \in Cell /\ Place(u) \in Int /\ Place(u) >= 0 /\ Place(u) < Rows * Cols
         /\ sh \in Nat /\ Cols \in Nat /\ Cols > 0
    <2>1. Place(u) \in Cell
      BY <1>7, PlaceInCell
    <2> QED
      BY <2>1, LastRow, Grid DEF Cell
  <1>12. sh = Cols => Place(u) >= Cols * (Rows - 1)
    <2> SUFFICES ASSUME sh = Cols PROVE Place(u) >= Cols * (Rows - 1)
      OBVIOUS
    <2>1. Place(t) >= Cols * (Rows - 1) /\ Place(t) + Cols = Cols * u.y + Cols
      BY <1>10, ConsoleAssumption DEF Advanced
    <2>2. Place(t) \in Int /\ u.x \in Nat /\ Cols * u.y \in Int
      <3>1. OnScreen(t)
        BY <1>7, <1>8, PutcSound
      <3>2. Place(t) \in Cell
        BY <3>1, PlaceInCell
      <3>3. u.x \in 0 .. Cols - 1 /\ u.y \in Int
        BY <1>7, Grid DEF OnScreen
      <3> QED
        BY <1>11, <3>2, <3>3, LastRow, Grid DEF Cell
    <2> QED
      BY <1>11, <2>1, <2>2, LastRow DEF Place
  <1>13. ASSUME q # <<>>, L <= Cols * (Rows - 2)
         PROVE  \E k \in Cell :
                   /\ k + L - 1 \in Cell
                   /\ \A i \in Cell : i >= k =>
                         t.cell[i] = IF i < k + L THEN q[i - k + 1] ELSE Blank
    <2> DEFINE k == Place(u) - L - sh
    <2>1. L >= 1
      BY <1>5, <1>13
    <2>2. k >= 0
      <3>1. CASE sh = 0
        <4>1. L \in 1 .. L
          BY <1>5, <2>1
        <4>2. Place(u) - L \in Cell
          BY <1>13, <1>t, <4>1
        <4> QED
          BY <1>5, <1>11, <3>1, <4>2, LastRow DEF Cell
      <3>2. CASE sh = Cols
        BY <1>5, <1>6, <1>11, <1>12, <1>13, <3>2, LastRow
      <3> QED
        BY <3>1, <3>2
    <2>a. k \in Int /\ k + L + sh = Place(u) /\ L \in Nat
      BY <1>5, <1>11
    <2> HIDE DEF k
    <2>3. k \in Cell /\ k + L - 1 \in Cell
      BY <1>11, <2>a, <2>1, <2>2, LastRow DEF Cell
    <2>4. ASSUME NEW i \in Cell, i >= k
          PROVE  t.cell[i] = IF i < k + L THEN q[i - k + 1] ELSE Blank
      <3>0. i \in Int
        BY LastRow DEF Cell
      <3>1. t.cell[i] = IF i + sh \in Cell THEN u.cell[i + sh] ELSE Blank
        BY <1>10, ConsoleAssumption DEF After
      <3>2. CASE i < k + L
        <4> DEFINE d == Place(u) - (i + sh)
        <4>1. d \in 1 .. L /\ i + sh = Place(u) - d /\ L + 1 - d = i - k + 1
          <5>1. Place(u) \in Int /\ sh \in Int /\ i >= k
            BY <1>11, <2>4
          <5>2. d \in Int /\ i + sh = Place(u) - d
            BY <3>0, <5>1
          <5>3. d >= 1 /\ d <= L
            BY <2>a, <3>0, <3>2, <5>1
          <5>4. L + 1 - d = i - k + 1
            BY <2>a, <3>0, <5>1
          <5> QED
            BY <2>a, <5>2, <5>3, <5>4
        <4> HIDE DEF d
        <4>2. i + sh \in Cell /\ u.cell[i + sh] = q[i - k + 1]
          BY <1>13, <1>t, <4>1
        <4> QED
          BY <3>1, <3>2, <4>2
      <3>3. CASE ~(i < k + L)
        <4>1. i + sh >= Place(u)
          BY <1>11, <2>a, <3>0, <3>3
        <4> QED
          BY <1>7, <3>1, <3>3, <4>1 DEF BlankFrom
      <3> QED
        BY <3>2, <3>3
    <2> QED
      BY <2>3, <2>4
  <1> QED
    BY <1>9, <1>13 DEF L, q, t

-----------------------------------------------------------------------------
(* What is behind the cursor stays blank. *)

LEMMA BlankLater ==
    ASSUME NEW s, NEW t, t.cell = s.cell, NEW p \in Int, NEW q \in Int, p <= q, BlankFrom(s, p)
    PROVE  BlankFrom(t, q)
  <1>1. \A j \in Cell : j \in Int
    BY LastRow DEF Cell
  <1> QED
    BY <1>1 DEF BlankFrom

(* The screen half of the invariant in the next state. *)
BlankNext == Full(screen') /\ BlankAt(w'.at, screen', w'.reg, w'.increment_y)

LEMMA StepBlank ==
    ASSUME BlankInv, NEW from, NEW to, NEW reg, NEW inc, NEW scr,
           Step(from, to, reg, inc, scr), Full(scr), BlankAt(to, scr, reg, inc)
    PROVE  BlankNext
  <1>1. w' = Located(w, to, reg, inc) /\ screen' = scr
    BY DEF Step, Located
  <1>2. w'.at = to /\ w'.reg = reg /\ w'.increment_y = inc
    BY <1>1, LocatedIs DEF BlankInv, CursorInv
  <1> QED
    BY <1>1, <1>2 DEF BlankNext

LEMMA NewlineBlank ==
    ASSUME BlankInv, NewlineStep
    PROVE  BlankNext
  <1> DEFINE n == input_len
             s == screen
             i == w.increment_y
  <1>a. /\ Sound(s) /\ AtLabel(w.at, s, w.reg, i, n)
        /\ Full(s) /\ BlankAt(w.at, s, w.reg, i)
    BY DEF BlankInv, CursorInv
  <1>b. Cols \in Nat /\ Cols > 0 /\ Rows \in Nat /\ Rows > 0
    BY Grid
  <1>1. CASE Step("newline", "y++", screen.y, 0, screen)
    <2>1. BlankFrom(s, Place(s))
      BY <1>1, <1>a DEF Step, BlankAt, WholeLabels, InCursor
    <2>2. BlankAt("y++", s, s.y, 0)
      BY <2>1 DEF BlankAt
    <2> QED
      BY <1>1, <1>a, <2>2, StepBlank
  <1>2. CASE Step("y++", "x=0", 0, 0, [screen EXCEPT !.y = w.reg + 1])
    <2> DEFINE t == [screen EXCEPT !.y = w.reg + 1]
    <2>1. OnScreen(s) /\ w.reg = s.y
      BY <1>2, <1>a DEF Step, AtLabel, WholeLabels, InCursor, Behind
    <2>2. BlankFrom(s, Place(s))
      BY <1>2, <1>a DEF Step, BlankAt, WholeLabels, InCursor
    <2>3. t.x = s.x /\ t.y = s.y + 1
      BY <1>a, <2>1, MoveY
    <2>4. t.cell = s.cell
      BY <1>a, MoveCells
    <2> HIDE DEF t
    <2>5. Cols * t.y \in Int /\ Place(s) \in Int /\ Place(s) <= Cols * t.y
      BY <1>b, <2>1, <2>3, Grid DEF OnScreen, Place
    <2>6. BlankAt("x=0", t, 0, 0) /\ Full(t)
      BY <1>a, <2>2, <2>4, <2>5, BlankLater DEF BlankAt, Full
    <2> QED
      BY <1>2, <2>6, StepBlank DEF t
  <1>3. CASE Step("x=0", "y>?", 0, 0, [screen EXCEPT !.x = 0])
    <2> DEFINE t == [screen EXCEPT !.x = 0]
    <2>1. BlankFrom(s, Cols * s.y)
      BY <1>3, <1>a DEF Step, BlankAt, WholeLabels, InCursor
    <2>2. t.y = s.y
      BY <1>a, MoveX
    <2>3. t.cell = s.cell
      BY <1>a, MoveCells
    <2> HIDE DEF t
    <2>4. BlankAt("y>?", t, 0, 0) /\ Full(t)
      BY <1>a, <2>1, <2>2, <2>3 DEF BlankAt, BlankFrom, Full
    <2> QED
      BY <1>3, <2>4, StepBlank DEF t
  <1>4. CASE Step("y>?", IF screen.y > Rows - 1 THEN "scroll" ELSE "next", 0, 0, screen)
    <2>1. s.y \in 1 .. Rows /\ s.x = 0
      BY <1>4, <1>a DEF Step, AtLabel, WholeLabels, InCursor
    <2>2. BlankFrom(s, Cols * s.y)
      BY <1>4, <1>a DEF Step, BlankAt, WholeLabels, InCursor
    <2>3. CASE s.y > Rows - 1
      <3>1. BlankAt("scroll", s, 0, 0)
        BY DEF BlankAt
      <3> QED
        BY <1>4, <1>a, <2>3, <3>1, StepBlank
    <2>4. CASE ~(s.y > Rows - 1)
      <3>1. Place(s) = Cols * s.y
        BY <1>b, <2>1 DEF Place
      <3>2. BlankAt("next", s, 0, 0)
        BY <2>2, <3>1 DEF BlankAt, WholeLabels
      <3> QED
        BY <1>4, <1>a, <2>4, <3>2, StepBlank
    <2> QED
      BY <2>3, <2>4
  <1>5. CASE Step("scroll", "y=last", 0, 0, vert_scroll(screen))
    <2> DEFINE t == vert_scroll(screen)
    <2>1. t.cell = [j \in Cell |-> IF j < Cols * (Rows - 1) THEN s.cell[j + Cols] ELSE Blank]
      BY <1>a, ScrollCells
    <2> HIDE DEF t
    <2>2. Full(t)
      BY <2>1 DEF Full
    <2>3. BlankFrom(t, Cols * (Rows - 1))
      <3>1. \A j \in Cell : j \in Int
        BY LastRow DEF Cell
      <3> QED
        BY <2>1, <3>1, LastRow DEF BlankFrom
    <2>4. BlankAt("y=last", t, 0, 0)
      BY <2>3 DEF BlankAt
    <2> QED
      BY <1>5, <2>2, <2>4, StepBlank DEF t
  <1>6. CASE Step("y=last", "next", 0, 0, [screen EXCEPT !.y = Rows - 1])
    <2> DEFINE t == [screen EXCEPT !.y = Rows - 1]
    <2>1. s.x \in 0 .. Cols - 1
      BY <1>6, <1>a DEF Step, AtLabel, WholeLabels, InCursor
    <2>2. BlankFrom(s, Cols * (Rows - 1))
      BY <1>6, <1>a DEF Step, BlankAt, WholeLabels, InCursor
    <2>3. t.x = s.x /\ t.y = Rows - 1
      BY <1>a, MoveY
    <2>4. t.cell = s.cell
      BY <1>a, MoveCells
    <2> HIDE DEF t
    <2>5. Place(t) \in Int /\ Cols * (Rows - 1) <= Place(t)
      BY <1>b, <2>1, <2>3, LastRow DEF Place
    <2>6. BlankFrom(t, Place(t))
      BY <2>2, <2>4, <2>5, LastRow, BlankLater
    <2>7. BlankAt("next", t, 0, 0) /\ Full(t)
      BY <1>a, <2>4, <2>6 DEF BlankAt, WholeLabels, Full
    <2> QED
      BY <1>6, <2>7, StepBlank DEF t
  <1> QED
    BY <1>1, <1>2, <1>3, <1>4, <1>5, <1>6 DEF NewlineStep

LEMMA CharBlank ==
    ASSUME BlankInv, CharStep
    PROVE  BlankNext
  <1> DEFINE n == input_len
             s == screen
             i == w.increment_y
  <1>a. /\ Sound(s) /\ AtLabel(w.at, s, w.reg, i, n)
        /\ Full(s) /\ BlankAt(w.at, s, w.reg, i)
    BY DEF BlankInv, CursorInv
  <1>b. Cols \in Nat /\ Cols > 0 /\ Rows \in Nat /\ Rows > 0
    BY Grid
  <1>1. CASE Step("other", "store", Cols * screen.y + screen.x, 0, screen)
    <2>1. BlankFrom(s, Place(s))
      BY <1>1, <1>a DEF Step, BlankAt, WholeLabels, InCursor
    <2>2. BlankAt("store", s, Cols * s.y + s.x, 0)
      BY <2>1 DEF BlankAt
    <2> QED
      BY <1>1, <1>a, <2>2, StepBlank
  <1>2. CASE Step("store", "x", 0, 0, StoreCell(screen, w.reg, Head(w.todo)))
    <2> DEFINE t == StoreCell(screen, w.reg, Head(w.todo))
    <2>1. OnScreen(s) /\ w.reg = Place(s)
      BY <1>2, <1>a DEF Step, AtLabel, WholeLabels, InCursor, Behind
    <2>2. BlankFrom(s, Place(s))
      BY <1>2, <1>a DEF Step, BlankAt, WholeLabels, InCursor
    <2>3. Place(s) \in Cell
      BY <2>1, PlaceInCell
    <2>4. t.x = s.x /\ t.y = s.y
      BY <1>a, <2>1, <2>3, StoreSound
    <2>5. t.cell = [j \in Cell |-> IF j = Place(s) THEN Head(w.todo) ELSE s.cell[j]]
      BY <1>a, <2>1, <2>3, StoreCells
    <2> HIDE DEF t
    <2>6. Full(t)
      BY <2>5 DEF Full
    <2>7. Place(t) = Place(s)
      BY <2>4 DEF Place
    <2>8. BlankFrom(t, Place(t) + 1)
      <3>1. Place(s) \in Int /\ \A j \in Cell : j \in Int
        BY <2>3, LastRow DEF Cell
      <3> QED
        BY <2>2, <2>5, <2>7, <3>1 DEF BlankFrom
    <2>9. BlankAt("x", t, 0, 0)
      BY <2>8 DEF BlankAt
    <2> QED
      BY <1>2, <2>6, <2>9, StepBlank DEF t
  <1>3. CASE Step("x", "x++", screen.x, 0, screen)
    <2>1. BlankFrom(s, Place(s) + 1)
      BY <1>3, <1>a DEF Step, BlankAt, WholeLabels, InCursor
    <2>2. BlankAt("x++", s, s.x, 0)
      BY <2>1 DEF BlankAt
    <2> QED
      BY <1>3, <1>a, <2>2, StepBlank
  <1>4. CASE Step("x++", "x>?", 0, 0, [screen EXCEPT !.x = w.reg + 1])
    <2> DEFINE t == [screen EXCEPT !.x = w.reg + 1]
    <2>1. OnScreen(s) /\ w.reg = s.x
      BY <1>4, <1>a DEF Step, AtLabel, WholeLabels, InCursor, Behind
    <2>2. BlankFrom(s, Place(s) + 1)
      BY <1>4, <1>a DEF Step, BlankAt, WholeLabels, InCursor
    <2>3. t.x = s.x + 1 /\ t.y = s.y
      BY <1>a, <2>1, MoveX
    <2>4. t.cell = s.cell
      BY <1>a, MoveCells
    <2> HIDE DEF t
    <2>5. Place(t) = Place(s) + 1
      BY <1>b, <2>1, <2>3, Grid DEF OnScreen, Place
    <2>6. BlankAt("x>?", t, 0, 0) /\ Full(t)
      BY <1>a, <2>2, <2>4, <2>5 DEF BlankAt, BlankFrom, Full
    <2> QED
      BY <1>4, <2>6, StepBlank DEF t
  <1>5. CASE Step("x>?", "x%", 0, IF screen.x > Cols - 1 THEN 1 ELSE 0, screen)
    <2> DEFINE inc == IF screen.x > Cols - 1 THEN 1 ELSE 0
    <2>1. BlankFrom(s, Place(s))
      BY <1>5, <1>a DEF Step, BlankAt, WholeLabels, InCursor
    <2> HIDE DEF inc
    <2>2. BlankAt("x%", s, 0, inc)
      BY <2>1 DEF BlankAt
    <2> QED
      BY <1>5, <1>a, <2>2, StepBlank DEF inc
  <1>6. CASE Step("x%", "x%=", Rem(screen.x, Cols), w.increment_y, screen)
    <2>1. BlankFrom(s, Place(s))
      BY <1>6, <1>a DEF Step, BlankAt, WholeLabels, InCursor
    <2>2. BlankAt("x%=", s, Rem(s.x, Cols), i)
      BY <2>1 DEF BlankAt
    <2> QED
      BY <1>6, <1>a, <2>2, StepBlank
  <1>7. CASE Step("x%=", "row>?", 0, w.increment_y, [screen EXCEPT !.x = w.reg])
    <2> DEFINE t == [screen EXCEPT !.x = w.reg]
    <2>1. /\ OnRow(s) /\ s.x \in 1 .. Cols
          /\ i = (IF s.x = Cols THEN 1 ELSE 0) /\ w.reg = (IF s.x = Cols THEN 0 ELSE s.x)
      BY <1>7, <1>a DEF Step, AtLabel, WholeLabels, InCursor
    <2>2. BlankFrom(s, Place(s))
      BY <1>7, <1>a DEF Step, BlankAt, WholeLabels, InCursor
    <2>3. t.x = w.reg /\ t.y = s.y
      BY <1>a, MoveX
    <2>4. t.cell = s.cell
      BY <1>a, MoveCells
    <2> HIDE DEF t
    <2>5. Cols * (s.y + i) + w.reg = Place(s)
      BY <2>1, Wrapped
    <2>6. BlankAt("row>?", t, 0, i) /\ Full(t)
      BY <1>a, <2>2, <2>3, <2>4, <2>5 DEF BlankAt, BlankFrom, Full
    <2> QED
      BY <1>7, <2>6, StepBlank DEF t
  <1>8. CASE Step("row>?", IF Row(screen) > Rows - 1 THEN "scroll" ELSE "row",
                  0, w.increment_y, screen)
    <2>1. BlankFrom(s, Cols * (s.y + i) + s.x)
      BY <1>8, <1>a DEF Step, BlankAt, WholeLabels, InCursor
    <2>2. CASE Row(s) > Rows - 1
      <3>1. BlankAt("scroll", s, 0, i)
        BY DEF BlankAt
      <3> QED
        BY <1>8, <1>a, <2>2, <3>1, StepBlank
    <2>3. CASE ~(Row(s) > Rows - 1)
      <3>1. BlankAt("row", s, 0, i)
        BY <2>1 DEF BlankAt
      <3> QED
        BY <1>8, <1>a, <2>3, <3>1, StepBlank
    <2> QED
      BY <2>2, <2>3
  <1>9. CASE Step("row", "y=row", Rem(Row(screen), Rows), 0, screen)
    <2>1. /\ OnRow(s) /\ s.x \in 0 .. Cols - 1 /\ i \in {0, 1} /\ s.y + i <= Rows - 1
      BY <1>9, <1>a DEF Step, AtLabel, WholeLabels, InCursor
    <2>2. BlankFrom(s, Cols * (s.y + i) + s.x)
      BY <1>9, <1>a DEF Step, BlankAt, WholeLabels, InCursor
    <2>3. Row(s) = s.y + i
      <3>1. s.x \div Cols = 0
        BY <1>b, <2>1
      <3> QED
        BY <2>1, <3>1 DEF Row, OnRow
    <2>4. s.y + i \in 0 .. Rows - 1
      BY <1>b, <2>1 DEF OnRow
    <2>5. Rem(Row(s), Rows) = s.y + i
      BY <1>b, <2>3, <2>4, RemOnce
    <2>6. BlankAt("y=row", s, Rem(Row(s), Rows), 0)
      BY <2>2, <2>5 DEF BlankAt
    <2> QED
      BY <1>9, <1>a, <2>6, StepBlank
  <1>10. CASE Step("y=row", "next", 0, 0, [screen EXCEPT !.y = w.reg])
    <2> DEFINE t == [screen EXCEPT !.y = w.reg]
    <2>1. BlankFrom(s, Cols * w.reg + s.x)
      BY <1>10, <1>a DEF Step, BlankAt, WholeLabels, InCursor
    <2>2. t.x = s.x /\ t.y = w.reg
      BY <1>a, MoveY
    <2>3. t.cell = s.cell
      BY <1>a, MoveCells
    <2> HIDE DEF t
    <2>4. BlankAt("next", t, 0, 0) /\ Full(t)
      BY <1>a, <2>1, <2>2, <2>3 DEF BlankAt, BlankFrom, Full, WholeLabels, Place
    <2> QED
      BY <1>10, <2>4, StepBlank DEF t
  <1> QED
    BY <1>1, <1>2, <1>3, <1>4, <1>5, <1>6, <1>7, <1>8, <1>9, <1>10 DEF CharStep

LEMMA LoopBlank ==
    ASSUME BlankInv, LoopStep \/ CursorStep
    PROVE  BlankNext
  <1>1. screen' = screen /\ w.at \in {"char", "next"} \cup InCursor
    BY DEF LoopStep, CursorStep, InCursor
  <1>2. BlankFrom(screen, Place(screen)) /\ Full(screen)
    BY <1>1 DEF BlankInv, BlankAt, WholeLabels, InCursor
  <1>3. w'.at \in WholeLabels
    BY LoopLabels DEF BlankInv, CursorInv
  <1> QED
    BY <1>1, <1>2, <1>3 DEF BlankNext, BlankAt

(* clear_terminal leaves a blank page. *)
LEMMA ClearCells ==
    ASSUME NEW s
    PROVE  /\ Full(clear_terminal(s))
           /\ \A p : BlankFrom(clear_terminal(s), p)
  <1> DEFINE f == [i \in Cell |-> Blank]
  <1>1. clear_terminal(s).cell = f
    <2> HIDE DEF f
    <2>1. clear = [x |-> 0, y |-> 0, cell |-> f, spilled |-> FALSE]
      BY DEF clear, f
    <2> QED
      BY <2>1 DEF clear_terminal
  <1> QED
    BY <1>1 DEF Full, BlankFrom

(* Keys come when the screen is between two characters. *)
LEMMA KeyWhole ==
    ASSUME CursorInv, OwnKey, "putc" \notin KeysHit
    PROVE  /\ w.at \in {"idle"} \cup InCursor /\ w.at \in WholeLabels /\ w' = w
           /\ Sound(screen) /\ OnScreen(screen) /\ Place(screen) \in Cell
           /\ Place(screen) >= input_len
  <1>1. w.at \in {"idle"} \cup InCursor /\ w' = w
    BY DEF OwnKey
  <1>2. w.at \in WholeLabels
    BY <1>1 DEF WholeLabels
  <1>3. Behind(screen, input_len)
    BY <1>1 DEF CursorInv, AtLabel, WholeLabels, InCursor
  <1>4. Sound(screen) /\ OnScreen(screen) /\ Place(screen) >= input_len
    BY <1>3 DEF Behind, CursorInv
  <1>5. Place(screen) \in Cell
    BY <1>4, PlaceInCell
  <1> QED
    BY <1>1, <1>2, <1>4, <1>5

(* The screen half of the invariant after a step that ends between two      *)
(* characters.                                                              *)
LEMMA WholeBlank ==
    ASSUME NEW t, screen' = t, Full(t), BlankFrom(t, Place(t)), w'.at \in WholeLabels
    PROVE  BlankNext
  BY DEF BlankNext, BlankAt

LEMMA BlankInit == ConsoleInit => BlankInv
  <1> SUFFICES ASSUME ConsoleInit PROVE BlankInv
    OBVIOUS
  <1>1. CursorInv /\ w.at = "idle"
    BY CursorInit DEF ConsoleInit, Idle
  <1> DEFINE f == [i \in Cell |-> Blank]
  <1>2. screen.cell = f
    <2> HIDE DEF f
    <2>1. screen = [x |-> 0, y |-> 0, cell |-> f, spilled |-> FALSE]
      BY DEF ConsoleInit, clear, f
    <2> QED
      BY <2>1
  <1>3. Full(screen) /\ BlankFrom(screen, Place(screen))
    BY <1>2 DEF Full, BlankFrom
  <1> QED
    BY <1>1, <1>3 DEF BlankInv, BlankAt, WholeLabels

LEMMA BlankKept ==
    ASSUME ~TypeAhead, ~BadBuffers, 0 \notin ReadSizes, "putc" \notin KeysHit
    PROVE  BlankInv /\ [ConsoleNext]_cvars => BlankInv'
  <1> SUFFICES ASSUME BlankInv, [ConsoleNext]_cvars PROVE BlankInv'
    OBVIOUS
  <1>a. CursorInv /\ CursorInv' /\ Full(screen) /\ BufferInv
    BY CursorKept DEF BlankInv, CursorInv
  <1>b. SUFFICES BlankNext
    BY <1>a DEF BlankInv, BlankNext
  <1>c. w.at \in WholeLabels => BlankFrom(screen, Place(screen))
    BY DEF BlankInv, BlankAt, WholeLabels, InCursor
  <1>d. ASSUME OwnKey
        PROVE  /\ w'.at \in WholeLabels /\ Sound(screen) /\ OnScreen(screen)
               /\ BlankFrom(screen, Place(screen)) /\ Place(screen) >= input_len
               /\ Place(screen) \in Cell
    BY <1>a, <1>c, <1>d, KeyWhole
  <1>e. ASSUME OwnKey, NEW c, screen' = putc_in_terminal(c, screen) PROVE BlankNext
    <2> DEFINE t == putc_in_terminal(c, screen)
    <2>1. Full(t)
      BY <1>a, <1>d, <1>e, PutcCells
    <2>2. BlankFrom(t, Place(t))
      BY <1>a, <1>d, <1>e, PutcBlank
    <2> QED
      BY <1>d, <1>e, <2>1, <2>2, WholeBlank
  <1>1. CASE EchoReturn
    BY <1>1, <1>e DEF EchoReturn, Echo
  <1>2. CASE EchoBackspace
    <2>1. OwnKey /\ screen' = backspace_fnc(screen) /\ input_len # 0
      BY <1>2 DEF EchoBackspace, Echo, KeyBackspace
    <2> DEFINE t == backspace_fnc(screen)
    <2>2. input_len \in Nat /\ Place(screen) >= 1 /\ Place(screen) \in Int
      BY <1>a, <1>d, <2>1, Erasable, LastRow DEF Cell
    <2>3. Place(t) = Place(screen) - 1
      BY <1>d, <2>1, <2>2, BackspaceSound
    <2>4. t.cell = [j \in Cell |-> IF j = Place(screen) - 1 THEN Blank ELSE screen.cell[j]]
      BY <1>a, <1>d, <2>1, <2>2, BackspaceCells
    <2> HIDE DEF t
    <2>5. Full(t)
      BY <2>4 DEF Full
    <2>6. BlankFrom(t, Place(t))
      <3>1. \A j \in Cell : j \in Int
        BY LastRow DEF Cell
      <3> QED
        BY <1>d, <2>1, <2>2, <2>3, <2>4, <3>1 DEF BlankFrom
    <2> QED
      BY <1>d, <2>1, <2>5, <2>6, WholeBlank DEF t
  <1>3. ASSUME NEW c \in Chars, EchoChar(c) PROVE BlankNext
    BY <1>3, <1>e DEF EchoChar, Echo
  <1>4. CASE CtrlL
    <2>1. OwnKey /\ screen' = ClearScreen
      BY <1>4 DEF CtrlL, Echo
    <2> DEFINE c == clear_terminal(screen)
               t == ClearScreen
    <2>2. Sound(c) /\ OnScreen(c) /\ Full(c) /\ BlankFrom(c, Place(c))
      BY <1>d, <2>1, ClearSound, ClearCells
    <2> HIDE DEF c
    <2>3. Len(Line(buf_count)) = buf_count /\ buf_count \in Nat
      BY <1>a, Erasable DEF Line
    <2>4. t = puts(Line(buf_count), c)
      BY DEF ClearScreen, c
    <2>5. /\ 0 \in 0 .. Len(Line(buf_count)) /\ 0 <= Cols * (Rows - 1)
          /\ Len(Line(buf_count)) \in Nat
          /\ \A i \in Len(Line(buf_count)) - 0 + 1 .. Len(Line(buf_count)) : FALSE
      BY <2>3, LastRow
    <2>6. Full(t) /\ BlankFrom(t, Place(t))
      BY <2>2, <2>4, <2>5, PutsCells
    <2> QED
      BY <1>d, <2>1, <2>6, WholeBlank
  <1>5. CASE UNCHANGED <<screen, w>>
    BY <1>5 DEF BlankInv, BlankNext
  <1>6. CASE OtherKey
    BY <1>5, <1>6 DEF OtherKey
  <1>7. ASSUME NEW t \in {Own, Other}, SwitchTerminal(t) PROVE BlankNext
    BY <1>5, <1>7 DEF SwitchTerminal
  <1>8. ASSUME NEW text \in Texts, WriteStart(text) PROVE BlankNext
    <2>1. w.at = "idle" /\ screen' = screen /\ w' = [Idle EXCEPT !.at = "char", !.todo = text]
      BY <1>8 DEF WriteStart
    <2>2. w' = [at |-> "char", todo |-> text, reg |-> 0, increment_y |-> 0]
      BY <2>1 DEF Idle
    <2>3. w'.at \in WholeLabels /\ w.at \in WholeLabels
      BY <2>1, <2>2 DEF WholeLabels
    <2> QED
      BY <1>a, <1>c, <2>1, <2>3, WholeBlank
  <1>9. CASE Writer
    BY <1>9, NewlineBlank, CharBlank, LoopBlank DEF Writer
  <1>10. ASSUME NEW e \in Exceptions, Fault(e) PROVE BlankNext
    <2> DEFINE t == printf(FaultFormat(e), screen)
    <2>1. w.at \in {"idle", "char"} /\ screen' = t /\ w' = Idle
      BY <1>10 DEF Fault, FaultScreen
    <2>2. Behind(screen, input_len) /\ BlankFrom(screen, Place(screen))
      BY <1>a, <1>c, <2>1 DEF CursorInv, AtLabel, WholeLabels, InCursor
    <2>3. Sound(screen) /\ OnScreen(screen)
      BY <1>a, <2>2 DEF Behind, CursorInv
    <2>4. Full(t) /\ BlankFrom(t, Place(t))
      BY <1>a, <2>2, <2>3, MessageCells
    <2> HIDE DEF t
    <2>5. w'.at \in WholeLabels
      BY <2>1 DEF Idle, WholeLabels
    <2> QED
      BY <2>1, <2>4, <2>5, WholeBlank
  <1>11. ASSUME NEW n \in ReadSizes, Reading(ReadStart(n)) PROVE BlankNext
    BY <1>5, <1>11 DEF Reading, consoleVars
  <1>12. CASE Reading(Reader)
    BY <1>5, <1>12 DEF Reading, consoleVars
  <1>13. CASE UNCHANGED cvars
    BY <1>5, <1>13 DEF cvars, consoleVars
  <1> QED
    BY <1>1, <1>2, <1>3, <1>4, <1>6, <1>7, <1>8, <1>9, <1>10, <1>11, <1>12, <1>13
       DEF ConsoleNext

-----------------------------------------------------------------------------
(* The line being typed. *)

LEMMA LineTypes ==
    ASSUME BufferInv
    PROVE  /\ line_buf \in [Cells -> Chars \cup {NL, NUL}]
           /\ buf_count \in Nat /\ input_len \in Nat /\ input_len <= buf_count
           /\ buf_count <= LineBufMax - 1 /\ LineBufMax \in Nat
           /\ \A i \in 1 .. input_len : buf_count - i \in Cells
  BY TerminalAssumption DEF BufferInv, TypeOK, BufferSafe, Count, Cells

(* What Backspace and a character do to the line. *)
LEMMA BackspaceKey ==
    ASSUME BufferInv, KeyBackspace
    PROVE  /\ input_len # 0 /\ input_len' = input_len - 1 /\ buf_count' = buf_count - 1
           /\ line_buf' = [line_buf EXCEPT ![buf_count - 1] = NUL]
  <1>1. /\ input_len # 0 /\ input_len' = input_len - 1
        /\ buf_count' = (buf_count - 1) % UInt16 /\ Store(buf_count', NUL, "backspace")
    BY DEF KeyBackspace
  <1>2. buf_count - 1 \in Nat /\ buf_count - 1 < UInt16 /\ buf_count - 1 \in Cells
    BY <1>1, LineTypes, TerminalAssumption, NoWrap DEF Cells
  <1>3. buf_count' = buf_count - 1
    BY <1>1, <1>2, NoWrap
  <1> QED
    BY <1>1, <1>2, <1>3 DEF Store

LEMMA CharKey ==
    ASSUME BufferInv, NEW c \in Chars, KeyChar(c)
    PROVE  /\ input_len' = input_len + 1 /\ buf_count' = buf_count + 1
           /\ line_buf' = [line_buf EXCEPT ![buf_count] = c] /\ buf_count \in Cells
  <1>1. buf_count \in Cells
    BY LineTypes DEF KeyChar, RoomForChar, Cells
  <1> QED
    BY <1>1 DEF KeyChar, Store

(* Reads move the line only when nothing is typed behind it. *)
LEMMA ReadKeepsLine ==
    ASSUME BufferInv, (\E n \in ReadSizes : ReadStart(n)) \/ Reader
    PROVE  /\ input_len' = input_len
           /\ input_len = 0 \/ UNCHANGED <<line_buf, buf_count>>
  <1>1. ASSUME ReadCopy PROVE input_len' = input_len /\ input_len = 0
    BY <1>1 DEF ReadCopy, Goto, BufferInv, Counters, Taken
  <1>2. ASSUME NEW n \in ReadSizes, ReadStart(n)
        PROVE  input_len' = input_len /\ UNCHANGED <<line_buf, buf_count>>
    BY <1>2 DEF ReadStart, bufVars
  <1>3. ASSUME ReadArm \/ ReadRelease \/ ReadReturn
        PROVE  input_len' = input_len /\ UNCHANGED <<line_buf, buf_count>>
    BY <1>3 DEF ReadArm, ReadRelease, ReadReturn, bufVars
  <1> QED
    BY <1>1, <1>2, <1>3 DEF Reader

LEMMA TypedKept ==
    ASSUME BufferInv, Typed, [Next]_vars
    PROVE  Typed'
  <1>1. CASE KeyReturn
    <2>1. input_len' = 0
      BY <1>1 DEF KeyReturn
    <2> QED
      BY <2>1 DEF Typed
  <1>2. CASE KeyBackspace
    <2>1. ASSUME NEW i \in 1 .. input_len - 1
          PROVE  line_buf'[buf_count - 1 - i] \in Chars
      <3>1. /\ i + 1 \in 1 .. input_len /\ buf_count - (i + 1) = buf_count - 1 - i
            /\ buf_count - (i + 1) # buf_count - 1
        BY LineTypes
      <3>2. buf_count - (i + 1) \in Cells /\ line_buf[buf_count - (i + 1)] \in Chars
        BY <3>1, LineTypes DEF Typed
      <3> QED
        BY <1>2, <3>1, <3>2, BackspaceKey, LineTypes
    <2>2. input_len' = input_len - 1 /\ buf_count' = buf_count - 1
      BY <1>2, BackspaceKey
    <2> QED
      BY <2>1, <2>2 DEF Typed
  <1>3. ASSUME NEW c \in Chars, KeyChar(c) PROVE Typed'
    <2>1. ASSUME NEW i \in 1 .. input_len + 1
          PROVE  line_buf'[buf_count + 1 - i] \in Chars
      <3>1. CASE i = 1
        <4>1. buf_count + 1 - i = buf_count
          BY <3>1, LineTypes
        <4> QED
          BY <1>3, <4>1, CharKey, LineTypes
      <3>2. CASE i # 1
        <4>1. /\ i - 1 \in 1 .. input_len /\ buf_count - (i - 1) = buf_count + 1 - i
              /\ buf_count - (i - 1) # buf_count
          BY <3>2, LineTypes
        <4>2. buf_count - (i - 1) \in Cells /\ line_buf[buf_count - (i - 1)] \in Chars
          BY <4>1, LineTypes DEF Typed
        <4> QED
          BY <1>3, <4>1, <4>2, CharKey, LineTypes
      <3> QED
        BY <3>1, <3>2
    <2>2. input_len' = input_len + 1 /\ buf_count' = buf_count + 1
      BY <1>3, CharKey
    <2>3. ASSUME NEW i \in 1 .. input_len'
          PROVE  line_buf'[buf_count' - i] \in Chars
      BY <2>1, <2>2, LineTypes
    <2> QED
      BY <2>3 DEF Typed
  <1>4. CASE (\E n \in ReadSizes : ReadStart(n)) \/ Reader
    BY <1>4, ReadKeepsLine DEF Typed
  <1>5. CASE ReadFault \/ UNCHANGED vars
    BY <1>5 DEF ReadFault, vars, bufVars, Typed
  <1> QED
    BY <1>1, <1>2, <1>3, <1>4, <1>5 DEF Next

(* Together. *)
TextInv == BlankInv /\ Typed /\ ShownInv

LEMMA TextInit == ConsoleInit => TextInv
  <1> SUFFICES ASSUME ConsoleInit PROVE TextInv
    OBVIOUS
  <1>1. BlankInv /\ input_len = 0
    BY BlankInit DEF ConsoleInit, Init
  <1> QED
    BY <1>1 DEF TextInv, Typed, ShownInv

LEMMA ConsoleTyped ==
    ASSUME TextInv, [ConsoleNext]_cvars
    PROVE  Typed'
  <1>1. [Next]_vars
    BY DEF ConsoleNext, cvars, EchoReturn, EchoBackspace, EchoChar, CtrlL, OtherKey,
           SwitchTerminal, WriteStart, Writer, NewlineStep, CharStep, LoopStep, CursorStep,
           Step, Fault, Reading, Next
  <1>2. BufferInv /\ Typed
    BY DEF TextInv, BlankInv, CursorInv
  <1> QED
    BY <1>1, <1>2, TypedKept

(* The label of terminal_write while it writes. *)
LEMMA WriterLabels ==
    ASSUME Writer
    PROVE  /\ w.at # "idle" /\ UNCHANGED <<vars, typed_only, report>>
           /\ w.at \in InCursor => screen' = screen
  BY DEF Writer, NewlineStep, CharStep, LoopStep, CursorStep, Step, InCursor

LEMMA TextKept ==
    ASSUME ~TypeAhead, ~BadBuffers, 0 \notin ReadSizes, "putc" \notin KeysHit
    PROVE  TextInv /\ [ConsoleNext]_cvars => TextInv'
  <1> SUFFICES ASSUME TextInv, [ConsoleNext]_cvars PROVE TextInv'
    OBVIOUS
  <1>a. BlankInv /\ BlankInv' /\ Typed' /\ Typed /\ ShownInv
    BY BlankKept, ConsoleTyped DEF TextInv
  <1>b. CursorInv /\ CursorInv' /\ BufferInv /\ BufferInv' /\ Full(screen)
    BY <1>a DEF BlankInv, CursorInv
  <1>c. SUFFICES ShownInv'
    BY <1>a DEF TextInv
  <1>d. CASE input_len' = 0
    BY <1>d DEF ShownInv
  <1>e. buf_count \in Nat /\ input_len \in Nat /\ input_len <= buf_count
    BY <1>b, LineTypes
  <1>1. CASE EchoReturn
    BY <1>1, <1>d DEF EchoReturn, KeyReturn
  <1>2. CASE EchoBackspace
    <2>1. /\ OwnKey /\ KeyBackspace /\ screen' = backspace_fnc(screen)
          /\ typed_only' => typed_only \/ input_len' = 0
      BY <1>2 DEF EchoBackspace, Echo
    <2>2. SUFFICES ASSUME typed_only PROVE ShownInv'
      BY <1>d, <2>1 DEF ShownInv
    <2> DEFINE t == backspace_fnc(screen)
               p == Place(screen)
    <2>3. /\ w.at \in {"idle"} \cup InCursor /\ w' = w /\ Sound(screen) /\ OnScreen(screen)
          /\ p \in Cell /\ p >= input_len
      BY <1>b, <2>1, KeyWhole
    <2>4. /\ input_len # 0 /\ input_len' = input_len - 1 /\ buf_count' = buf_count - 1
          /\ line_buf' = [line_buf EXCEPT ![buf_count - 1] = NUL]
      BY <1>b, <2>1, BackspaceKey
    <2>5. p \in Int /\ p >= 1
      BY <1>e, <2>3, <2>4, LastRow DEF Cell
    <2>6. Place(t) = p - 1
      BY <2>3, <2>5, BackspaceSound
    <2>7. t.cell = [j \in Cell |-> IF j = p - 1 THEN Blank ELSE screen.cell[j]]
      BY <1>b, <2>3, <2>5, BackspaceCells
    <2> HIDE DEF t, p
    <2>8. ASSUME NEW i \in 1 .. input_len - 1
          PROVE  t.cell[(p - 1) - i] = line_buf'[(buf_count - 1) - i]
      <3>1. /\ i + 1 \in 1 .. input_len /\ p - (i + 1) = (p - 1) - i
            /\ buf_count - (i + 1) = (buf_count - 1) - i
            /\ p - (i + 1) # p - 1 /\ buf_count - (i + 1) # buf_count - 1
        BY <1>e, <2>5
      <3>2. p - (i + 1) \in Cell
        BY <1>e, <2>3, <2>5, <3>1, LastRow DEF Cell
      <3>3. screen.cell[p - (i + 1)] = line_buf[buf_count - (i + 1)]
        BY <1>a, <2>2, <3>1 DEF ShownInv, p
      <3>4. buf_count - (i + 1) \in Cells
        BY <1>b, <3>1, LineTypes
      <3>5. line_buf'[buf_count - (i + 1)] = line_buf[buf_count - (i + 1)]
        BY <1>b, <2>4, <3>1, <3>4, LineTypes
      <3>6. t.cell[p - (i + 1)] = screen.cell[p - (i + 1)]
        BY <2>7, <3>1, <3>2
      <3> QED
        BY <3>1, <3>3, <3>5, <3>6
    <2> QED
      BY <2>1, <2>3, <2>4, <2>6, <2>8 DEF ShownInv, t
  <1>3. ASSUME NEW c \in Chars, EchoChar(c) PROVE ShownInv'
    <2>1. /\ OwnKey /\ KeyChar(c) /\ screen' = putc_in_terminal(c, screen)
          /\ typed_only' = typed_only
      BY <1>3 DEF EchoChar, Echo
    <2>2. SUFFICES ASSUME typed_only PROVE ShownInv'
      BY <2>1 DEF ShownInv
    <2> DEFINE t == putc_in_terminal(c, screen)
               p == Place(screen)
    <2>3. /\ w.at \in {"idle"} \cup InCursor /\ w.at \in WholeLabels /\ w' = w
          /\ Sound(screen) /\ OnScreen(screen)
      BY <1>b, <2>1, KeyWhole
    <2>4. /\ input_len' = input_len + 1 /\ buf_count' = buf_count + 1
          /\ line_buf' = [line_buf EXCEPT ![buf_count] = c] /\ buf_count \in Cells
      BY <1>b, <1>3, <2>1, CharKey
    <2>5. c # Newline
      BY <1>3, ConsoleAssumption, TerminalAssumption
    <2>6. Place(t) >= input_len + 1
      <3>1. Behind(screen', input_len')
        BY <1>b, <2>3 DEF CursorInv, AtLabel, WholeLabels, InCursor
      <3> QED
        BY <2>1, <2>4, <3>1 DEF Behind
    <2>7. OnScreen(t)
      BY <2>3, PutcSound
    <2>8. Place(t) \in Int
      <3>1. Place(t) \in Cell
        BY <2>7, PlaceInCell
      <3> QED
        BY <3>1, LastRow DEF Cell
    <2>9. ASSUME NEW i \in Nat \ {0}, Place(t) - i >= 0
          PROVE  t.cell[Place(t) - i] = IF i = 1 THEN c ELSE screen.cell[p - (i - 1)]
      BY <1>b, <2>3, <2>5, <2>9, PutcText
    <2> HIDE DEF t, p
    <2>10. ASSUME NEW i \in 1 .. input_len + 1
           PROVE  t.cell[Place(t) - i] = line_buf'[(buf_count + 1) - i]
      <3>1. i \in Nat \ {0} /\ Place(t) - i >= 0
        BY <1>e, <2>6, <2>8
      <3>2. t.cell[Place(t) - i] = IF i = 1 THEN c ELSE screen.cell[p - (i - 1)]
        BY <2>9, <3>1
      <3>3. CASE i = 1
        <4>1. (buf_count + 1) - i = buf_count
          BY <1>e, <3>3
        <4>2. line_buf'[buf_count] = c
          BY <1>b, <2>4, LineTypes
        <4> QED
          BY <3>2, <3>3, <4>1, <4>2
      <3>4. CASE i # 1
        <4>1. /\ i - 1 \in 1 .. input_len /\ buf_count - (i - 1) = (buf_count + 1) - i
              /\ buf_count - (i - 1) # buf_count
          BY <1>e, <3>4
        <4>2. screen.cell[p - (i - 1)] = line_buf[buf_count - (i - 1)]
          BY <1>a, <2>2, <4>1 DEF ShownInv, p
        <4>3. buf_count - (i - 1) \in Cells
          BY <1>b, <4>1, LineTypes
        <4>4. line_buf'[buf_count - (i - 1)] = line_buf[buf_count - (i - 1)]
          BY <1>b, <2>4, <4>1, <4>3, LineTypes
        <4> QED
          BY <3>2, <3>4, <4>1, <4>2, <4>4
      <3> QED
        BY <3>3, <3>4
    <2> QED
      BY <2>1, <2>3, <2>4, <2>10 DEF ShownInv, t
  <1>4. CASE CtrlL
    <2>1. OwnKey /\ screen' = ClearScreen /\ UNCHANGED <<line_buf, buf_count, input_len>>
      BY <1>4 DEF CtrlL, Echo, vars, bufVars
    <2> DEFINE c == clear_terminal(screen)
               t == ClearScreen
               str == Line(buf_count)
    <2>2. w.at \in {"idle"} \cup InCursor /\ w' = w /\ Sound(screen)
      BY <1>b, <2>1, KeyWhole
    <2>3. Sound(c) /\ OnScreen(c) /\ Full(c)
      BY <2>2, ClearSound, ClearCells
    <2> HIDE DEF c
    <2>4. Len(str) = buf_count /\ \A i \in 1 .. buf_count : str[i] = line_buf[i - 1]
      BY <1>e DEF Line
    <2>5. t = puts(str, c)
      BY DEF ClearScreen, c
    <2> HIDE DEF str, t
    <2>6. Len(str) \in Nat /\ input_len \in 0 .. Len(str) /\ input_len <= Cols * (Rows - 1)
      BY <1>b, <1>e, <2>4, Erasable
    <2>7. ASSUME NEW i \in Len(str) - input_len + 1 .. Len(str) PROVE str[i] # Newline
      <3> DEFINE d == buf_count - (i - 1)
      <3>1. i \in 1 .. buf_count /\ d \in 1 .. input_len /\ buf_count - d = i - 1
        BY <1>e, <2>4
      <3> HIDE DEF d
      <3>2. str[i] \in Chars
        BY <1>a, <2>4, <3>1 DEF Typed
      <3> QED
        BY <3>2, ConsoleAssumption, TerminalAssumption
    <2>8. \A i \in 1 .. input_len : t.cell[Place(t) - i] = str[Len(str) + 1 - i]
      BY <2>3, <2>5, <2>6, <2>7, PutsCells
    <2>9. ASSUME NEW i \in 1 .. input_len
          PROVE  t.cell[Place(t) - i] = line_buf[buf_count - i]
      <3>1. buf_count + 1 - i \in 1 .. buf_count /\ (buf_count + 1 - i) - 1 = buf_count - i
        BY <1>e
      <3>2. str[buf_count + 1 - i] = line_buf[buf_count - i]
        BY <2>4, <3>1
      <3> QED
        BY <2>4, <2>8, <3>2
    <2> QED
      BY <2>1, <2>2, <2>9 DEF ShownInv, t
  <1>5. CASE UNCHANGED <<screen, w, typed_only, line_buf, buf_count, input_len>>
    BY <1>5, <1>a DEF ShownInv
  <1>6. CASE OtherKey
    BY <1>5, <1>6 DEF OtherKey, vars, bufVars
  <1>7. ASSUME NEW t \in {Own, Other}, SwitchTerminal(t) PROVE ShownInv'
    BY <1>5, <1>7 DEF SwitchTerminal, vars, bufVars
  <1>8. ASSUME NEW text \in Texts, WriteStart(text) PROVE ShownInv'
    <2>1. typed_only' => input_len' = 0
      BY <1>8 DEF WriteStart, vars, bufVars
    <2> QED
      BY <1>d, <2>1 DEF ShownInv
  <1>9. CASE Writer
    <2>1. /\ w.at # "idle" /\ UNCHANGED <<typed_only, line_buf, buf_count, input_len>>
          /\ w.at \in InCursor => screen' = screen
      BY <1>9, WriterLabels DEF vars, bufVars
    <2>2. SUFFICES ASSUME typed_only, input_len # 0 PROVE ShownInv'
      BY <1>d, <2>1 DEF ShownInv
    <2>3. w.at \in InCursor
      BY <1>a, <2>1, <2>2 DEF ShownInv
    <2>4. CursorStep
      BY <1>9, <2>3 DEF Writer, NewlineStep, CharStep, LoopStep, Step, InCursor
    <2>5. w'.at \in {"idle"} \cup InCursor
      <3>1. WriterRecord(w)
        BY <1>b DEF CursorInv
      <3>2. CASE w' = [w EXCEPT !.at = "low", !.reg = Position(Own, screen)]
        <4> DEFINE r == Position(Own, screen)
        <4> HIDE DEF r
        <4>1. w' = [w EXCEPT !.at = "low", !.reg = r]
          BY <3>2 DEF r
        <4>2. w'.at = "low"
          BY <3>1, <4>1 DEF WriterRecord
        <4> QED
          BY <4>2 DEF InCursor
      <3>3. CASE \E a \in {"lowdata", "high", "highdata"} : w' = [w EXCEPT !.at = a]
        <4>1. PICK a \in {"lowdata", "high", "highdata"} : w' = [w EXCEPT !.at = a]
          BY <3>3
        <4>2. w'.at = a
          BY <3>1, <4>1 DEF WriterRecord
        <4> QED
          BY <4>2 DEF InCursor
      <3>4. CASE w' = Idle
        BY <3>4 DEF Idle
      <3> QED
        BY <2>4, <3>2, <3>3, <3>4 DEF CursorStep
    <2> QED
      BY <1>a, <2>1, <2>3, <2>5 DEF ShownInv
  <1>10. ASSUME NEW e \in Exceptions, Fault(e) PROVE ShownInv'
    <2>1. typed_only' => input_len' = 0
      BY <1>10 DEF Fault, ReadFault, vars, bufVars
    <2> QED
      BY <1>d, <2>1 DEF ShownInv
  <1>11. CASE (\E n \in ReadSizes : Reading(ReadStart(n))) \/ Reading(Reader)
    <2>1. UNCHANGED consoleVars /\ ((\E n \in ReadSizes : ReadStart(n)) \/ Reader)
      BY <1>11 DEF Reading
    <2>2. input_len' = input_len /\ (input_len = 0 \/ UNCHANGED <<line_buf, buf_count>>)
      BY <1>b, <2>1, ReadKeepsLine
    <2> QED
      BY <1>d, <1>5, <2>1, <2>2 DEF consoleVars
  <1>12. CASE UNCHANGED cvars
    BY <1>5, <1>12 DEF cvars, consoleVars, vars, bufVars
  <1> QED
    BY <1>1, <1>2, <1>3, <1>4, <1>6, <1>7, <1>8, <1>9, <1>10, <1>11, <1>12
       DEF ConsoleNext

(* The characters Backspace can erase are seen just before the cursor, for  *)
(* every size of screen and line buffer, whatever wraps, scrolls or is      *)
(* reprinted, when keys do not come inside putc_in_terminal or during the   *)
(* copy of terminal_read.                                                   *)
THEOREM LineIsShownHolds ==
    ASSUME ~TypeAhead, ~BadBuffers, 0 \notin ReadSizes, "putc" \notin KeysHit
    PROVE  ConsoleSpec => []LineIsShown
  <1>1. TextInv => LineIsShown
    <2> SUFFICES ASSUME TextInv, typed_only, NEW i \in 1 .. input_len
                 PROVE  LET k == Cols * screen.y + screen.x - i
                        IN  k \in Cell /\ screen.cell[k] = line_buf[buf_count - i]
      BY DEF LineIsShown
    <2>1. BufferInv /\ CursorInv /\ ShownInv
      BY DEF TextInv, BlankInv, CursorInv
    <2>2. w.at \in {"idle"} \cup InCursor \/ input_len = 0
      BY <2>1 DEF ShownInv
    <2>3. input_len \in Nat /\ input_len # 0
      BY <2>1, LineTypes
    <2>4. Behind(screen, input_len)
      BY <2>1, <2>2, <2>3 DEF CursorInv, AtLabel, WholeLabels, InCursor
    <2>5. Place(screen) \in Cell /\ Place(screen) >= input_len
      BY <2>4, PlaceInCell DEF Behind
    <2>6. Place(screen) - i \in Cell
      BY <2>3, <2>5, LastRow DEF Cell
    <2>7. screen.cell[Place(screen) - i] = line_buf[buf_count - i]
      BY <2>1 DEF ShownInv
    <2>8. Cols * screen.y + screen.x - i = Place(screen) - i
      <3>1. /\ screen.x \in Int /\ screen.y \in Int /\ Cols \in Int /\ i \in Int
        BY <2>4, ScreenAssumption DEF Behind, Sound, OnScreen
      <3>2. Cols * screen.y \in Int
        BY <3>1
      <3>3. Place(screen) = Cols * screen.y + screen.x
        BY DEF Place
      <3> QED
        BY <3>1, <3>2, <3>3
    <2> QED
      BY <2>6, <2>7, <2>8
  <1> QED
    BY <1>1, TextInit, TextKept, PTL DEF ConsoleSpec

-----------------------------------------------------------------------------
(* The message of a fault. *)

(* The theorem's invariant. *)
SeenInv == BlankInv /\ ReportInv

LEMMA SeenKept ==
    ASSUME ~TypeAhead, ~BadBuffers, 0 \notin ReadSizes, "putc" \notin KeysHit,
           \A e \in Exceptions : Len(FaultText(e)) <= Cols * (Rows - 2)
    PROVE  SeenInv /\ [ConsoleNext]_cvars => SeenInv'
  <1> SUFFICES ASSUME SeenInv, [ConsoleNext]_cvars PROVE SeenInv'
    OBVIOUS
  <1>a. BlankInv /\ BlankInv' /\ CursorInv /\ ReportInv /\ Full(screen)
    BY BlankKept DEF SeenInv, BlankInv
  <1>b. SUFFICES ReportInv'
    BY <1>a DEF SeenInv
  <1>c. CASE report' = <<>>
    BY <1>c DEF ReportInv, FaultReported
  <1>1. CASE UNCHANGED <<screen, report, w>>
    BY <1>1, <1>a DEF ReportInv, FaultReported
  <1>2. CASE OwnKey
    BY <1>2, <1>c DEF OwnKey
  <1>3. CASE OtherKey
    BY <1>1, <1>3 DEF OtherKey
  <1>4. ASSUME NEW t \in {Own, Other}, SwitchTerminal(t) PROVE ReportInv'
    BY <1>1, <1>4 DEF SwitchTerminal
  <1>5. ASSUME NEW text \in Texts, WriteStart(text) PROVE ReportInv'
    BY <1>5, <1>c DEF WriteStart
  <1>6. CASE Writer
    BY <1>6, <1>a, <1>c, WriterLabels DEF ReportInv
  <1>7. ASSUME NEW e \in Exceptions, Fault(e) PROVE ReportInv'
    <2> DEFINE t == printf(FaultFormat(e), screen)
               q == FaultText(e)
    <2>1. w.at \in {"idle", "char"} /\ screen' = t /\ w' = Idle /\ report' = q
      BY <1>7 DEF Fault, FaultScreen
    <2>2. Behind(screen, input_len) /\ BlankFrom(screen, Place(screen)) /\ Sound(screen)
      BY <1>a, <2>1 DEF BlankInv, BlankAt, CursorInv, AtLabel, WholeLabels, InCursor
    <2>3. OnScreen(screen) /\ Len(q) <= Cols * (Rows - 2)
      BY <2>2 DEF Behind
    <2>4. q # <<>> => \E k \in Cell :
             /\ k + Len(q) - 1 \in Cell
             /\ \A i \in Cell : i >= k =>
                   t.cell[i] = IF i < k + Len(q) THEN q[i - k + 1] ELSE Blank
      BY <1>a, <2>2, <2>3, MessageCells
    <2> HIDE DEF t, q
    <2>5. w'.at = "idle"
      BY <2>1 DEF Idle
    <2> QED
      BY <2>1, <2>4, <2>5 DEF ReportInv, FaultReported
  <1>8. CASE (\E n \in ReadSizes : Reading(ReadStart(n))) \/ Reading(Reader)
    BY <1>1, <1>8 DEF Reading, consoleVars
  <1>9. CASE UNCHANGED cvars
    BY <1>1, <1>9 DEF cvars, consoleVars
  <1> QED
    BY <1>2, <1>3, <1>4, <1>5, <1>6, <1>7, <1>8, <1>9
       DEF ConsoleNext, EchoReturn, EchoBackspace, EchoChar, CtrlL

(* The message about the exception that killed a program, number, name and  *)
(* error code, is the last thing on its screen, whole, until a key or a     *)
(* program writes there, for every size of screen on which it fits above    *)
(* the last two rows.                                                       *)
THEOREM FaultReportedHolds ==
    ASSUME ~TypeAhead, ~BadBuffers, 0 \notin ReadSizes, "putc" \notin KeysHit,
           \A e \in Exceptions : Len(FaultText(e)) <= Cols * (Rows - 2)
    PROVE  ConsoleSpec => []FaultReported
  <1>1. ConsoleInit => SeenInv
    BY BlankInit DEF ConsoleInit, SeenInv, ReportInv, FaultReported
  <1>2. SeenInv => FaultReported
    BY DEF SeenInv, ReportInv
  <1> QED
    BY <1>1, <1>2, SeenKept, PTL DEF ConsoleSpec
=============================================================================
