------------------------------ MODULE Console ------------------------------
(***************************************************************************)
(* A terminal with its screen: the line discipline of module Terminal, the *)
(* echo that update adds to it, Ctrl+L and Alt+Fn (devices/keyboard.c),    *)
(* the terminal_write of the program on the terminal, and the message of   *)
(* fault_handler (isr.c), on the screen and the VGA registers of module    *)
(* Screen.                                                                 *)
(*                                                                         *)
(* The keyboard interrupt runs to its end at once; terminal_write runs     *)
(* with interrupts on and nothing protects the screen, so each of its      *)
(* loads and stores of x, y and the cells and each of its outb is a step   *)
(* (the kernel is compiled without optimisation: x++ is a load and a       *)
(* store).  The program runs on terminal Own; of the other terminal only   *)
(* its cursor and its echo are modelled.                                   *)
(***************************************************************************)
EXTENDS Terminal, Screen

CONSTANTS
    KeysHit,      \* the parts of terminal_write that keys interrupt
    Texts,        \* what the program passes to terminal_write
    Exceptions,   \* what the program may raise, as [int_no, message, err_code]
    OtherCursors         \* places of the other terminal's cursor, as [x, y]

(* The characters of a string. *)
Letters(str) == {str[i] : i \in DOMAIN str}

(* The fixed parts of fault_handler's message, a character for each. *)
Wording == {"P", ":", "(", ")"}

ASSUME ConsoleAssumption ==
    /\ KeysHit \subseteq {"putc", "cursor"}
    /\ Newline = NL
    /\ \A e \in Exceptions :
        /\ e.int_no \in Nat /\ e.err_code \in Nat
        /\ e.message \in Seq(Letters(e.message))
        /\ NL \notin Letters(e.message)
    /\ NL \notin Wording
    /\ LineBufMax <= Cols * (Rows - 1)     \* a line is shorter than the screen

Own   == 0
Other == 1

(* Where terminal_write is in move_cursor. *)
InCursor == {"cursor", "low", "lowdata", "high", "highdata"}

VARIABLES
    screen,            \* terminals[Own].screen
    other,             \* terminals[Other].screen, its x and y
    vga,               \* [index, reg]
    current_terminal,
    w,                 \* terminal_write: [at, todo, reg, increment_y]
    typed_only,        \* nothing was written to the screen since the line began
    report             \* the message of the last fault, while it must be seen

consoleVars == <<screen, other, vga, current_terminal, w, typed_only, report>>
cvars == <<vars, consoleVars>>

Idle == [at |-> "idle", todo |-> <<>>, reg |-> 0, increment_y |-> 0]

-----------------------------------------------------------------------------
(* keyboard_handler_main and update. *)

(* The key reaches the program's terminal. *)
OwnKey ==
    /\ current_terminal = Own
    /\ \/ w.at = "idle"
       \/ w.at \in InCursor /\ "cursor" \in KeysHit
       \/ w.at \notin InCursor /\ "putc" \in KeysHit
    /\ report' = <<>>
    /\ UNCHANGED <<other, current_terminal, w>>

(* What is on the screen now, echoed and shown with the cursor behind it. *)
Echo(s) ==
    /\ screen' = s
    /\ vga' = move_cursor(vga, current_terminal, s)

EchoReturn ==
    /\ OwnKey
    /\ KeyReturn
    /\ Echo(putc_in_terminal(NL, screen))
    /\ typed_only' = TRUE

EchoBackspace ==
    /\ OwnKey
    /\ KeyBackspace
    /\ Echo(backspace_fnc(screen))
    /\ typed_only' = (typed_only \/ input_len' = 0)

EchoChar(c) ==
    /\ OwnKey
    /\ KeyChar(c)
    /\ Echo(putc_in_terminal(c, screen))
    /\ UNCHANGED typed_only

ClearScreen_NoReprint == clear_terminal(screen)   \* variant: the line vanishes

ClearScreen == puts(Line(buf_count), clear_terminal(screen))

(* Ctrl+L: clear_terminal, then the line buffer again. *)
CtrlL ==
    /\ OwnKey
    /\ KeyArrives
    /\ Echo(ClearScreen)
    /\ typed_only' = TRUE
    /\ UNCHANGED vars

(* A character typed or erased on the other terminal. *)
OtherKey ==
    /\ smashed = "no"
    /\ current_terminal = Other
    /\ other' \in OtherCursors
    /\ vga' = move_cursor(vga, Other, other')
    /\ UNCHANGED <<vars, screen, current_terminal, w, typed_only, report>>

ShowTerminal_CursorFirst(t) ==      \* variant: the two register writes swapped
    set_vga_start(move_cursor(vga, t, IF t = Own THEN screen ELSE other), t)

(* The registers after start_terminal(t). *)
ShowTerminal(t) ==
    move_cursor(set_vga_start(vga, t), t, IF t = Own THEN screen ELSE other)

(* Alt+F1, Alt+F2 on a terminal that has its shell. *)
SwitchTerminal(t) ==
    /\ smashed = "no"
    /\ t # current_terminal
    /\ vga' = ShowTerminal(t)
    /\ current_terminal' = t
    /\ UNCHANGED <<vars, screen, other, w, typed_only, report>>

-----------------------------------------------------------------------------
(* terminal_write(text), statement by statement. *)

WriteStart(text) ==
    /\ smashed = "no"
    /\ pc = "idle" /\ w.at = "idle"
    /\ w' = [Idle EXCEPT !.at = "char", !.todo = text]
    /\ typed_only' = (typed_only /\ input_len = 0)
    /\ report' = <<>>
    /\ UNCHANGED <<vars, screen, other, vga, current_terminal>>

(* From one label to the next: the register, increment_y and the screen. *)
Step(from, to, reg, inc, scr) ==
    /\ smashed = "no"
    /\ w.at = from
    /\ w' = [w EXCEPT !.at = to, !.reg = reg, !.increment_y = inc]
    /\ screen' = scr
    /\ UNCHANGED <<vars, other, vga, current_terminal, typed_only, report>>

Row(s) == s.y + w.increment_y + s.x \div Cols

(* putc_in_terminal of a newline, and the scrolling common to both cases. *)
NewlineStep ==
    \/ Step("newline", "y++", screen.y, 0, screen)
    \/ Step("y++", "x=0", 0, 0, [screen EXCEPT !.y = w.reg + 1])
    \/ Step("x=0", "y>?", 0, 0, [screen EXCEPT !.x = 0])
    \/ Step("y>?", IF screen.y > Rows - 1 THEN "scroll" ELSE "next", 0, 0, screen)
    \/ Step("scroll", "y=last", 0, 0, vert_scroll(screen))
    \/ Step("y=last", "next", 0, 0, [screen EXCEPT !.y = Rows - 1])

(* putc_in_terminal of another character. *)
CharStep ==
    \/ Step("other", "store", Cols * screen.y + screen.x, 0, screen)
    \/ Step("store", "x", 0, 0, StoreCell(screen, w.reg, Head(w.todo)))
    \/ Step("x", "x++", screen.x, 0, screen)
    \/ Step("x++", "x>?", 0, 0, [screen EXCEPT !.x = w.reg + 1])
    \/ Step("x>?", "x%", 0, IF screen.x > Cols - 1 THEN 1 ELSE 0, screen)
    \/ Step("x%", "x%=", Rem(screen.x, Cols), w.increment_y, screen)
    \/ Step("x%=", "row>?", 0, w.increment_y, [screen EXCEPT !.x = w.reg])
    \/ Step("row>?", IF Row(screen) > Rows - 1 THEN "scroll" ELSE "row",
            0, w.increment_y, screen)
    \/ Step("row", "y=row", Rem(Row(screen), Rows), 0, screen)
    \/ Step("y=row", "next", 0, 0, [screen EXCEPT !.y = w.reg])

(* The loop over the text; behind it the terminal is compared with the      *)
(* current one before move_cursor.                                          *)
LoopStep ==
    /\ smashed = "no"
    /\ \/ /\ w.at = "char" /\ w.todo # <<>>
          /\ w' = [w EXCEPT !.at = IF Head(w.todo) = NL THEN "newline" ELSE "other"]
       \/ /\ w.at = "next"
          /\ w' = [w EXCEPT !.at = "char", !.todo = Tail(@)]
       \/ /\ w.at = "char" /\ w.todo = <<>>
          /\ w' = IF current_terminal = Own THEN [w EXCEPT !.at = "cursor"] ELSE Idle
    /\ UNCHANGED <<vars, screen, other, vga, current_terminal, typed_only, report>>

(* move_cursor of terminal_write, outb by outb. *)
CursorStep ==
    /\ smashed = "no"
    /\ \/ /\ w.at = "cursor"
          /\ w' = [w EXCEPT !.at = "low", !.reg = Position(Own, screen)]
          /\ UNCHANGED vga
       \/ /\ w.at = "low"
          /\ w' = [w EXCEPT !.at = "lowdata"]
          /\ vga' = Select(vga, "CURSOR_LOW")
       \/ /\ w.at = "lowdata"
          /\ w' = [w EXCEPT !.at = "high"]
          /\ vga' = Data(vga, w.reg)
       \/ /\ w.at = "high"
          /\ w' = [w EXCEPT !.at = "highdata"]
          /\ vga' = Select(vga, "CURSOR_HIGH")
       \/ /\ w.at = "highdata"
          /\ w' = Idle
          /\ vga' = Data(vga, w.reg \div ByteSize)
    /\ UNCHANGED <<vars, screen, other, current_terminal, typed_only, report>>

Writer == NewlineStep \/ CharStep \/ LoopStep \/ CursorStep

-----------------------------------------------------------------------------
(* isr.c *)

FaultScreen_NoRow(format) ==      \* variant: screen_y is not taken over
    [printf(format, [screen EXCEPT !.y = 0]) EXCEPT !.spilled = screen.spilled]

(* The terminal's x, y and page become the generic console, printf writes   *)
(* there, and x and y are stored back.                                      *)
FaultScreen(format) == printf(format, screen)

(* "Process terminated with exception %d: %s (%d)\n" *)
Text(c) == [conv |-> "text", arg |-> <<c>>]

FaultFormat(e) ==
    <<Text("P"), [conv |-> "%d", arg |-> e.int_no],
      Text(":"), [conv |-> "%s", arg |-> e.message],
      Text("("), [conv |-> "%d", arg |-> e.err_code], Text(")"), Text(NL)>>

(* What is to be read on the screen. *)
FaultText(e) ==
    <<"P">> \o itoa(e.int_no, 10) \o <<":">> \o e.message
        \o <<"(">> \o itoa(e.err_code, 10) \o <<")">>

(* fault_handler and the halt(1) it ends in: the program is gone, its       *)
(* parent has the terminal.  The program faults in user mode, when          *)
(* terminal_write takes the next character from its buffer, or when         *)
(* terminal_read copies the line there.                                     *)
Fault(e) ==
    /\ smashed = "no"
    /\ \/ /\ pc = "idle"
          /\ w.at = "idle" \/ (w.at = "char" /\ w.todo # <<>>)
          /\ UNCHANGED vars
       \/ w.at = "idle" /\ ReadFault
    /\ screen' = FaultScreen(FaultFormat(e))
    /\ w' = Idle
    /\ typed_only' = (typed_only /\ input_len = 0)
    /\ report' = FaultText(e)
    /\ UNCHANGED <<other, vga, current_terminal>>

-----------------------------------------------------------------------------
(* The program reads when it does not write. *)
Reading(A) == A /\ w.at = "idle" /\ UNCHANGED consoleVars

(* After entry() has cleared the screen and started terminal 0. *)
ConsoleInit ==
    /\ Init
    /\ screen = clear
    /\ other \in OtherCursors
    /\ vga = move_cursor(set_vga_start([index |-> "CURSOR_LOW",
                                        reg |-> [r \in VgaRegs |-> 0]], Own), Own, clear)
    /\ current_terminal = Own
    /\ w = Idle
    /\ typed_only = TRUE
    /\ report = <<>>

ConsoleNext ==
    \/ EchoReturn
    \/ EchoBackspace
    \/ \E c \in Chars : EchoChar(c)
    \/ CtrlL
    \/ OtherKey
    \/ \E t \in {Own, Other} : SwitchTerminal(t)
    \/ \E text \in Texts : WriteStart(text)
    \/ Writer
    \/ \E e \in Exceptions : Fault(e)
    \/ \E n \in ReadSizes : Reading(ReadStart(n))
    \/ Reading(Reader)

ConsoleSpec == ConsoleInit /\ [][ConsoleNext]_cvars

-----------------------------------------------------------------------------
(* The display starts at the page of the current terminal, whatever outb of *)
(* terminal_write a key interrupts: the data that move_cursor writes after  *)
(* it has lost the index register never reaches the start address, because  *)
(* start_terminal leaves the index register at a cursor register.           *)
DisplayShown == Shown(vga) = current_terminal

(* The cursor of a terminal that is not being written to is on its screen,  *)
(* and no store misses the screen: Enter, wrapping, scrolling, Backspace    *)
(* across a row, Ctrl+L and the message of a fault keep x and y in range    *)
(* together, as long as keys do not come inside putc_in_terminal.           *)
CursorOnScreen == ~screen.spilled /\ (w.at = "idle" => OnScreen(screen))

(* What Backspace can erase is what is seen before the cursor: when the     *)
(* program has written nothing since the line began, the characters of the  *)
(* line that can still be erased are on the screen, the last one just       *)
(* before the cursor (update keeps screen and line_buf in step).            *)
LineIsShown ==
    typed_only => \A i \in 1 .. input_len :
        LET k == Cols * screen.y + screen.x - i
        IN  k \in Cell /\ screen.cell[k] = line_buf[buf_count - i]

(* The message about the exception that killed a program, with its number,  *)
(* its name and its error code, is the last thing on the program's screen,  *)
(* whole, even when it is wrapped or the screen scrolls (fault_handler      *)
(* prints it with the generic console).                                     *)
FaultReported ==
    report # <<>> =>
        \E k \in Cell :
            /\ k + Len(report) - 1 \in Cell
            /\ \A i \in Cell : i >= k =>
                  screen.cell[i] = IF i < k + Len(report) THEN report[i - k + 1] ELSE Blank

(* Output goes to the specified screen: no store of a character misses it.  *)
StoresOnScreen == ~screen.spilled
=============================================================================
