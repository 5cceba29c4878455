------------------------------ MODULE Programs ------------------------------
(***************************************************************************)
(* The programs of syscalls/ on the system calls of module Syscalls: the   *)
(* shell runs command lines, each of which starts the program that an      *)
(* executable file of the disk holds: cat, ls, grep, syserr, or any        *)
(* program at all, one after the other in the same slot.  A step of a      *)
(* program is a system call and the code up to the next one.  The bytes it *)
(* writes to the terminal are out; for grep, the lines it prints.          *)
(***************************************************************************)
EXTENDS Syscalls

CONSTANTS
    NL, NUL, Space,    \* the characters '\n', '\0' and ' '
    Commands,          \* the lines typed at the shell
    BufSize,           \* BUFSIZE of grep, and the 1024 of cat
    Junk,              \* what grep's uninitialised buffer may hold
    OddNames           \* names that any program passes to open, besides real ones

ASSUME ProgramsAssumption ==
    /\ BufSize \in Nat \ {0}
    /\ \A line \in Commands : line \in Seq(Range(line))

VARIABLES
    prog,    \* the running program, or the last one: see NoProgram
    said     \* what the shell said of the last program

progVars == <<prog, said>>
allVars  == <<vars, progVars>>

(* Where a program is, its argument, its locals, and its output and status. *)
NoProgram == [name |-> "none", at |-> "start", arg |-> <<>>, fd |-> 0, dir |-> 0,
              fname |-> <<>>, data |-> <<>>, last |-> 0, line_start |-> 0, cnt |-> 0,
              junk |-> {}, todo |-> <<>>, fail |-> 0, out |-> <<>>, status |-> 0]

-----------------------------------------------------------------------------
(* execute and the shell *)

(* The first word, and what follows the spaces behind it. *)
parse_arg(line) ==
    LET end   == Min({i \in DOMAIN line : line[i] \in {Space, NL}} \cup {Len(line) + 1})
        begin == Min({i \in end .. Len(line) : line[i] # Space} \cup {Len(line) + 1})
    IN  [command |-> SubSeq(line, 1, end - 1), arg |-> SubSeq(line, begin, Len(line))]

(* Does the inode of the entry, of whatever type that is, hold an ELF file? *)
Executable(i) == i # 0 /\ disk.dentries[i].inode \in DOMAIN disk.image

Message(rval) ==
    CASE rval = -1  -> "no such command"
      [] rval = 256 -> "program terminated by exception"
      [] rval = 0   -> "nothing"
      [] OTHER      -> "program terminated abnormally"

ExitCommand == <<"e", "x", "i", "t">>

(* One line typed at the shell.  An empty line is passed over; "exit" ends  *)
(* the shell, which start_terminal runs again.                              *)
Shell(line) ==
    LET p == parse_arg(line)
        i == read_dentry_by_name(p.command)
    IN  /\ ~running
        /\ \/ /\ line \in {<<>>, ExitCommand}
              /\ UNCHANGED allVars
           \/ /\ line \notin {<<>>, ExitCommand} /\ Executable(i)
              /\ Execute
              /\ prog' = [NoProgram EXCEPT !.name = disk.image[disk.dentries[i].inode],
                                           !.arg = p.arg]
              /\ said' = "nothing"
           \/ /\ line \notin {<<>>, ExitCommand} /\ ~Executable(i)
              /\ said' = Message(-1)
              /\ UNCHANGED <<vars, prog>>

(* main returns: the start code calls halt with what it returned. *)
Exit(status) ==
    /\ Halt(status)
    /\ prog' = [prog EXCEPT !.at = "exit", !.status = status]
    /\ said' = Message(RetVal(status))

At(name, label) == running /\ prog.name = name /\ prog.at = label

(* Up to the next system call. *)
Continue(p) == prog' = p /\ UNCHANGED said

-----------------------------------------------------------------------------
(* ece391cat.c, ece391ls.c.  read_directory_entry never returns -1. *)

CatOpen ==
    LET r == open(files, prog.arg)
    IN  /\ At("cat", "start")
        /\ \/ r.ret = -1 /\ Exit(2)
           \/ /\ r.ret # -1
              /\ DoOpen(r)
              /\ Continue([prog EXCEPT !.at = "read", !.fd = r.ret])

CatRead_NoEof ==                        \* variant: goes on until read fails
    LET r == read(files, prog.fd, BufSize)
    IN  /\ At("cat", "read")
        /\ \/ r.ret = -1 /\ Exit(0)
           \/ /\ r.ret # -1
              /\ DoRead(prog.fd, BufSize, r)
              /\ Continue([prog EXCEPT !.out = @ \o r.bytes])

CatRead ==
    LET r == read(files, prog.fd, BufSize)
    IN  /\ At("cat", "read")
        /\ \/ r.ret = 0 /\ Exit(0)
           \/ /\ r.ret # 0
              /\ DoRead(prog.fd, BufSize, r)
              /\ Continue([prog EXCEPT !.out = @ \o r.bytes])

Dot == <<".">>

(* ls and grep open the directory, which is there. *)
OpenDirectory ==
    LET r == open(files, Dot)
    IN  /\ At("ls", "start") \/ At("grep", "start")
        /\ DoOpen(r)
        /\ Continue([prog EXCEPT !.at = "entry", !.dir = r.ret])

LsRead ==
    LET r == read(files, prog.dir, FnameLen)
    IN  /\ At("ls", "entry")
        /\ \/ r.ret = 0 /\ Exit(0)
           \/ /\ r.ret # 0
              /\ DoRead(prog.dir, FnameLen, r)
              /\ Continue([prog EXCEPT !.out = @ \o Append(r.bytes, NL)])

-----------------------------------------------------------------------------
(* ece391grep.c *)

GrepEntry ==
    LET r == read(files, prog.dir, FnameLen)
    IN  /\ At("grep", "entry")
        /\ \/ r.ret = 0 /\ Exit(0)
           \/ /\ r.ret # 0
              /\ DoRead(prog.dir, FnameLen, r)
              /\ Continue([prog EXCEPT !.fname = r.bytes,
                                       !.at = IF r.bytes[1] = "." THEN "entry" ELSE "file"])

(* do_one_file opens the file; its buffer is whatever the stack holds. *)
GrepOpen ==
    LET r == open(files, prog.fname)
    IN  /\ At("grep", "file")
        /\ \/ r.ret = -1 /\ Exit(3)
           \/ /\ r.ret # -1
              /\ DoOpen(r)
              /\ \E c \in Junk :
                   Continue([prog EXCEPT !.at = "read", !.fd = r.ret, !.last = 0,
                                         !.data = [i \in 0 .. BufSize |-> c],
                                         !.junk = @ \cup {c}])

(* The rest of the buffer is filled behind what is kept of the last line. *)
GrepRead ==
    LET r == read(files, prog.fd, BufSize - prog.last)
    IN  /\ At("grep", "read")
        /\ DoRead(prog.fd, BufSize - prog.last, r)
        /\ Continue([prog EXCEPT
              !.data = [i \in 0 .. BufSize |->
                          IF i \in prog.last .. prog.last + r.ret - 1
                          THEN r.bytes[i - prog.last + 1] ELSE @[i]],
              !.last = @ + r.ret, !.cnt = r.ret, !.line_start = 0, !.at = "line"])

(* The string at data + from. *)
String(data, from) ==
    LET end == Min({i \in from .. BufSize : data[i] = NUL})
    IN  [i \in 1 .. end - from |-> data[from + i - 1]]

strcpy(data, from) ==
    LET s == Append(String(data, from), NUL)
    IN  [i \in 0 .. BufSize |-> IF i < Len(s) THEN s[i + 1] ELSE data[i]]

(* Is s in the line?  (The first character of an empty s is its NUL.) *)
Matches(line, s) ==
    LET key == IF s = <<>> THEN <<NUL>> ELSE s
    IN  \E i \in 1 .. Len(line) - Len(key) + 1 : SubSeq(line, i, i + Len(key) - 1) = key

(* Does the buffer end inside the line that goes up to line_end? *)
Unfinished_Never(line_end) == FALSE     \* variant: every buffer ends a line

Unfinished(line_end) ==
    prog.data[line_end] # NL /\ prog.cnt # 0 /\ prog.line_start # 0

(* One round of the inner loop: the line from line_start is searched up to  *)
(* line_end and printed up to its first NUL, or, if it is unfinished, moved *)
(* to the front of the buffer, also only up to its first NUL.               *)
GrepLine ==
    LET line_end == Min({i \in prog.line_start .. prog.last :
                           i = prog.last \/ prog.data[i] = NL})
        ended == [prog.data EXCEPT ![line_end] = NUL]
        line  == [i \in 1 .. line_end - prog.line_start |-> ended[prog.line_start + i - 1]]
        outer == IF prog.cnt = 0 THEN "close" ELSE "read"
        more  == line_end + 1 < prog.last
    IN  /\ At("grep", "line")
        /\ IF Unfinished(line_end)
           THEN Continue([prog EXCEPT !.data = strcpy(ended, prog.line_start),
                                      !.last = @ - prog.line_start, !.at = outer])
           ELSE Continue([prog EXCEPT
                  !.data = ended,
                  !.out = IF Matches(line, prog.arg)
                          THEN Append(@, <<prog.fname, String(ended, prog.line_start)>>)
                          ELSE @,
                  !.line_start = line_end + 1,
                  !.last = IF more THEN @ ELSE 0,
                  !.at = IF more THEN "line" ELSE outer])
        /\ UNCHANGED vars

GrepClose ==
    /\ At("grep", "close")
    /\ DoClose(prog.fd, close(files, prog.fd))
    /\ Continue([prog EXCEPT !.at = "entry", !.data = <<>>])

-----------------------------------------------------------------------------
(* ece391syserr.c.  A test gets the descriptor table and returns it with    *)
(* what it adds to fail: nothing when every call was refused.               *)

NEG_FD == -1073741823
BIG_FD == 1073741823

Test(t, refused) == [files |-> t, fail |-> IF refused THEN 0 ELSE 2]

err_fd(t, fd) ==
    Test(t, /\ read(t, fd, 31).ret = -1
            /\ write(t, fd, 31) = -1
            /\ close(t, fd).ret = -1)

err_neg_fd(t) == err_fd(t, NEG_FD)

err_big_fd(t) == err_fd(t, BIG_FD)

(* One open more than there are descriptors, then everything is closed. *)
err_open_lots(t) ==
    LET opened[i \in 0 .. FileArrayLen - 1] ==
          IF i = 0 THEN [files |-> t, cnt |-> 0]
          ELSE LET s == opened[i - 1]
                   r == open(s.files, Dot)
               IN  [files |-> r.files, cnt |-> s.cnt + IF r.ret = -1 THEN 1 ELSE 0]
        closed[fd \in 1 .. FileArrayLen - 1] ==
          IF fd = 1 THEN opened[FileArrayLen - 1].files
          ELSE LET s == closed[fd - 1] IN close(s, fd).files
    IN  Test(closed[FileArrayLen - 1], opened[FileArrayLen - 1].cnt = 1)

(* A name with a character too many, one with a character too few, none. *)
err_open(t) ==
    LET name == disk.dentries[2].fname
    IN  Test(t, \A n \in {Append(name, "o"), Front(name), <<>>} : open(t, n).ret = -1)

err_unopened(t) ==
    Test(t, /\ \A fd \in 0 .. FileArrayLen - 1 : close(t, fd).ret = -1
            /\ \A fd \in Fds : read(t, fd, 31).ret = -1 /\ write(t, fd, 31) = -1)

PROG_VM_START == 134217728
SPACE_4MB     == 4194304

(* vidmap's check of the address it is to store to. *)
vidmap(screen_start) ==
    IF screen_start < PROG_VM_START \/ screen_start >= PROG_VM_START + SPACE_4MB
    THEN -1 ELSE 0

err_vidmap(t) == Test(t, vidmap(0) = -1 /\ vidmap(4194304) = -1)

err_stdin_out(t) == Test(t, write(t, 0, 31) = -1 /\ read(t, 1, 31).ret = -1)

(* handle_syscall compares the number as an unsigned one. *)
handle_syscall(num) == IF num \in 1 .. 10 THEN 0 ELSE -1

err_syscall_num(t) == Test(t, \A num \in {BIG_FD, NEG_FD, 0} : handle_syscall(num) = -1)

RunTest(k, t) ==
    CASE k = 1 -> err_neg_fd(t)   [] k = 2 -> err_big_fd(t)   [] k = 3 -> err_open_lots(t)
      [] k = 4 -> err_open(t)     [] k = 5 -> err_unopened(t) [] k = 6 -> err_vidmap(t)
      [] k = 7 -> err_stdin_out(t) [] k = 8 -> err_syscall_num(t)

(* main reads the number of a test; 0 stands for all of them. *)
SyserrSelect ==
    /\ At("syserr", "start")
    /\ \E select \in 0 .. 9 :
         Continue([prog EXCEPT !.at = "test",
                               !.todo = CASE select = 0 -> [k \in 1 .. 8 |-> k]
                                          [] select = 9 -> <<>>
                                          [] OTHER      -> <<select>>])
    /\ UNCHANGED vars

SyserrTest ==
    LET r == RunTest(Head(prog.todo), files)
    IN  /\ At("syserr", "test")
        /\ prog.todo # <<>>
        /\ DoOpen([files |-> r.files, ret |-> -1])
        /\ Continue([prog EXCEPT !.todo = Tail(@), !.fail = @ + r.fail])

SyserrExit == At("syserr", "test") /\ prog.todo = <<>> /\ Exit(prog.fail)

-----------------------------------------------------------------------------
(* Any program. *)
Names == {disk.dentries[i].fname : i \in DOMAIN disk.dentries} \cup OddNames

AnyCall ==
    /\ prog.name = "any"
    /\ \/ \E n \in Names : Open(n)
       \/ \E f \in Fds : Close(f)
       \/ \E f \in Fds, n \in Sizes : Read(f, n)
    /\ UNCHANGED progVars

AnyHalt(status) == At("any", "start") /\ Exit(status)

AnyFault ==
    /\ At("any", "start")
    /\ Fault
    /\ said' = Message(RetVal(1))
    /\ UNCHANGED prog

ProgramsInit == Init /\ prog = NoProgram /\ said = "nothing"

ProgramsNext ==
    \/ \E line \in Commands : Shell(line)
    \/ CatOpen \/ CatRead
    \/ OpenDirectory
    \/ LsRead
    \/ GrepEntry \/ GrepOpen \/ GrepRead \/ GrepLine \/ GrepClose
    \/ SyserrSelect \/ SyserrTest \/ SyserrExit
    \/ AnyCall
    \/ \E s \in Statuses : AnyHalt(s)
    \/ AnyFault

ProgramsSpec == ProgramsInit /\ [][ProgramsNext]_allVars

(* The scheduler runs every program again and again.  Whether and when      *)
(* somebody types the number that syserr reads is not up to it.             *)
FairPrograms ==
    /\ ProgramsSpec
    /\ WF_allVars(CatOpen \/ CatRead \/ OpenDirectory \/ LsRead
                  \/ GrepEntry \/ GrepOpen \/ GrepRead \/ GrepLine \/ GrepClose
                  \/ SyserrTest \/ SyserrExit)

-----------------------------------------------------------------------------
(* What cat, ls and syserr need of a disk and of the command lines to do    *)
(* their work: a disk is made from a directory, so that its names differ    *)
(* and "." is one of them, and no key gives a control character.            *)

DistinctNames ==
    \A d \in Disks : \A i, j \in DOMAIN d.dentries :
        d.dentries[i].fname = d.dentries[j].fname => i = j

(* The directory is an entry of itself. *)
DotListed ==
    /\ FnameLen > 1
    /\ \A d \in Disks : \E i \in DOMAIN d.dentries :
          d.dentries[i].fname = Dot /\ d.dentries[i].ftype = DIR

(* No argument is the name of a full field with the byte behind it. *)
PlainArguments ==
    \A line \in Commands, d \in Disks : \A i \in DOMAIN d.dentries :
        LET s == Cstring(d.dentries[i])
        IN  s = d.dentries[i].fname \/ parse_arg(line).arg # s

(* The two names that err_open makes of the second entry's are of no file. *)
NoNearNames ==
    \A d \in Disks :
        /\ Len(d.dentries) >= 2
        /\ LET name == d.dentries[2].fname
           IN  \A i \in DOMAIN d.dentries :
                  Cstring(d.dentries[i]) \notin {Append(name, "o"), Front(name)}

-----------------------------------------------------------------------------
Ended(name) == ~running /\ prog.name = name /\ prog.at = "exit"

(* cat prints a file from its first byte to its last, whatever the sizes of *)
(* file, block and buffer and whatever ran before it, and reports a name    *)
(* that is not there.  Nothing is said of an existing name that fills its   *)
(* field: open refuses it, although it should only refuse what is not there *)
(* (read_dentry_by_name compares such a name, which has no terminator,      *)
(* together with the byte of ftype behind it).                              *)
CatCopies ==
    Ended("cat") =>
        LET named == {i \in DOMAIN disk.dentries : disk.dentries[i].fname = prog.arg}
        IN  /\ named = {} => retval = 2
            /\ \A i \in named : Len(prog.arg) < FnameLen =>
                  /\ retval = 0
                  /\ disk.dentries[i].ftype = FILE =>
                        prog.out = Content(disk.dentries[i].inode)

(* ls prints the name of every file, in order and each on a line, also of   *)
(* one whose name fills its field.                                          *)
LsListsAll ==
    Ended("ls") =>
        /\ retval = 0
        /\ prog.out = FlattenSeq([i \in DOMAIN disk.dentries |->
                                    Append(disk.dentries[i].fname, NL)])

(* The lines of a file. *)
LinesOf(text) ==
    LET begins   == {1} \cup {i + 1 : i \in {j \in DOMAIN text : text[j] = NL}}
        begin(k) == CHOOSE b \in begins : Cardinality({c \in begins : c <= b}) = k
        end(b)   == Min({i \in b .. Len(text) : text[i] = NL} \cup {Len(text) + 1})
    IN  [k \in 1 .. Cardinality(begins) |-> SubSeq(text, begin(k), end(begin(k)) - 1)]

Matching(i) ==
    LET has(line) == Matches(line, prog.arg)
        lines == SelectSeq(LinesOf(Content(disk.dentries[i].inode)), has)
    IN  [k \in DOMAIN lines |-> <<disk.dentries[i].fname, lines[k]>>]

(* Can grep print file i exactly?  It comes to it, and the file is a text   *)
(* without NULs whose lines, with their newlines, fit the buffer.           *)
Greppable(i) ==
    LET text == Content(disk.dentries[i].inode)
    IN  /\ disk.dentries[i].ftype = FILE /\ disk.dentries[i].fname[1] # "."
        /\ \A j \in 1 .. i : Len(disk.dentries[j].fname) < FnameLen
        /\ NUL \notin Range(text)
        /\ \A l \in Range(LinesOf(text)) : Len(l) < BufSize

(* grep prints every line of such a file that has the text, whole and once, *)
(* however the lines lie across its buffer and whatever other files it      *)
(* reads (executables with NULs, the RTC), provided that the byte behind    *)
(* the buffer, which is read before it is ever written, was not a newline.  *)
(* It reaches the end of the directory unless a name fills its field.       *)
GrepExact ==
    Ended("grep") =>
        /\ (\A i \in DOMAIN disk.dentries : Len(disk.dentries[i].fname) < FnameLen)
              => retval = 0
        /\ NL \notin prog.junk => \A i \in DOMAIN disk.dentries : Greppable(i) =>
              LET ofFile(o) == o[1] = disk.dentries[i].fname
              IN  SelectSeq(prog.out, ofFile) = Matching(i)

(* ece391syserr passes, whatever program ran in its slot before and         *)
(* whatever descriptors that one left open.                                 *)
SyserrPasses == prog.fail = 0

(* The shell says something of every program that did not end with status   *)
(* 0: the eight bits of the status survive halt and execute well enough.    *)
(* (A status of 255 is taken for a missing command, an exception for an     *)
(* abnormal end.)                                                           *)
FailureNoticed ==
    ~running /\ said = "nothing" => prog.status = 0 /\ death # "exception"

(* Every command line comes to an end: cat, ls, grep and, once its test is  *)
(* chosen, syserr do not loop for ever at the end of a file, of the         *)
(* directory or of a buffer, nor at the RTC.                                *)
ProgramsEnd ==
    (running /\ prog.name # "any" /\ ~At("syserr", "start")) ~> ~running
=============================================================================
