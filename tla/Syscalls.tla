------------------------------ MODULE Syscalls ------------------------------
(***************************************************************************)
(* What a program sees of the kernel through its descriptors and its exit  *)
(* status: the descriptor table of the pcb (open, close and read in        *)
(* sys_calls.c), the read-only file system (fs.c), and the value that      *)
(* execute returns in the parent.  The state is that of one slot of the    *)
(* process table; programs are executed in it one after the other (module  *)
(* Programs says which).  Devices have modules of their own (Rtc,          *)
(* Terminal).                                                              *)
(***************************************************************************)
EXTENDS Integers, Sequences, SequencesExt, FiniteSetsExt

CONSTANTS
    FileArrayLen,    \* FILE_ARRAY_LEN, process.h
    FnameLen,        \* FNAME_LEN, fs.h
    CharsPerBlock,   \* CHARS_PER_BLOCK
    Disks,           \* file system images: [dentries, inodes, blocks, image]
    Sizes,           \* the nbytes programs pass to read
    Statuses,        \* the arguments programs pass to halt
    MaxPos           \* bound on the position of a directory descriptor

RTC  == 0            \* RTC_FTYPE
DIR  == 1            \* DIR_FTYPE
FILE == 2            \* FILE_FTYPE

(* A disk is the boot block's entries in order, each [fname, ftype, inode]; *)
(* the inodes, each [length, data_block]; the data blocks; and image, which *)
(* maps the inodes that hold an executable to the program it is.  A name is *)
(* the sequence of its characters.                                          *)
ASSUME SyscallsAssumption ==
    /\ FileArrayLen \in Nat /\ FileArrayLen > 2
    /\ CharsPerBlock \in Nat \ {0} /\ FnameLen \in Nat \ {0} /\ MaxPos \in Nat
    /\ Sizes \subseteq Nat
    /\ Statuses \subseteq 0 .. 255
    /\ \A d \in Disks :
         /\ Len(d.dentries) \in Nat /\ DOMAIN d.dentries = 1 .. Len(d.dentries)
         /\ \A i \in DOMAIN d.dentries :
              LET e == d.dentries[i]
              IN  /\ e.ftype \in {RTC, DIR, FILE} /\ e.inode \in Nat
                  /\ Len(e.fname) \in 1 .. FnameLen
                  /\ e.ftype = FILE => /\ e.inode \in DOMAIN d.inodes
                                       /\ d.inodes[e.inode].length \in Nat

(* (Range is that of Functions: a name is a sequence of what it contains.) *)
ASSUME NamesAssumption ==
    \A d \in Disks : \A i \in DOMAIN d.dentries :
        LET name == d.dentries[i].fname IN name \in Seq(Range(name))

VARIABLES
    disk,     \* the file system, which nothing writes to
    files,    \* fd -> [ftype, inode_num, pos, live]
    got,      \* fd -> all that was read through it since open
    last,     \* the last read, and how many bytes it stored in the buffer
    running,  \* is a program running in the slot?
    death,    \* how the last one ended
    retval    \* and what execute then returned to its parent

vars == <<disk, files, got, last, running, death, retval>>

Fds    == 2 .. FileArrayLen - 1      \* 0 and 1 are the terminal
Unused == [ftype |-> RTC, inode_num |-> 0, pos |-> 0, live |-> FALSE]
NoRead == [fd |-> 0, nbytes |-> 0, ret |-> 0, stored |-> 0]

-----------------------------------------------------------------------------
(* fs.c *)

(* The C string at the fname of a dentry.  A name that fills the field has  *)
(* no terminator: the string runs on into the first byte of ftype, which is *)
(* 1 or 2, and ends at its second (for the RTC it is 0 and ends the name).  *)
Cstring(d) ==
    IF Len(d.fname) < FnameLen \/ d.ftype = RTC THEN d.fname
    ELSE Append(d.fname, IF d.ftype = DIR THEN "^A" ELSE "^B")

strncmp(s1, s2, n) == \A i \in 1 .. n : s1[i] = s2[i]      \* is it 0?

(* The first entry with that name; 0 for the -1 of the code. *)
read_dentry_by_name(name) ==
    LET matches == {i \in DOMAIN disk.dentries :
                      LET s == Cstring(disk.dentries[i])
                      IN  Len(name) = Len(s) /\ strncmp(name, s, Len(s))}
    IN  IF matches = {} THEN 0 ELSE Min(matches)

read_data_NoCarry(inode, offset, length) ==    \* variant: stays in its block
    LET node == disk.inodes[inode]
        n    == Max({0, Min({length, node.length - offset})})
    IN  [i \in 1 .. n |->
            disk.blocks[node.data_block[offset \div CharsPerBlock]]
                       [(offset + i - 1) % CharsPerBlock]]

read_data_EofEarly(inode, offset, length) ==   \* variant: loses the last byte
    LET node == disk.inodes[inode]
        n    == Max({0, Min({length, node.length - 1 - offset})})
    IN  [i \in 1 .. n |->
            disk.blocks[node.data_block[(offset + i - 1) \div CharsPerBlock]]
                       [(offset + i - 1) % CharsPerBlock]]

(* read_data: the copying loop after i rounds has copied bytes and stands   *)
(* at new_offset of data block number off_data_block of the inode.          *)
read_data(inode, offset, length) ==
    LET node == disk.inodes[inode]
        loop[i \in 0 .. length] ==
          IF i = 0
          THEN [bytes |-> <<>>, new_offset |-> offset % CharsPerBlock,
                off_data_block |-> offset \div CharsPerBlock]
          ELSE LET s == loop[i - 1]
                   full == s.new_offset + 1 >= CharsPerBlock
               IN  IF Len(s.bytes) + offset < node.length
                   THEN [bytes |-> Append(s.bytes,
                            disk.blocks[node.data_block[s.off_data_block]][s.new_offset]),
                         new_offset |-> IF full THEN 0 ELSE s.new_offset + 1,
                         off_data_block |-> s.off_data_block + (IF full THEN 1 ELSE 0)]
                   ELSE s
    IN  IF inode \in DOMAIN disk.inodes THEN loop[length].bytes ELSE <<>>

read_dentry_by_index(index) == disk.dentries[index + 1]

read_directory_entry_Short(pos, length) ==     \* variant: room for a terminator
    IF pos >= Len(disk.dentries) THEN [bytes |-> <<>>, stored |-> 0]
    ELSE LET s == Cstring(read_dentry_by_index(pos))
             b == SubSeq(s, 1, Min({Len(s), length - 1}))
         IN  [bytes |-> b, stored |-> Len(b) + 2]

read_directory_entry_Whole(pos, length) ==     \* variant: length is not tested
    IF pos >= Len(disk.dentries) THEN [bytes |-> <<>>, stored |-> 0]
    ELSE LET s == Cstring(read_dentry_by_index(pos))
         IN  [bytes |-> s, stored |-> Len(s) + 2]

(* read_directory_entry returns the first bytes of the name of an entry.    *)
(* It stores a newline and a NUL behind them, also where length ends.       *)
read_directory_entry(pos, length) ==
    IF pos >= Len(disk.dentries) THEN [bytes |-> <<>>, stored |-> 0]
    ELSE LET s == Cstring(read_dentry_by_index(pos))
             b == SubSeq(s, 1, Min({Len(s), length}))
         IN  [bytes |-> b, stored |-> Len(b) + 2]

-----------------------------------------------------------------------------
(* The system calls, on the descriptor table t of a program: the table they *)
(* leave and what they return.  read also returns the bytes it read, and    *)
(* how many bytes it stored.                                                *)

Refused(t) == [files |-> t, ret |-> -1, bytes |-> <<>>, stored |-> 0]

(* open() keeps the pos it finds in the descriptor.  It does the same for   *)
(* the RTC, a directory and a file, but for the inode pointer, which        *)
(* nothing reads; rtc_open is in module Rtc.                                *)
open(t, name) ==
    LET free == {f \in Fds : ~t[f].live}
        fd   == Min(free)
        i    == read_dentry_by_name(name)
    IN  IF free = {} \/ i = 0 THEN Refused(t)
        ELSE [Refused(t) EXCEPT !.ret = fd,
                                !.files[fd].ftype = disk.dentries[i].ftype,
                                !.files[fd].inode_num = disk.dentries[i].inode,
                                !.files[fd].live = TRUE]

close_KeepPos(t, fd) ==                        \* variant: pos survives
    IF fd \notin Fds \/ ~t[fd].live THEN Refused(t)
    ELSE [Refused(t) EXCEPT !.ret = 0, !.files[fd].live = FALSE]

(* (inode_num keeps its value; nothing reads it until open sets it.) *)
close(t, fd) ==
    IF fd < 2 \/ fd >= FileArrayLen \/ ~t[fd].live THEN Refused(t)
    ELSE [Refused(t) EXCEPT !.ret = 0, !.files[fd] = Unused]

(* fs_read, dir_read, which reads one entry whatever nbytes is, and         *)
(* rtc_read, whose wait is in module Rtc.                                   *)
fs_read(t, fd, n) ==
    LET b == read_data(t[fd].inode_num, t[fd].pos, n)
    IN  [files |-> [t EXCEPT ![fd].pos = @ + Len(b)], ret |-> Len(b), bytes |-> b,
         stored |-> Len(b)]

dir_read(t, fd, n) ==
    LET e == read_directory_entry(t[fd].pos, n)
    IN  [files |-> [t EXCEPT ![fd].pos = @ + 1], ret |-> Len(e.bytes), bytes |-> e.bytes,
         stored |-> e.stored]

rtc_read(t) == [files |-> t, ret |-> 0, bytes |-> <<>>, stored |-> 0]

(* read and write of a file; fd 0 is read, and fd 1 written, by Terminal. *)
read(t, fd, n) ==
    IF fd < 0 \/ fd = 1 \/ fd >= FileArrayLen \/ ~t[fd].live THEN Refused(t)
    ELSE IF t[fd].ftype = DIR THEN dir_read(t, fd, n)
    ELSE IF t[fd].ftype = FILE THEN fs_read(t, fd, n)
    ELSE rtc_read(t)

(* fs_write returns -1: the file system is read-only.  (None of the         *)
(* programs here writes to the RTC: rtc_write is in module Rtc.)            *)
write(t, fd, n) == IF fd = 1 THEN n ELSE -1

(* A program calls open, close or read, with what happens to got and last. *)
DoOpen(r) ==
    /\ files' = r.files
    /\ got' = [f \in Fds |-> IF f = r.ret THEN <<>> ELSE got[f]]
    /\ UNCHANGED <<disk, last, running, death, retval>>

DoClose(fd, r) ==
    /\ files' = r.files
    /\ got' = [f \in Fds |-> IF f = fd THEN <<>> ELSE got[f]]
    /\ UNCHANGED <<disk, last, running, death, retval>>

DoRead(fd, n, r) ==
    /\ files' = r.files
    /\ got' = [got EXCEPT ![fd] = IF files[fd].ftype = FILE THEN @ \o r.bytes
                                  ELSE IF files[fd].ftype # DIR
                                          \/ files[fd].pos >= Len(disk.dentries) THEN @
                                  ELSE Append(@, read_dentry_by_index(files[fd].pos).fname)]
    /\ last' = [fd |-> fd, nbytes |-> n, ret |-> r.ret, stored |-> r.stored]
    /\ UNCHANGED <<disk, running, death, retval>>

(* Any program at all.  A call that returns -1 changes nothing. *)
Open(name) ==
    /\ running
    /\ open(files, name).ret # -1
    /\ DoOpen(open(files, name))

Close(fd) ==
    /\ running
    /\ close(files, fd).ret # -1
    /\ DoClose(fd, close(files, fd))

Read(fd, n) ==
    /\ running
    /\ files[fd].live
    /\ files[fd].ftype = DIR => files[fd].pos < MaxPos
    /\ DoRead(fd, n, read(files, fd, n))

Execute_KeepFiles ==                           \* variant: the table is not reset
    /\ ~running
    /\ running' = TRUE
    /\ last' = NoRead
    /\ UNCHANGED <<disk, files, got, death, retval>>

(* execute: a new program finds every descriptor but 0 and 1 unused. *)
Execute ==
    /\ ~running
    /\ running' = TRUE
    /\ files' = [f \in Fds |-> Unused]
    /\ got' = [f \in Fds |-> <<>>]
    /\ last' = NoRead
    /\ UNCHANGED <<disk, death, retval>>

RetVal_SevenBits(status) == status % 128       \* variant: the sign is dropped

(* halt's status reaches execute in %bl, is stored in an int8_t and then    *)
(* widened to the int32_t that execute returns.                             *)
RetVal(status) == IF status < 128 THEN status ELSE status - 256

(* halt closes the devices; the table itself stays as it is. *)
Die(how, status) ==
    /\ running
    /\ running' = FALSE
    /\ death' = how
    /\ retval' = RetVal(status)
    /\ UNCHANGED <<disk, files, got, last>>

Halt(status) == Die("halt", status)

(* fault_handler ends the program with halt(1). *)
Fault == Die("exception", 1)

-----------------------------------------------------------------------------
Init ==
    /\ disk \in Disks
    /\ files = [f \in Fds |-> Unused]
    /\ got = [f \in Fds |-> <<>>]
    /\ last = NoRead
    /\ running = FALSE
    /\ death = "none"
    /\ retval = 0

-----------------------------------------------------------------------------
(* The contents of a file: its blocks one after the other, cut at length. *)
Content(inode) ==
    LET blocks == disk.inodes[inode].data_block
    IN  [i \in 1 .. disk.inodes[inode].length |->
            disk.blocks[blocks[(i - 1) \div CharsPerBlock]][(i - 1) % CharsPerBlock]]

(* Whatever sizes a program reads in, and however often it closes and opens *)
(* again, what it has read through a descriptor of a file is the beginning  *)
(* of that file, and never more than the file has.                          *)
ReadsInOrder ==
    running => \A f \in Fds : files[f].live /\ files[f].ftype = FILE =>
        /\ files[f].pos <= disk.inodes[files[f].inode_num].length
        /\ got[f] = SubSeq(Content(files[f].inode_num), 1, files[f].pos)

(* Through a directory descriptor a program gets every entry once and in    *)
(* order.                                                                   *)
EntriesInOrder ==
    running => \A f \in Fds : files[f].live /\ files[f].ftype = DIR =>
        got[f] = [i \in 1 .. Min({files[f].pos, Len(disk.dentries)}) |-> disk.dentries[i].fname]

(* A buffer two bytes longer than the nbytes asked for is enough, whatever  *)
(* is read and wherever a name or a file ends.  (One of nbytes is not: the  *)
(* newline and the NUL that read_directory_entry stores are not counted.)   *)
StoresBounded == last.ret <= last.nbytes /\ last.stored <= last.nbytes + 2

(* A program that reads until read returns 0 has read the whole file: a 0   *)
(* for a positive nbytes is only returned at the end.                       *)
ZeroOnlyAtEnd ==
    [][\A f \in Fds : (last' # last /\ last'.fd = f /\ last'.nbytes > 0
                       /\ last'.ret = 0 /\ files[f].ftype = FILE)
            => files[f].pos = disk.inodes[files[f].inode_num].length]_vars
=============================================================================
