--------------------------- MODULE ProgramsProofs ---------------------------
(***************************************************************************)
(* Proofs about the descriptors and the file system, for every disk, block *)
(* size, number of descriptors and buffer size, whatever programs the      *)
(* shell runs one after the other.                                         *)
(***************************************************************************)
EXTENDS Programs, WellFoundedInduction, SequenceTheorems, TLAPS

(* Bytes first to last of the file with inode number n on disk d. *)
Byte(d, n, k) ==
    d.blocks[d.inodes[n].data_block[k \div CharsPerBlock]][k % CharsPerBlock]
Bytes(d, n, from, m) == [j \in 1 .. m |-> Byte(d, n, from + j - 1)]

(* The names of the first m entries. *)
EntryNames(d, m) == [i \in 1 .. m |-> d.dentries[i].fname]
Least(a, b) == IF a <= b THEN a ELSE b

-----------------------------------------------------------------------------
(* Natural numbers *)

LEMMA NatInduct ==
    ASSUME NEW T, 0 \in T, \A k \in Nat : k \in T => k + 1 \in T
    PROVE  Nat \subseteq T
  <1> DEFINE U == {k \in Nat : k \notin T}
             R == OpToRel(<, Nat)
  <1>1. IsWellFoundedOn(R, Nat)
    BY NatLessThanWellFounded
  <1>2. \A x, y \in Nat : <<y, x>> \in R <=> y < x
    BY DEF OpToRel
  <1> HIDE DEF R
  <1>3. ASSUME U # {} PROVE FALSE
    <2>1. PICK x \in U : \A y \in U : ~(<<y, x>> \in R)
      BY <1>1, <1>3, WFMin
    <2>2. x # 0 /\ x - 1 \in Nat /\ x - 1 < x
      OBVIOUS
    <2>3. x - 1 \notin U
      BY <1>2, <2>1, <2>2
    <2> QED
      BY <2>2, <2>3
  <1> QED
    BY <1>3

(* A set of numbers has a least one. *)
LEMMA MinInSet ==
    ASSUME NEW S, S \subseteq Nat, S # {}
    PROVE  Min(S) \in S /\ \A y \in S : Min(S) <= y
  <1> DEFINE R == OpToRel(<, Nat)
  <1>1. IsWellFoundedOn(R, Nat)
    BY NatLessThanWellFounded
  <1>2. \A x, y \in Nat : <<y, x>> \in R <=> y < x
    BY DEF OpToRel
  <1> HIDE DEF R
  <1>3. PICK x \in S : \A y \in S : ~(<<y, x>> \in R)
    BY <1>1, WFMin
  <1>4. ASSUME NEW y \in S PROVE x <= y
    <2>1. x \in Nat /\ y \in Nat /\ ~(<<y, x>> \in R)
      BY <1>3
    <2> QED
      BY <1>2, <2>1
  <1> QED
    BY <1>4 DEF Min

LEMMA MinOfTwo ==
    ASSUME NEW a \in Nat, NEW b \in Nat
    PROVE  Min({a, b}) = Least(a, b)
  BY DEF Min, Least

(* The place after k: the next in its block, or the first of the next one. *)
LEMMA NextPlace ==
    ASSUME NEW k \in Nat
    PROVE  LET full == (k % CharsPerBlock) + 1 >= CharsPerBlock
           IN  /\ (k + 1) % CharsPerBlock = IF full THEN 0 ELSE (k % CharsPerBlock) + 1
               /\ (k + 1) \div CharsPerBlock = k \div CharsPerBlock + (IF full THEN 1 ELSE 0)
  <1> DEFINE C == CharsPerBlock
             q == k \div C
             r == k % C
  <1>1. C \in Nat /\ C > 0
    BY SyscallsAssumption
  <1>2. q \in Nat /\ r \in 0 .. C - 1 /\ k = C * q + r
    BY <1>1
  <1>3. C * (q + 1) = C * q + C
    BY <1>1, <1>2
  <1>4. \A a, b \in Nat : b < C => (C * a + b) \div C = a /\ (C * a + b) % C = b
    BY <1>1
  <1> HIDE DEF C, q, r
  <1>5. CASE r + 1 >= C
    <2>1. r + 1 = C /\ k + 1 = C * (q + 1) + 0
      BY <1>1, <1>2, <1>3, <1>5
    <2>2. (k + 1) \div C = q + 1 /\ (k + 1) % C = 0
      BY <1>1, <1>2, <1>4, <2>1
    <2> QED
      BY <1>5, <2>2 DEF C, q, r
  <1>6. CASE ~(r + 1 >= C)
    <2>1. r + 1 < C /\ k + 1 = C * q + (r + 1)
      BY <1>1, <1>2, <1>6
    <2>2. (k + 1) \div C = q /\ (k + 1) % C = r + 1
      BY <1>1, <1>2, <1>4, <2>1
    <2> QED
      BY <1>2, <1>6, <2>2 DEF C, q, r
  <1> QED
    BY <1>5, <1>6

-----------------------------------------------------------------------------
(* read_data and read_directory_entry *)

LEMMA BytesSeq ==
    ASSUME NEW d, NEW n, NEW from, NEW m \in Nat
    PROVE  /\ Len(Bytes(d, n, from, m)) = m
           /\ Bytes(d, n, from, 0) = <<>>
           /\ Append(Bytes(d, n, from, m), Byte(d, n, from + m)) = Bytes(d, n, from, m + 1)
  <1>1. Len(Bytes(d, n, from, m)) = m
    BY DEF Bytes
  <1>2. Bytes(d, n, from, 0) = <<>>
    BY DEF Bytes
  <1>3. from + (m + 1) - 1 = from + m
    OBVIOUS
  <1>4. Append(Bytes(d, n, from, m), Byte(d, n, from + m)) = Bytes(d, n, from, m + 1)
    BY <1>3 DEF Bytes
  <1> QED
    BY <1>1, <1>2, <1>4

(* What is read in two pieces. *)
LEMMA BytesConcat ==
    ASSUME NEW d, NEW n, NEW k \in Nat, NEW m \in Nat
    PROVE  Bytes(d, n, 0, k) \o Bytes(d, n, k, m) = Bytes(d, n, 0, k + m)
  <1> DEFINE a == Bytes(d, n, 0, k)
             b == Bytes(d, n, k, m)
             c == Bytes(d, n, 0, k + m)
             V == {Byte(d, n, j) : j \in Int}
  <1>1. a \in Seq(V) /\ b \in Seq(V) /\ c \in Seq(V)
    BY DEF Bytes
  <1>2. Len(a) = k /\ Len(b) = m /\ Len(c) = k + m
    BY BytesSeq
  <1>3. \A i \in 1 .. k : a[i] = c[i]
    BY DEF Bytes
  <1>4. ASSUME NEW i \in 1 .. m PROVE b[i] = c[k + i]
    <2>1. k + i \in 1 .. k + m /\ 0 + (k + i) - 1 = k + i - 1
      OBVIOUS
    <2>2. c[k + i] = Byte(d, n, 0 + (k + i) - 1)
      BY <2>1 DEF Bytes
    <2>3. b[i] = Byte(d, n, k + i - 1)
      BY DEF Bytes
    <2> QED
      BY <2>1, <2>2, <2>3
  <1> HIDE DEF a, b, c, V
  <1>5. /\ a \o b \in Seq(V) /\ Len(a \o b) = k + m
        /\ \A i \in 1 .. k + m : (a \o b)[i] = IF i <= k THEN a[i] ELSE b[i - k]
    BY <1>1, <1>2, ConcatProperties
  <1>6. ASSUME NEW i \in 1 .. k + m PROVE (a \o b)[i] = c[i]
    <2>1. CASE i <= k
      BY <1>3, <1>5, <2>1
    <2>2. CASE ~(i <= k)
      <3>1. i - k \in 1 .. m /\ k + (i - k) = i
        BY <2>2
      <3> QED
        BY <1>4, <1>5, <2>2, <3>1
    <2> QED
      BY <2>1, <2>2, Zenon
  <1>7. a \o b = c
    BY <1>1, <1>2, <1>5, <1>6, SeqEqual
  <1> QED
    BY <1>7 DEF a, b, c

(* The copying loop after i rounds, from an offset in the file. *)
Copied(d, n, offset, i) ==
    LET m == Least(i, d.inodes[n].length - offset)
    IN  [bytes |-> Bytes(d, n, offset, m),
         new_offset |-> (offset + m) % CharsPerBlock,
         off_data_block |-> (offset + m) \div CharsPerBlock]

(* One round of it. *)
Round(d, n, offset, s) ==
    LET node == d.inodes[n]
        full == s.new_offset + 1 >= CharsPerBlock
    IN  IF Len(s.bytes) + offset < node.length
        THEN [bytes |-> Append(s.bytes,
                 d.blocks[node.data_block[s.off_data_block]][s.new_offset]),
              new_offset |-> IF full THEN 0 ELSE s.new_offset + 1,
              off_data_block |-> s.off_data_block + (IF full THEN 1 ELSE 0)]
        ELSE s

LEMMA CopyRound ==
    ASSUME NEW d, NEW n, NEW offset \in Nat, NEW i \in Nat,
           d.inodes[n].length \in Nat, offset <= d.inodes[n].length
    PROVE  Round(d, n, offset, Copied(d, n, offset, i)) = Copied(d, n, offset, i + 1)
  <1> DEFINE size == d.inodes[n].length
             m == Least(i, size - offset)
             s == Copied(d, n, offset, i)
             k == offset + m
             full == (k % CharsPerBlock) + 1 >= CharsPerBlock
  <1>1. m \in Nat /\ k \in Nat
    BY DEF Least
  <1>2. /\ s.bytes = Bytes(d, n, offset, m)
        /\ s.new_offset = k % CharsPerBlock
        /\ s.off_data_block = k \div CharsPerBlock
    BY DEF Copied
  <1>3. Len(s.bytes) = m
    BY <1>1, <1>2, BytesSeq
  <1>4. CASE i < size - offset
    <2>1. m = i /\ Least(i + 1, size - offset) = m + 1 /\ m + offset < size
      BY <1>4 DEF Least
    <2>2. Copied(d, n, offset, i + 1) =
             [bytes |-> Bytes(d, n, offset, m + 1),
              new_offset |-> (offset + (m + 1)) % CharsPerBlock,
              off_data_block |-> (offset + (m + 1)) \div CharsPerBlock]
      BY <2>1 DEF Copied
    <2>3. offset + (m + 1) = k + 1
      BY <1>1
    <2>4. Append(s.bytes, Byte(d, n, k)) = Bytes(d, n, offset, m + 1)
      BY <1>1, <1>2, BytesSeq
    <2>5. Byte(d, n, k) = d.blocks[d.inodes[n].data_block[s.off_data_block]][s.new_offset]
      BY <1>2 DEF Byte
    <2>6. /\ (k + 1) % CharsPerBlock = IF full THEN 0 ELSE (k % CharsPerBlock) + 1
          /\ (k + 1) \div CharsPerBlock = k \div CharsPerBlock + (IF full THEN 1 ELSE 0)
      BY <1>1, NextPlace
    <2>7. Round(d, n, offset, s) =
             [bytes |-> Append(s.bytes,
                 d.blocks[d.inodes[n].data_block[s.off_data_block]][s.new_offset]),
              new_offset |-> IF full THEN 0 ELSE (k % CharsPerBlock) + 1,
              off_data_block |-> k \div CharsPerBlock + (IF full THEN 1 ELSE 0)]
      <3> HIDE DEF s, m
      <3> QED
        BY <1>2, <1>3, <2>1 DEF Round
    <2> HIDE DEF s, k, m, full
    <2> QED
      BY <2>2, <2>3, <2>4, <2>5, <2>6, <2>7 DEF s
  <1>5. CASE i >= size - offset
    <2>1. m = size - offset /\ Least(i + 1, size - offset) = m /\ ~(m + offset < size)
      BY <1>5 DEF Least
    <2>2. Copied(d, n, offset, i + 1) = s
      BY <2>1 DEF Copied
    <2>3. Round(d, n, offset, s) = s
      <3> HIDE DEF s, m
      <3> QED
        BY <1>3, <2>1 DEF Round
    <2> QED
      BY <2>2, <2>3
  <1> QED
    BY <1>4, <1>5

(* read_data copies the bytes from offset on, up to the end of the file,    *)
(* whatever blocks they lie in.                                             *)
LEMMA ReadData ==
    ASSUME NEW n \in DOMAIN disk.inodes, NEW offset \in Nat, NEW length \in Nat,
           disk.inodes[n].length \in Nat, offset <= disk.inodes[n].length
    PROVE  read_data(n, offset, length) =
              Bytes(disk, n, offset, Least(length, disk.inodes[n].length - offset))
  <1> DEFINE First == [bytes |-> <<>>, new_offset |-> offset % CharsPerBlock,
                       off_data_block |-> offset \div CharsPerBlock]
             E(f) == f = [i \in 0 .. length |->
                            IF i = 0 THEN First ELSE Round(disk, n, offset, f[i - 1])]
             g == [i \in 0 .. length |-> Copied(disk, n, offset, i)]
             loop[i \in 0 .. length] ==
                 IF i = 0 THEN First ELSE Round(disk, n, offset, loop[i - 1])
  <1>1. Copied(disk, n, offset, 0) = First
    <2>1. Least(0, disk.inodes[n].length - offset) = 0 /\ offset + 0 = offset
      BY DEF Least
    <2>2. Bytes(disk, n, offset, 0) = <<>>
      BY BytesSeq
    <2> QED
      BY <2>1, <2>2 DEF Copied
  <1> HIDE DEF First
  <1>2. E(g)
    <2>1. ASSUME NEW i \in 0 .. length
          PROVE  g[i] = IF i = 0 THEN First ELSE Round(disk, n, offset, g[i - 1])
      <3>1. CASE i = 0
        BY <1>1, <3>1
      <3>2. CASE i # 0
        <4>1. i - 1 \in Nat /\ i - 1 \in 0 .. length /\ (i - 1) + 1 = i
          BY <3>2
        <4>2. Round(disk, n, offset, Copied(disk, n, offset, i - 1))
                = Copied(disk, n, offset, i)
          BY <4>1, CopyRound
        <4> QED
          BY <3>2, <4>1, <4>2
      <3> QED
        BY <3>1, <3>2
    <2> QED
      BY <2>1
  <1>3. loop = CHOOSE f : E(f)
    BY Zenon
  <1> HIDE DEF loop
  <1>4. E(loop)
    <2> HIDE DEF E, g
    <2> QED
      BY <1>2, <1>3, Zenon
  <1>5. \A i \in 0 .. length : loop[i] = Copied(disk, n, offset, i)
    <2> DEFINE T == {i \in Nat : i \in 0 .. length => loop[i] = Copied(disk, n, offset, i)}
    <2>1. 0 \in T
      BY <1>1, <1>4
    <2>2. ASSUME NEW i \in Nat, i \in T PROVE i + 1 \in T
      <3>1. SUFFICES ASSUME i + 1 \in 0 .. length
                     PROVE  loop[i + 1] = Copied(disk, n, offset, i + 1)
        OBVIOUS
      <3>2. i \in 0 .. length /\ i + 1 # 0 /\ (i + 1) - 1 = i
        BY <3>1
      <3>3. loop[i + 1] = Round(disk, n, offset, loop[i])
        BY <1>4, <3>1, <3>2
      <3>4. loop[i] = Copied(disk, n, offset, i)
        BY <2>2, <3>2
      <3> QED
        BY <3>3, <3>4, CopyRound
    <2> HIDE DEF T
    <2>3. Nat \subseteq T
      BY <2>1, <2>2, NatInduct
    <2> QED
      BY <2>3 DEF T
  <1>6. read_data(n, offset, length) = loop[length].bytes
    BY Zenon DEF read_data, loop, Round, First
  <1>7. length \in 0 .. length
    OBVIOUS
  <1>8. loop[length] = Copied(disk, n, offset, length)
    BY <1>5, <1>7
  <1> QED
    BY <1>6, <1>8 DEF Copied

-----------------------------------------------------------------------------
(* The descriptor table *)

FileRecs == [ftype : {RTC, DIR, FILE}, inode_num : Nat, pos : Nat, live : BOOLEAN]

(* A live descriptor is that of an entry of the disk, at a place inside it; *)
(* one that is not live is at 0, which is where open leaves it.             *)
Backed(d, r) ==
    /\ r.ftype \in {RTC, DIR, FILE}
    /\ r.ftype = FILE => /\ r.inode_num \in DOMAIN d.inodes
                         /\ d.inodes[r.inode_num].length \in Nat
                         /\ r.pos <= d.inodes[r.inode_num].length

TableOK(d, t) ==
    /\ t \in [Fds -> FileRecs]
    /\ \A f \in Fds : IF t[f].live THEN Backed(d, t[f]) ELSE t[f].pos = 0

(* What was read through descriptor r. *)
GotOf(d, r) ==
    IF r.ftype = FILE THEN Bytes(d, r.inode_num, 0, r.pos)
    ELSE IF r.ftype = DIR THEN EntryNames(d, Least(r.pos, Len(d.dentries)))
    ELSE <<>>

Opened(e, r) == [ftype |-> e.ftype, inode_num |-> e.inode, pos |-> r.pos, live |-> TRUE]
At_pos(r, k) == [ftype |-> r.ftype, inode_num |-> r.inode_num, pos |-> k, live |-> r.live]

(* The entry a name is found at. *)
NameAt(name, i) ==
    LET s == Cstring(disk.dentries[i])
    IN  Len(name) = Len(s) /\ strncmp(name, s, Len(s))

LEMMA NameFound ==
    ASSUME disk \in Disks, NEW name
    PROVE  LET i == read_dentry_by_name(name)
           IN  IF i = 0 THEN \A k \in DOMAIN disk.dentries : ~NameAt(name, k)
               ELSE i \in DOMAIN disk.dentries /\ NameAt(name, i)
  <1> DEFINE i == read_dentry_by_name(name)
             matches == {k \in DOMAIN disk.dentries : NameAt(name, k)}
  <1>1. /\ matches \subseteq Nat /\ matches \subseteq DOMAIN disk.dentries
        /\ \A k \in DOMAIN disk.dentries : k > 0
    BY SyscallsAssumption
  <1>2. i = IF matches = {} THEN 0 ELSE Min(matches)
    BY Zenon DEF read_dentry_by_name, NameAt
  <1>3. CASE matches = {}
    BY <1>2, <1>3
  <1>4. CASE matches # {}
    <2>1. Min(matches) \in matches
      <3> HIDE DEF matches
      <3> QED
        BY <1>1, <1>4, MinInSet
    <2>2. i = Min(matches)
      BY <1>2, <1>4
    <2> HIDE DEF i
    <2> QED
      BY <1>1, <2>1, <2>2 DEF i
  <1> QED
    BY <1>3, <1>4

(* open takes the lowest free descriptor for the entry of the name, and     *)
(* fails only when there is no descriptor or no such name.                  *)
LEMMA OpenExact ==
    ASSUME disk \in Disks, NEW t, t \in [Fds -> FileRecs], NEW name
    PROVE  LET free == {f \in Fds : ~t[f].live}
               fd   == Min(free)
               i    == read_dentry_by_name(name)
           IN  IF free = {} \/ i = 0 THEN open(t, name) = Refused(t)
               ELSE /\ fd \in Fds /\ ~t[fd].live /\ i \in DOMAIN disk.dentries
                    /\ \A f \in Fds : ~t[f].live => fd <= f
                    /\ open(t, name) = [files |-> [t EXCEPT ![fd] = Opened(disk.dentries[i], t[fd])],
                                        ret |-> fd, bytes |-> <<>>, stored |-> 0]
  <1> DEFINE free == {f \in Fds : ~t[f].live}
             fd == Min(free)
             i == read_dentry_by_name(name)
  <1>0. CASE free = {} \/ i = 0
    BY <1>0 DEF open
  <1>1. SUFFICES ASSUME free # {}, i # 0
                 PROVE  /\ fd \in Fds /\ ~t[fd].live /\ i \in DOMAIN disk.dentries
                        /\ \A f \in Fds : ~t[f].live => fd <= f
                        /\ open(t, name) = [files |-> [t EXCEPT ![fd] = Opened(disk.dentries[i], t[fd])],
                                            ret |-> fd, bytes |-> <<>>, stored |-> 0]
    BY <1>0
  <1>2. fd \in free /\ \A f \in free : fd <= f
    <2>1. free \subseteq Nat
      BY SyscallsAssumption DEF Fds
    <2> HIDE DEF free
    <2> QED
      BY <1>1, <2>1, MinInSet
  <1>3. i \in DOMAIN disk.dentries
    BY <1>1, NameFound
  <1> DEFINE e == disk.dentries[i]
             r0 == Refused(t)
             r1 == [r0 EXCEPT !.ret = fd]
             r2 == [r1 EXCEPT !.files[fd].ftype = e.ftype]
             r3 == [r2 EXCEPT !.files[fd].inode_num = e.inode]
             r4 == [r3 EXCEPT !.files[fd].live = TRUE]
  <1>4. open(t, name) = r4
    BY <1>1, Zenon DEF open
  <1>5. fd \in Fds /\ ~t[fd].live /\ \A f \in Fds : ~t[f].live => fd <= f
    BY <1>2
  <1> HIDE DEF fd, i, free, e
  <1>6. r1 = [files |-> t, ret |-> fd, bytes |-> <<>>, stored |-> 0]
    BY DEF Refused
  <1>7. t[fd] = [ftype |-> t[fd].ftype, inode_num |-> t[fd].inode_num, pos |-> t[fd].pos,
                 live |-> t[fd].live]
    BY <1>5 DEF FileRecs
  <1> HIDE DEF r1
  <1>8. r2 = [files |-> [t EXCEPT ![fd] = [ftype |-> e.ftype, inode_num |-> t[fd].inode_num,
                                            pos |-> t[fd].pos, live |-> t[fd].live]],
              ret |-> fd, bytes |-> <<>>, stored |-> 0]
    BY <1>5, <1>6, <1>7
  <1> HIDE DEF r2
  <1>9. r3 = [files |-> [t EXCEPT ![fd] = [ftype |-> e.ftype, inode_num |-> e.inode,
                                            pos |-> t[fd].pos, live |-> t[fd].live]],
              ret |-> fd, bytes |-> <<>>, stored |-> 0]
    BY <1>5, <1>8
  <1> HIDE DEF r3
  <1>10. r4 = [files |-> [t EXCEPT ![fd] = [ftype |-> e.ftype, inode_num |-> e.inode,
                                            pos |-> t[fd].pos, live |-> TRUE]],
               ret |-> fd, bytes |-> <<>>, stored |-> 0]
    BY <1>5, <1>9
  <1> HIDE DEF r4
  <1> QED
    BY <1>3, <1>4, <1>5, <1>10 DEF Opened, e

LEMMA OpenTable ==
    ASSUME disk \in Disks, NEW t, t \in [Fds -> FileRecs], NEW name
    PROVE  \/ open(t, name) = Refused(t)
           \/ \E fd \in Fds, i \in DOMAIN disk.dentries :
                 /\ ~t[fd].live
                 /\ open(t, name) = [files |-> [t EXCEPT ![fd] = Opened(disk.dentries[i], t[fd])],
                                     ret |-> fd, bytes |-> <<>>, stored |-> 0]
  BY OpenExact, Zenon

LEMMA CloseTable ==
    ASSUME NEW t, NEW fd \in Fds
    PROVE  close(t, fd) = IF t[fd].live
                          THEN [files |-> [t EXCEPT ![fd] = Unused], ret |-> 0, bytes |-> <<>>, stored |-> 0]
                          ELSE Refused(t)
  <1>1. ~(fd < 2) /\ ~(fd >= FileArrayLen)
    BY SyscallsAssumption DEF Fds
  <1> DEFINE r0 == Refused(t)
             r1 == [r0 EXCEPT !.ret = 0]
             r2 == [r1 EXCEPT !.files[fd] = Unused]
  <1>2. close(t, fd) = IF t[fd].live THEN r2 ELSE Refused(t)
    BY <1>1, Zenon DEF close
  <1>3. r1 = [files |-> t, ret |-> 0, bytes |-> <<>>, stored |-> 0]
    BY DEF Refused
  <1> HIDE DEF r1
  <1>4. r2 = [files |-> [t EXCEPT ![fd] = Unused], ret |-> 0, bytes |-> <<>>, stored |-> 0]
    BY <1>3
  <1> QED
    BY <1>2, <1>4

(* Reading moves the position of the descriptor, and nothing else. *)
MoveBy(t, fd, k) == [t EXCEPT ![fd].pos = @ + k]

LEMMA MovedPos ==
    ASSUME NEW t \in [Fds -> FileRecs], NEW fd \in Fds, NEW k
    PROVE  MoveBy(t, fd, k) = [t EXCEPT ![fd] = At_pos(t[fd], t[fd].pos + k)]
  <1> DEFINE r == t[fd]
             c == r.pos + k
  <1>1. r = [ftype |-> r.ftype, inode_num |-> r.inode_num, pos |-> r.pos, live |-> r.live]
    BY DEF FileRecs
  <1> HIDE DEF c
  <1>2. [r EXCEPT !.pos = c] = At_pos(r, c)
    <2> HIDE DEF r
    <2> QED
      BY <1>1 DEF At_pos
  <1>3. [t EXCEPT ![fd].pos = c] = [t EXCEPT ![fd] = [r EXCEPT !.pos = c]]
    OBVIOUS
  <1> QED
    BY <1>2, <1>3 DEF c, MoveBy

LEMMA ReadRange ==
    ASSUME NEW t, NEW fd \in Fds, t[fd].live, NEW n
    PROVE  read(t, fd, n) = IF t[fd].ftype = DIR THEN dir_read(t, fd, n)
                            ELSE IF t[fd].ftype = FILE THEN fs_read(t, fd, n) ELSE rtc_read(t)
  <1>1. ~(fd < 0) /\ ~(fd = 1) /\ ~(fd >= FileArrayLen)
    BY SyscallsAssumption DEF Fds
  <1> QED
    BY <1>1, Zenon DEF read

LEMMA ReadFile ==
    ASSUME NEW t, TableOK(disk, t), NEW fd \in Fds, t[fd].live, t[fd].ftype = FILE, NEW n \in Nat
    PROVE  LET size == disk.inodes[t[fd].inode_num].length
               m    == Least(n, size - t[fd].pos)
           IN  /\ m \in Nat /\ m <= n /\ t[fd].pos + m <= size
               /\ (m = 0 /\ n > 0) => t[fd].pos = size
               /\ read(t, fd, n) = [files |-> [t EXCEPT ![fd] = At_pos(t[fd], t[fd].pos + m)],
                                    ret |-> m,
                                    bytes |-> Bytes(disk, t[fd].inode_num, t[fd].pos, m),
                                    stored |-> m]
  <1> DEFINE r == t[fd]
             size == disk.inodes[r.inode_num].length
             m == Least(n, size - r.pos)
             b == read_data(r.inode_num, r.pos, n)
  <1>1. /\ t \in [Fds -> FileRecs] /\ r \in FileRecs /\ r.pos \in Nat
        /\ r.inode_num \in DOMAIN disk.inodes /\ size \in Nat /\ r.pos <= size
    BY DEF TableOK, Backed, FileRecs
  <1>2. m \in Nat /\ m <= n /\ r.pos + m <= size /\ ((m = 0 /\ n > 0) => r.pos = size)
    BY <1>1 DEF Least
  <1>3. b = Bytes(disk, r.inode_num, r.pos, m)
    BY <1>1, ReadData
  <1>4. Len(b) = m
    BY <1>2, <1>3, BytesSeq
  <1>5. MoveBy(t, fd, m) = [t EXCEPT ![fd] = At_pos(r, r.pos + m)]
    <2> HIDE DEF m
    <2> QED
      BY <1>1, MovedPos
  <1>6. read(t, fd, n) = fs_read(t, fd, n)
    BY ReadRange DEF DIR, FILE
  <1>7. fs_read(t, fd, n) = [files |-> MoveBy(t, fd, Len(b)), ret |-> Len(b), bytes |-> b,
                             stored |-> Len(b)]
    BY Zenon DEF fs_read, MoveBy
  <1> HIDE DEF b, m
  <1>8. read(t, fd, n) = [files |-> [t EXCEPT ![fd] = At_pos(r, r.pos + m)], ret |-> m,
                          bytes |-> Bytes(disk, r.inode_num, r.pos, m), stored |-> m]
    BY <1>3, <1>4, <1>5, <1>6, <1>7
  <1> QED
    BY <1>2, <1>8 DEF m

LEMMA ReadDir ==
    ASSUME disk \in Disks, NEW t, TableOK(disk, t), NEW fd \in Fds, t[fd].live,
           t[fd].ftype = DIR, NEW n \in Nat
    PROVE  /\ read(t, fd, n).files = [t EXCEPT ![fd] = At_pos(t[fd], t[fd].pos + 1)]
           /\ read(t, fd, n).ret \in 0 .. n
  <1> DEFINE r == t[fd]
             d == read_directory_entry(r.pos, n)
             b == d.bytes
  <1>1. t \in [Fds -> FileRecs] /\ r \in FileRecs /\ r.pos \in Nat
    BY DEF TableOK, FileRecs
  <1>2. read(t, fd, n) = [files |-> MoveBy(t, fd, 1), ret |-> Len(b), bytes |-> b,
                          stored |-> d.stored]
    BY ReadRange, Zenon DEF dir_read, MoveBy
  <1>3. MoveBy(t, fd, 1) = [t EXCEPT ![fd] = At_pos(r, r.pos + 1)]
    BY <1>1, MovedPos
  <1>4. Len(b) \in 0 .. n
    <2>1. CASE r.pos >= Len(disk.dentries)
      BY <2>1 DEF read_directory_entry
    <2>2. CASE ~(r.pos >= Len(disk.dentries))
      <3> DEFINE e == disk.dentries[r.pos + 1]
                 s == Cstring(e)
      <3>1. Len(disk.dentries) \in Nat /\ r.pos + 1 \in DOMAIN disk.dentries
        BY <1>1, <2>2, SyscallsAssumption
      <3>2. Len(e.fname) \in Nat
        BY <3>1, SyscallsAssumption
      <3>3. Len(s) \in Nat
        <4> DEFINE x == IF e.ftype = DIR THEN "^A" ELSE "^B"
        <4>1. Len(Append(e.fname, x)) \in Nat
          <5> HIDE DEF e, x
          <5> QED
            BY <3>2
        <4>2. s = e.fname \/ s = Append(e.fname, x)
          BY Zenon DEF Cstring
        <4> HIDE DEF s, e, x
        <4> QED
          BY <3>2, <4>1, <4>2
      <3> DEFINE c == SubSeq(s, 1, Min({Len(s), n}))
      <3>4. b = c
        <4>1. d = [bytes |-> c, stored |-> Len(c) + 2]
          BY <2>2, Zenon DEF read_directory_entry, read_dentry_by_index
        <4> HIDE DEF c, d
        <4> QED
          BY <4>1
      <3> HIDE DEF s, b
      <3>5. Min({Len(s), n}) = Least(Len(s), n) /\ Least(Len(s), n) \in 0 .. n
        BY <3>3, MinOfTwo DEF Least
      <3> QED
        BY <3>4, <3>5
    <2> QED
      BY <2>1, <2>2
  <1> HIDE DEF b, d
  <1> QED
    BY <1>2, <1>3, <1>4

LEMMA ReadRtc ==
    ASSUME NEW t, NEW fd \in Fds, t[fd].live, t[fd].ftype = RTC, NEW n
    PROVE  read(t, fd, n) = [files |-> t, ret |-> 0, bytes |-> <<>>, stored |-> 0]
  BY ReadRange DEF RTC, DIR, FILE, rtc_read

(* A table with one descriptor changed. *)
LEMMA TablePut ==
    ASSUME NEW d, NEW t, TableOK(d, t), NEW fd \in Fds, NEW r \in FileRecs,
           IF r.live THEN Backed(d, r) ELSE r.pos = 0
    PROVE  TableOK(d, [t EXCEPT ![fd] = r])
  <1> DEFINE u == [t EXCEPT ![fd] = r]
  <1>1. u \in [Fds -> FileRecs] /\ \A f \in Fds : u[f] = IF f = fd THEN r ELSE t[f]
    BY DEF TableOK
  <1> HIDE DEF u
  <1>2. TableOK(d, u)
    BY <1>1 DEF TableOK
  <1> QED
    BY <1>2 DEF u

LEMMA OpenedBacked ==
    ASSUME NEW d \in Disks, NEW i \in DOMAIN d.dentries, NEW r \in FileRecs, r.pos = 0
    PROVE  Opened(d.dentries[i], r) \in FileRecs /\ Backed(d, Opened(d.dentries[i], r))
  <1> DEFINE e == d.dentries[i]
  <1>1. /\ e.ftype \in {RTC, DIR, FILE} /\ e.inode \in Nat
        /\ e.ftype = FILE => e.inode \in DOMAIN d.inodes /\ d.inodes[e.inode].length \in Nat
    BY SyscallsAssumption
  <1> HIDE DEF e
  <1>2. Opened(e, r) \in FileRecs
    BY <1>1 DEF Opened, FileRecs
  <1>3. Backed(d, Opened(e, r))
    BY <1>1 DEF Opened, Backed
  <1> QED
    BY <1>2, <1>3 DEF e

LEMMA UnusedRec == Unused \in FileRecs /\ ~Unused.live /\ Unused.pos = 0
  BY DEF Unused, FileRecs

-----------------------------------------------------------------------------
(* What has been read through the descriptors *)

FsInv ==
    /\ disk \in Disks
    /\ TableOK(disk, files)
    /\ got = [f \in Fds |-> got[f]]
    /\ \A f \in Fds : files[f].live => got[f] = GotOf(disk, files[f])

LEMMA OpenKeeps ==
    ASSUME FsInv, NEW name, DoOpen(open(files, name))
    PROVE  /\ FsInv'
           /\ \/ open(files, name).ret = -1 /\ UNCHANGED files
              \/ LET fd == open(files, name).ret
                 IN  /\ fd \in Fds /\ ~files[fd].live
                     /\ \A f \in Fds : files'[f].live <=> f = fd \/ files[f].live
  <1> DEFINE r == open(files, name)
  <1>1. /\ files' = r.files /\ disk' = disk
        /\ got' = [f \in Fds |-> IF f = r.ret THEN <<>> ELSE got[f]]
    BY DEF DoOpen
  <1>2. disk \in Disks /\ files \in [Fds -> FileRecs]
    BY DEF FsInv, TableOK
  <1>3. -1 \notin Fds
    BY SyscallsAssumption DEF Fds
  <1>4. CASE r = Refused(files)
    <2>1. r.files = files /\ r.ret = -1
      BY <1>4 DEF Refused
    <2> HIDE DEF r
    <2>2. got' = got
      BY <1>1, <1>3, <2>1 DEF FsInv
    <2>3. FsInv'
      BY <1>1, <2>1, <2>2 DEF FsInv
    <2> QED
      BY <1>1, <2>1, <2>3 DEF r
  <1>5. ASSUME NEW fd \in Fds, NEW i \in DOMAIN disk.dentries, ~files[fd].live,
               r = [files |-> [files EXCEPT ![fd] = Opened(disk.dentries[i], files[fd])],
                    ret |-> fd, bytes |-> <<>>, stored |-> 0]
        PROVE  /\ FsInv' /\ r.ret = fd
               /\ \A f \in Fds : files'[f].live <=> f = fd \/ files[f].live
    <2> DEFINE o == Opened(disk.dentries[i], files[fd])
    <2>1. r.files = [files EXCEPT ![fd] = o] /\ r.ret = fd
      BY <1>5
    <2>2. files[fd] \in FileRecs /\ files[fd].pos = 0
      BY <1>2, <1>5 DEF FsInv, TableOK
    <2>3. o \in FileRecs /\ Backed(disk, o) /\ o.live /\ o.pos = 0
      BY <1>2, <2>2, OpenedBacked DEF Opened
    <2> HIDE DEF r, o
    <2>4. TableOK(disk, files')
      <3>1. TableOK(disk, [files EXCEPT ![fd] = o])
        BY <2>3, TablePut DEF FsInv
      <3> QED
        BY <1>1, <2>1, <3>1
    <2>5. \A f \in Fds : files'[f] = IF f = fd THEN o ELSE files[f]
      BY <1>1, <1>2, <2>1
    <2>6. GotOf(disk, o) = <<>>
      <3>1. Bytes(disk, o.inode_num, 0, 0) = <<>>
        BY BytesSeq
      <3>2. Least(0, Len(disk.dentries)) = 0
        BY <1>2, SyscallsAssumption DEF Least
      <3>3. EntryNames(disk, 0) = <<>>
        BY DEF EntryNames
      <3> QED
        BY <2>3, <3>1, <3>2, <3>3 DEF GotOf
    <2>7. ASSUME NEW f \in Fds, files'[f].live PROVE got'[f] = GotOf(disk, files'[f])
      BY <1>1, <2>1, <2>5, <2>6, <2>7 DEF FsInv
    <2>8. got' = [f \in Fds |-> got'[f]]
      BY <1>1
    <2>9. FsInv'
      BY <1>1, <1>2, <2>4, <2>7, <2>8 DEF FsInv
    <2> QED
      BY <2>1, <2>3, <2>5, <2>9
  <1> QED
    BY <1>2, <1>4, <1>5, OpenTable

LEMMA CloseKeeps ==
    ASSUME FsInv, NEW fd \in Fds, files[fd].live, DoClose(fd, close(files, fd))
    PROVE  FsInv' /\ \A f \in Fds : files'[f].live <=> f # fd /\ files[f].live
  <1>1. /\ files' = [files EXCEPT ![fd] = Unused] /\ disk' = disk
        /\ got' = [f \in Fds |-> IF f = fd THEN <<>> ELSE got[f]]
    BY CloseTable DEF DoClose
  <1>2. disk \in Disks /\ files \in [Fds -> FileRecs]
    BY DEF FsInv, TableOK
  <1>3. TableOK(disk, files')
    BY <1>1, UnusedRec, TablePut DEF FsInv
  <1>4. \A f \in Fds : files'[f] = IF f = fd THEN Unused ELSE files[f]
    BY <1>1, <1>2
  <1>5. ASSUME NEW f \in Fds, files'[f].live PROVE got'[f] = GotOf(disk, files'[f])
    BY <1>1, <1>4, <1>5, UnusedRec DEF FsInv
  <1>6. got' = [f \in Fds |-> got'[f]]
    BY <1>1
  <1>7. FsInv'
    BY <1>1, <1>2, <1>3, <1>5, <1>6 DEF FsInv
  <1> QED
    BY <1>4, <1>7, UnusedRec

LEMMA EntryNamesSeq ==
    ASSUME NEW d, NEW m \in Nat
    PROVE  Append(EntryNames(d, m), d.dentries[m + 1].fname) = EntryNames(d, m + 1)
  BY DEF EntryNames

(* What a read adds to what was read before. *)
Extended(d, r, g, b) ==
    IF r.ftype = FILE THEN g \o b
    ELSE IF r.ftype # DIR \/ r.pos >= Len(d.dentries) THEN g ELSE Append(g, d.dentries[r.pos + 1].fname)

LEMMA ReadKeeps ==
    ASSUME FsInv, NEW fd \in Fds, files[fd].live, NEW n \in Nat,
           DoRead(fd, n, read(files, fd, n))
    PROVE  /\ FsInv'
           /\ \A f \in Fds : files'[f].live <=> files[f].live
           /\ read(files, fd, n).ret \in 0 .. n
           /\ (files[fd].ftype = FILE /\ n > 0 /\ read(files, fd, n).ret = 0)
                => files[fd].pos = disk.inodes[files[fd].inode_num].length
  <1> DEFINE r == files[fd]
             a == read(files, fd, n)
             g == Extended(disk, r, got[fd], a.bytes)
  <1>1. files' = a.files /\ disk' = disk /\ got' = [got EXCEPT ![fd] = g]
    BY DEF DoRead, Extended, read_dentry_by_index
  <1>2. /\ disk \in Disks /\ files \in [Fds -> FileRecs] /\ TableOK(disk, files)
        /\ r \in FileRecs /\ Backed(disk, r) /\ r.pos \in Nat /\ r.live \in BOOLEAN
        /\ r.ftype \in {RTC, DIR, FILE} /\ r.inode_num \in Nat /\ got[fd] = GotOf(disk, r)
    BY DEF FsInv, TableOK, FileRecs, Backed
  <1>3. ASSUME NEW k \in Nat, a.files = [files EXCEPT ![fd] = At_pos(r, k)],
               r.ftype = FILE => k <= disk.inodes[r.inode_num].length,
               g = GotOf(disk, At_pos(r, k))
        PROVE  FsInv' /\ \A f \in Fds : files'[f].live <=> files[f].live
    <2> DEFINE o == At_pos(r, k)
    <2>1. o \in FileRecs /\ o.live
      BY <1>2 DEF At_pos, FileRecs
    <2>2. Backed(disk, o)
      BY <1>2, <1>3 DEF At_pos, Backed
    <2>3. TableOK(disk, [files EXCEPT ![fd] = o])
      BY <1>2, <2>1, <2>2, TablePut
    <2> HIDE DEF o, r, a, g
    <2>4. files' = [files EXCEPT ![fd] = o] /\ g = GotOf(disk, o)
      BY <1>1, <1>3 DEF o
    <2>5. \A f \in Fds : files'[f] = IF f = fd THEN o ELSE files[f]
      BY <1>2, <2>4
    <2>6. got = [f \in Fds |-> got[f]]
      BY DEF FsInv
    <2>7. \A f \in Fds : got'[f] = IF f = fd THEN g ELSE got[f]
      BY <1>1, <2>6
    <2>8. got' = [f \in Fds |-> got'[f]]
      BY <1>1, <2>6
    <2>9. ASSUME NEW f \in Fds, files'[f].live PROVE got'[f] = GotOf(disk, files'[f])
      BY <2>4, <2>5, <2>7, <2>9 DEF FsInv
    <2>10. FsInv'
      BY <1>1, <1>2, <2>3, <2>4, <2>8, <2>9 DEF FsInv
    <2> QED
      BY <2>1, <2>5, <2>10 DEF r
  <1>4. CASE r.ftype = FILE
    <2> DEFINE size == disk.inodes[r.inode_num].length
               m == Least(n, size - r.pos)
               k == r.pos + m
    <2>1. /\ m \in Nat /\ m <= n /\ k <= size /\ ((m = 0 /\ n > 0) => r.pos = size)
          /\ a = [files |-> [files EXCEPT ![fd] = At_pos(r, k)], ret |-> m,
                  bytes |-> Bytes(disk, r.inode_num, r.pos, m), stored |-> m]
      BY <1>2, <1>4, ReadFile
    <2>2. /\ a.files = [files EXCEPT ![fd] = At_pos(r, k)] /\ a.ret = m
          /\ a.bytes = Bytes(disk, r.inode_num, r.pos, m)
      BY <2>1
    <2> HIDE DEF m, a
    <2>3. k \in Nat
      BY <1>2, <2>1
    <2>4. got[fd] = Bytes(disk, r.inode_num, 0, r.pos)
      BY <1>2, <1>4 DEF GotOf
    <2>5. Bytes(disk, r.inode_num, 0, r.pos) \o Bytes(disk, r.inode_num, r.pos, m)
            = Bytes(disk, r.inode_num, 0, k)
      <3>1. r.pos \in Nat /\ m \in Nat
        BY <1>2, <2>1
      <3> QED
        BY <3>1, BytesConcat, Zenon
    <2>6. g = Bytes(disk, r.inode_num, 0, k)
      BY <1>4, <2>2, <2>4, <2>5, Zenon DEF Extended
    <2>7. GotOf(disk, At_pos(r, k)) = Bytes(disk, r.inode_num, 0, k)
      BY <1>4 DEF GotOf, At_pos
    <2> HIDE DEF g, k
    <2>8. FsInv' /\ \A f \in Fds : files'[f].live <=> files[f].live
      BY <1>3, <2>1, <2>2, <2>3, <2>6, <2>7
    <2> QED
      BY <2>1, <2>2, <2>8 DEF a
  <1>5. CASE r.ftype = DIR
    <2> DEFINE k == r.pos + 1
               L == Len(disk.dentries)
    <2>1. a.files = [files EXCEPT ![fd] = At_pos(r, k)] /\ a.ret \in 0 .. n
      BY <1>2, <1>5, ReadDir
    <2>2. r.ftype # FILE /\ k \in Nat /\ L \in Nat
      BY <1>2, <1>5, SyscallsAssumption DEF DIR, FILE
    <2>3. GotOf(disk, At_pos(r, k)) = EntryNames(disk, Least(k, L))
      BY <1>5, <2>2 DEF GotOf, At_pos
    <2>4. got[fd] = EntryNames(disk, Least(r.pos, L))
      BY <1>2, <1>5, <2>2 DEF GotOf
    <2>5. g = EntryNames(disk, Least(k, L))
      <3>1. CASE r.pos >= L
        <4>1. Least(k, L) = Least(r.pos, L)
          BY <1>2, <2>2, <3>1 DEF Least
        <4>2. g = got[fd]
          BY <2>2, <3>1, Zenon DEF Extended
        <4> QED
          BY <2>4, <4>1, <4>2
      <3>2. CASE ~(r.pos >= L)
        <4>1. Least(k, L) = r.pos + 1 /\ Least(r.pos, L) = r.pos
          BY <1>2, <2>2, <3>2 DEF Least
        <4>2. g = Append(got[fd], disk.dentries[r.pos + 1].fname)
          BY <1>5, <2>2, <3>2, Zenon DEF Extended
        <4> QED
          BY <1>2, <2>4, <4>1, <4>2, EntryNamesSeq
      <3> QED
        BY <3>1, <3>2
    <2> HIDE DEF g, a, k
    <2>6. FsInv' /\ \A f \in Fds : files'[f].live <=> files[f].live
      BY <1>3, <2>1, <2>2, <2>3, <2>5
    <2> QED
      BY <2>1, <2>2, <2>6 DEF a
  <1>6. CASE r.ftype = RTC
    <2>1. r.ftype # FILE /\ r.ftype # DIR
      BY <1>6 DEF RTC, DIR, FILE
    <2>2. a.files = files /\ a.ret = 0
      BY <1>6, ReadRtc
    <2>3. g = got[fd] /\ got = [f \in Fds |-> got[f]]
      BY <2>1 DEF Extended, FsInv
    <2> HIDE DEF g, a
    <2>4. UNCHANGED <<disk, files, got>>
      BY <1>1, <2>2, <2>3
    <2>5. FsInv'
      BY <2>4 DEF FsInv
    <2> QED
      BY <2>1, <2>2, <2>4, <2>5 DEF a
  <1> QED
    BY <1>2, <1>4, <1>5, <1>6

-----------------------------------------------------------------------------
(* err_open_lots: every descriptor opened, then closed *)

LotsOpen(s) ==
    LET r == open(s.files, Dot)
    IN  [files |-> r.files, cnt |-> s.cnt + IF r.ret = -1 THEN 1 ELSE 0]

(* The two loops have values: recursive functions on an interval exist. *)
LEMMA OpenedExists ==
    ASSUME NEW a, NEW N \in Nat
    PROVE  \E f : f = [i \in 0 .. N |-> IF i = 0 THEN a ELSE LotsOpen(f[i - 1])]
  <1> DEFINE E(f, n) == f = [i \in 0 .. n |-> IF i = 0 THEN a ELSE LotsOpen(f[i - 1])]
             T == {n \in Nat : \E f : E(f, n)}
  <1>1. 0 \in T
    <2>1. E([i \in 0 .. 0 |-> a], 0)
      OBVIOUS
    <2> QED
      BY <2>1
  <1>2. ASSUME NEW n \in Nat, n \in T PROVE n + 1 \in T
    <2>1. PICK f : E(f, n)
      BY <1>2
    <2> DEFINE g == [i \in 0 .. n + 1 |-> IF i = n + 1 THEN LotsOpen(f[n]) ELSE f[i]]
    <2>2. ASSUME NEW i \in 0 .. n + 1 PROVE g[i] = IF i = 0 THEN a ELSE LotsOpen(g[i - 1])
      <3>1. CASE i = n + 1
        <4>1. g[n + 1] = LotsOpen(f[n]) /\ g[n] = f[n] /\ i - 1 = n /\ i # 0
          BY <3>1, <1>2
        <4> QED
          BY <3>1, <4>1
      <3>2. CASE i # n + 1
        <4>1. i \in 0 .. n /\ g[i] = f[i] /\ (i # 0 => i - 1 \in 0 .. n /\ g[i - 1] = f[i - 1])
          BY <3>2, <1>2
        <4>2. f[i] = IF i = 0 THEN a ELSE LotsOpen(f[i - 1])
          BY <2>1, <4>1
        <4> QED
          BY <4>1, <4>2
      <3> QED
        BY <3>1, <3>2
    <2>3. E(g, n + 1)
      BY <2>2
    <2> HIDE DEF E, g
    <2> QED
      BY <2>3, <1>2
  <1> HIDE DEF E
  <1>3. \E f : E(f, N)
    BY <1>1, <1>2, NatInduct
  <1> QED
    BY <1>3 DEF E

LEMMA ClosedExists ==
    ASSUME NEW a, NEW N \in Nat, N # 0
    PROVE  \E f : f = [i \in 1 .. N |-> IF i = 1 THEN a ELSE close(f[i - 1], i).files]
  <1> DEFINE E(f, n) == f = [i \in 1 .. n + 1 |-> IF i = 1 THEN a ELSE close(f[i - 1], i).files]
             T == {n \in Nat : \E f : E(f, n)}
  <1>1. 0 \in T
    <2>1. E([i \in 1 .. 0 + 1 |-> a], 0)
      OBVIOUS
    <2> QED
      BY <2>1
  <1>2. ASSUME NEW n \in Nat, n \in T PROVE n + 1 \in T
    <2>1. PICK f : E(f, n)
      BY <1>2
    <2> DEFINE m == n + 1
               c == close(f[m], m + 1).files
               g == [i \in 1 .. m + 1 |-> IF i = m + 1 THEN c ELSE f[i]]
    <2>2. ASSUME NEW i \in 1 .. m + 1
          PROVE  g[i] = IF i = 1 THEN a ELSE close(g[i - 1], i).files
      <3>1. CASE i = m + 1
        <4>1. g[m + 1] = c /\ g[m] = f[m] /\ i - 1 = m /\ i # 1
          BY <3>1, <1>2
        <4> QED
          BY <3>1, <4>1
      <3>2. CASE i # m + 1
        <4>1. i \in 1 .. m /\ g[i] = f[i] /\ (i # 1 => i - 1 \in 1 .. m /\ g[i - 1] = f[i - 1])
          BY <3>2, <1>2
        <4>2. f[i] = IF i = 1 THEN a ELSE close(f[i - 1], i).files
          BY <2>1, <4>1
        <4> QED
          BY <4>1, <4>2
      <3> QED
        BY <3>1, <3>2
    <2>3. E(g, n + 1)
      BY <2>2
    <2> HIDE DEF E, g
    <2> QED
      BY <2>3, <1>2
  <1> HIDE DEF E
  <1>3. N - 1 \in Nat /\ (N - 1) + 1 = N
    OBVIOUS
  <1>4. PICK f : E(f, N - 1)
    BY <1>1, <1>2, <1>3, NatInduct
  <1>5. f = [i \in 1 .. (N - 1) + 1 |-> IF i = 1 THEN a ELSE close(f[i - 1], i).files]
    BY <1>4 DEF E
  <1>6. f = [i \in 1 .. N |-> IF i = 1 THEN a ELSE close(f[i - 1], i).files]
    BY <1>3, <1>5
  <1> QED
    BY <1>6

LEMMA OpenKeepsTable ==
    ASSUME disk \in Disks, NEW t, TableOK(disk, t), NEW name
    PROVE  TableOK(disk, open(t, name).files)
  <1>1. t \in [Fds -> FileRecs]
    BY DEF TableOK
  <1>2. CASE open(t, name) = Refused(t)
    BY <1>2 DEF Refused
  <1>3. ASSUME NEW fd \in Fds, NEW i \in DOMAIN disk.dentries, ~t[fd].live,
               open(t, name) = [files |-> [t EXCEPT ![fd] = Opened(disk.dentries[i], t[fd])],
                                ret |-> fd, bytes |-> <<>>, stored |-> 0]
        PROVE  TableOK(disk, open(t, name).files)
    <2> DEFINE o == Opened(disk.dentries[i], t[fd])
    <2>1. open(t, name).files = [t EXCEPT ![fd] = o]
      BY <1>3
    <2>2. t[fd] \in FileRecs /\ t[fd].pos = 0
      BY <1>1, <1>3 DEF TableOK
    <2>3. o \in FileRecs /\ Backed(disk, o) /\ o.live
      BY <2>2, OpenedBacked DEF Opened
    <2> HIDE DEF o
    <2>4. TableOK(disk, [t EXCEPT ![fd] = o])
      BY <2>3, TablePut
    <2> QED
      BY <2>1, <2>4
  <1> QED
    BY <1>1, <1>2, <1>3, OpenTable

LEMMA CloseKeepsTable ==
    ASSUME NEW d, NEW t, TableOK(d, t), NEW fd \in Fds
    PROVE  /\ TableOK(d, close(t, fd).files)
           /\ ~close(t, fd).files[fd].live
           /\ \A f \in Fds : close(t, fd).files[f].live => t[f].live
  <1>1. t \in [Fds -> FileRecs]
    BY DEF TableOK
  <1>2. CASE t[fd].live
    <2>1. close(t, fd).files = [t EXCEPT ![fd] = Unused]
      BY <1>2, CloseTable
    <2>2. TableOK(d, [t EXCEPT ![fd] = Unused])
      BY UnusedRec, TablePut
    <2> QED
      BY <1>1, <2>1, <2>2, UnusedRec
  <1>3. CASE ~t[fd].live
    <2>1. close(t, fd).files = t
      BY <1>3, CloseTable DEF Refused
    <2> QED
      BY <1>3, <2>1
  <1> QED
    BY <1>2, <1>3

LEMMA OpenLots ==
    ASSUME disk \in Disks, NEW t, TableOK(disk, t)
    PROVE  /\ TableOK(disk, err_open_lots(t).files)
           /\ \A f \in Fds : ~err_open_lots(t).files[f].live
           /\ err_open_lots(t).fail \in {0, 2}
  <1> DEFINE N == FileArrayLen - 1
             a == [files |-> t, cnt |-> 0]
             opened[i \in 0 .. N] == IF i = 0 THEN a ELSE LotsOpen(opened[i - 1])
             b == opened[N].files
             closed[i \in 1 .. N] == IF i = 1 THEN b ELSE close(closed[i - 1], i).files
             EO(f) == f = [i \in 0 .. N |-> IF i = 0 THEN a ELSE LotsOpen(f[i - 1])]
             EC(f) == f = [i \in 1 .. N |-> IF i = 1 THEN b ELSE close(f[i - 1], i).files]
  <1>1. N \in Nat /\ N - 1 \in Nat /\ (N - 1) + 1 = N /\ N >= 2 /\ Fds = 2 .. N
    BY SyscallsAssumption DEF Fds
  <1>2. err_open_lots(t) = Test(closed[N], opened[N].cnt = 1)
    BY Zenon DEF err_open_lots, LotsOpen
  <1>3. EO(opened)
    <2>1. \E f : EO(f)
      BY <1>1, OpenedExists
    <2>2. opened = CHOOSE f : EO(f)
      BY Zenon
    <2> HIDE DEF EO, opened
    <2> QED
      BY <2>1, <2>2, Zenon
  <1> HIDE DEF opened
  <1>4. EC(closed)
    <2>1. \E f : EC(f)
      <3>1. N # 0
        BY <1>1
      <3> HIDE DEF b, N
      <3> QED
        BY <1>1, <3>1, ClosedExists
    <2>2. closed = CHOOSE f : EC(f)
      BY Zenon
    <2> HIDE DEF EC, closed
    <2> QED
      BY <2>1, <2>2, Zenon
  <1> HIDE DEF closed
  <1>5. TableOK(disk, b)
    <2> DEFINE T == {i \in Nat : i \in 0 .. N => TableOK(disk, opened[i].files)}
    <2>1. 0 \in T
      BY <1>1, <1>3
    <2>2. ASSUME NEW i \in Nat, i \in T PROVE i + 1 \in T
      <3> SUFFICES ASSUME i + 1 \in 0 .. N PROVE TableOK(disk, opened[i + 1].files)
        OBVIOUS
      <3>1. i \in 0 .. N /\ i + 1 # 0 /\ (i + 1) - 1 = i
        BY <1>1
      <3>2. opened[i + 1] = LotsOpen(opened[i])
        BY <1>3, <3>1
      <3>3. opened[i + 1].files = open(opened[i].files, Dot).files
        BY <3>2 DEF LotsOpen
      <3> QED
        BY <2>2, <3>1, <3>3, OpenKeepsTable
    <2> HIDE DEF T
    <2>3. N \in T
      BY <1>1, <2>1, <2>2, NatInduct
    <2> QED
      BY <1>1, <2>3 DEF T
  <1> HIDE DEF b
  <1>6. TableOK(disk, closed[N]) /\ \A f \in Fds : ~closed[N][f].live
    <2> DEFINE T == {i \in Nat : i + 1 \in 1 .. N =>
                        /\ TableOK(disk, closed[i + 1])
                        /\ \A f \in 2 .. i + 1 : ~closed[i + 1][f].live}
    <2>1. 0 \in T
      BY <1>1, <1>4, <1>5
    <2>2. ASSUME NEW i \in Nat, i \in T PROVE i + 1 \in T
      <3> DEFINE k == (i + 1) + 1
                 u == closed[i + 1]
      <3> SUFFICES ASSUME k \in 1 .. N
                   PROVE  /\ TableOK(disk, closed[k])
                          /\ \A f \in 2 .. k : ~closed[k][f].live
        OBVIOUS
      <3>1. i + 1 \in 1 .. N /\ k # 1 /\ k - 1 = i + 1 /\ k \in Fds
        BY <1>1
      <3>2. closed[k] = close(u, k).files
        BY <1>4, <3>1
      <3>3. TableOK(disk, u) /\ \A f \in 2 .. i + 1 : ~u[f].live
        BY <2>2, <3>1
      <3> HIDE DEF u
      <3>4. /\ TableOK(disk, closed[k]) /\ ~closed[k][k].live
            /\ \A f \in Fds : closed[k][f].live => u[f].live
        BY <3>1, <3>2, <3>3, CloseKeepsTable
      <3>5. ASSUME NEW f \in 2 .. k PROVE ~closed[k][f].live
        <4>1. f \in Fds /\ (f = k \/ f \in 2 .. i + 1)
          BY <1>1
        <4> QED
          BY <3>3, <3>4, <4>1
      <3> QED
        BY <3>4, <3>5
    <2> HIDE DEF T
    <2>3. N - 1 \in T
      BY <1>1, <2>1, <2>2, NatInduct
    <2> QED
      BY <1>1, <2>3 DEF T
  <1>7. err_open_lots(t).files = closed[N] /\ err_open_lots(t).fail \in {0, 2}
    BY <1>2 DEF Test
  <1> QED
    BY <1>6, <1>7

-----------------------------------------------------------------------------
(* The programs *)

Fields == {"name", "at", "arg", "fd", "dir", "fname", "data", "last", "line_start", "cnt",
           "junk", "todo", "fail", "out", "status"}

LiveFd(t, fd) == fd \in Fds /\ t[fd].live

(* A program with the locals p reads and closes only descriptors that it    *)
(* has open, with a length that is not negative; a syserr that runs has     *)
(* none open, and its tests add up to a status of less than 256.            *)
CatLabels(p, t) == p.name = "cat" /\ p.at = "read" => LiveFd(t, p.fd)

DirLabels(p, t) ==
    p.name \in {"ls", "grep"} /\ p.at # "start" => p.dir = -1 \/ LiveFd(t, p.dir)

GrepLabels(p, t) ==
    p.name = "grep" /\ p.at \in {"read", "line", "close"} =>
        /\ LiveFd(t, p.fd) /\ p.fd # p.dir
        /\ p.last \in 0 .. BufSize
        /\ p.at = "line" => p.line_start \in 0 .. p.last

SyserrLabels(p, t) ==
    p.name = "syserr" =>
        /\ \A f \in Fds : ~t[f].live
        /\ p.at = "start" => p.fail = 0
        /\ p.at = "test" => /\ p.todo \in Seq(1 .. 8) /\ p.fail \in Nat
                            /\ p.fail + 2 * Len(p.todo) <= 16

Labels(p, t) == CatLabels(p, t) /\ DirLabels(p, t) /\ GrepLabels(p, t) /\ SyserrLabels(p, t)

ProgInv ==
    /\ FsInv
    /\ DOMAIN prog = Fields
    /\ running => Labels(prog, files)

(* A step reads 0 bytes of a file only at its end. *)
ZeroStep ==
    \A f \in Fds : (last' # last /\ last'.fd = f /\ last'.nbytes > 0
                   /\ last'.ret = 0 /\ files[f].ftype = FILE)
            => files[f].pos = disk.inodes[files[f].inode_num].length

SameLive == \A f \in Fds : files'[f].live <=> files[f].live

LEMMA NotFds == -1 \notin Fds /\ 0 \notin Fds
  BY SyscallsAssumption DEF Fds

LEMMA AnyRead ==
    ASSUME FsInv, NEW fd, fd = -1 \/ LiveFd(files, fd), NEW n \in Nat,
           DoRead(fd, n, read(files, fd, n))
    PROVE  /\ FsInv' /\ SameLive /\ ZeroStep
           /\ LiveFd(files, fd) => read(files, fd, n).ret \in 0 .. n
  <1>1. last' = [fd |-> fd, nbytes |-> n, ret |-> read(files, fd, n).ret,
                 stored |-> read(files, fd, n).stored]
    BY DEF DoRead
  <1>2. last'.fd = fd /\ last'.nbytes = n /\ last'.ret = read(files, fd, n).ret
    BY <1>1
  <1>3. CASE LiveFd(files, fd)
    <2>1. fd \in Fds /\ files[fd].live
      BY <1>3 DEF LiveFd
    <2>2. FsInv' /\ SameLive /\ read(files, fd, n).ret \in 0 .. n
      BY <2>1, ReadKeeps DEF SameLive
    <2>3. ZeroStep
      BY <1>2, <2>1, ReadKeeps DEF ZeroStep
    <2> QED
      BY <2>2, <2>3
  <1>4. CASE fd = -1
    <2>1. read(files, fd, n) = Refused(files)
      BY <1>4 DEF read
    <2>2. read(files, fd, n).files = files
      BY <2>1 DEF Refused
    <2>3. files' = files /\ disk' = disk
      BY <2>2 DEF DoRead
    <2>4. got = [f \in Fds |-> got[f]]
      BY DEF FsInv
    <2>5. \A e : [got EXCEPT ![-1] = e] = got
      BY <2>4, NotFds
    <2>6. got' = got
      BY <1>4, <2>5 DEF DoRead
    <2>7. FsInv'
      BY <2>3, <2>6 DEF FsInv
    <2>8. ZeroStep
      BY <1>2, <1>4, NotFds DEF ZeroStep
    <2> QED
      BY <1>4, <2>3, <2>7, <2>8, NotFds DEF SameLive, LiveFd
  <1> QED
    BY <1>3, <1>4

LEMMA SameLast == ASSUME last' = last PROVE ZeroStep
  BY DEF ZeroStep

(* Descriptors that stay open keep the labels of a program. *)
LEMMA FdKept ==
    ASSUME NEW t, NEW u, NEW fd, \A f \in Fds : t[f].live => u[f].live, LiveFd(t, fd)
    PROVE  LiveFd(u, fd)
  BY DEF LiveFd

LEMMA ExitKeeps ==
    ASSUME ProgInv, NEW s, Exit(s)
    PROVE  ProgInv' /\ ZeroStep
  <1>1. UNCHANGED <<disk, files, got, last>> /\ running' = FALSE
        /\ prog' = [prog EXCEPT !.at = "exit", !.status = s]
    BY DEF Exit, Halt, Die
  <1>2. FsInv'
    BY <1>1 DEF ProgInv, FsInv
  <1>3. DOMAIN prog' = Fields
    BY <1>1 DEF ProgInv
  <1> QED
    BY <1>1, <1>2, <1>3, SameLast DEF ProgInv

(* The shell starts a program, or leaves all but its message as it is. *)
LEMMA ShellDoes ==
    ASSUME NEW line, Shell(line)
    PROVE  \/ \E n : /\ Execute
                     /\ prog' = [NoProgram EXCEPT !.name = n, !.arg = parse_arg(line).arg]
           \/ UNCHANGED <<vars, prog>> /\ (said' = Message(-1) \/ UNCHANGED said)
  BY Zenon DEF Shell, allVars, progVars

LEMMA ShellKeeps ==
    ASSUME ProgInv, NEW line, Shell(line)
    PROVE  ProgInv' /\ ZeroStep
  <1> DEFINE p == parse_arg(line)
  <1>1. ASSUME NEW n, Execute, prog' = [NoProgram EXCEPT !.name = n, !.arg = p.arg]
        PROVE  ProgInv' /\ ZeroStep
    <2>1. /\ files' = [f \in Fds |-> Unused] /\ got' = [f \in Fds |-> <<>>]
          /\ last' = NoRead /\ disk' = disk
      BY <1>1 DEF Execute
    <2>2. \A f \in Fds : files'[f] = Unused
      BY <2>1
    <2>3. TableOK(disk, files')
      BY <2>1, <2>2, UnusedRec DEF TableOK
    <2>4. FsInv'
      BY <2>1, <2>2, <2>3, UnusedRec DEF ProgInv, FsInv
    <2>5. ZeroStep
      BY <2>1, NotFds DEF ZeroStep, NoRead
    <2> HIDE DEF p
    <2>6. DOMAIN prog' = Fields /\ prog'.at = "start" /\ prog'.fail = 0
      BY <1>1 DEF NoProgram, Fields
    <2>7. Labels(prog', files')
      BY <2>2, <2>6, UnusedRec DEF Labels, CatLabels, DirLabels, GrepLabels, SyserrLabels
    <2> QED
      BY <2>4, <2>5, <2>6, <2>7 DEF ProgInv
  <1>2. CASE UNCHANGED <<vars, prog>>
    BY <1>2, SameLast DEF ProgInv, FsInv, vars
  <1> QED
    BY <1>1, <1>2, ShellDoes

LEMMA CatKeeps ==
    ASSUME ProgInv, CatOpen \/ CatRead
    PROVE  ProgInv' /\ ZeroStep
  <1>1. /\ FsInv /\ running /\ prog.name = "cat" /\ DOMAIN prog = Fields
        /\ Labels(prog, files)
    BY DEF ProgInv, CatOpen, CatRead, At
  <1>2. ASSUME NEW s, Exit(s) PROVE ProgInv' /\ ZeroStep
    BY <1>2, ExitKeeps
  <1>3. ASSUME DOMAIN prog' = Fields, prog'.name = "cat", FsInv', LiveFd(files', prog'.fd)
        PROVE  ProgInv'
    BY <1>3 DEF ProgInv, Labels, CatLabels, DirLabels, GrepLabels, SyserrLabels
  <1>4. CASE CatOpen
    <2> DEFINE r == open(files, prog.arg)
    <2>1. CASE r.ret # -1 /\ DoOpen(r) /\ prog' = [prog EXCEPT !.at = "read", !.fd = r.ret]
      <3>1. FsInv' /\ r.ret \in Fds /\ files'[r.ret].live
        BY <1>1, <2>1, OpenKeeps
      <3> HIDE DEF r
      <3>2. DOMAIN prog' = Fields /\ prog'.name = "cat" /\ prog'.fd = r.ret
        BY <1>1, <2>1 DEF Fields
      <3>3. last' = last
        BY <2>1 DEF DoOpen
      <3> QED
        BY <1>3, <3>1, <3>2, <3>3, SameLast DEF LiveFd
    <2> QED
      BY <1>2, <1>4, <2>1 DEF CatOpen, Continue
  <1>5. CASE CatRead
    <2> DEFINE r == read(files, prog.fd, BufSize)
    <2>1. CASE DoRead(prog.fd, BufSize, r) /\ prog' = [prog EXCEPT !.out = @ \o r.bytes]
      <3>1. LiveFd(files, prog.fd)
        BY <1>1, <1>5 DEF CatRead, At, Labels, CatLabels
      <3>2. FsInv' /\ SameLive /\ ZeroStep
        BY <1>1, <2>1, <3>1, AnyRead, ProgramsAssumption
      <3> HIDE DEF r
      <3> DEFINE o == prog.out \o r.bytes
      <3>3. prog' = [prog EXCEPT !.out = o]
        BY <2>1
      <3> HIDE DEF o
      <3>4. DOMAIN prog' = Fields /\ prog'.name = "cat" /\ prog'.fd = prog.fd
        BY <1>1, <3>3 DEF Fields
      <3>5. LiveFd(files', prog.fd)
        BY <3>1, <3>2 DEF LiveFd, SameLive
      <3> QED
        BY <1>3, <3>2, <3>4, <3>5
    <2> QED
      BY <1>2, <1>5, <2>1 DEF CatRead, Continue
  <1> QED
    BY <1>4, <1>5

LEMMA DirectoryKeeps ==
    ASSUME ProgInv, OpenDirectory \/ LsRead \/ GrepEntry
    PROVE  ProgInv' /\ ZeroStep
  <1>1. /\ FsInv /\ running /\ prog.name \in {"ls", "grep"} /\ DOMAIN prog = Fields
        /\ Labels(prog, files)
    BY DEF ProgInv, OpenDirectory, LsRead, GrepEntry, At
  <1>2. ASSUME NEW s, Exit(s) PROVE ProgInv' /\ ZeroStep
    BY <1>2, ExitKeeps
  <1>3. ASSUME DOMAIN prog' = Fields, prog'.name \in {"ls", "grep"}, FsInv',
               prog'.at \in {"entry", "file"}, prog'.dir = -1 \/ LiveFd(files', prog'.dir)
        PROVE  ProgInv'
    BY <1>3 DEF ProgInv, Labels, CatLabels, DirLabels, GrepLabels, SyserrLabels
  <1>4. CASE OpenDirectory
    <2> DEFINE r == open(files, Dot)
    <2>1. DoOpen(r) /\ prog' = [prog EXCEPT !.at = "entry", !.dir = r.ret]
      BY <1>4 DEF OpenDirectory, Continue
    <2>2. FsInv' /\ (r.ret = -1 \/ (r.ret \in Fds /\ files'[r.ret].live))
      BY <1>1, <2>1, OpenKeeps
    <2> HIDE DEF r
    <2>3. /\ DOMAIN prog' = Fields /\ prog'.name = prog.name /\ prog'.at = "entry"
          /\ prog'.dir = r.ret
      BY <1>1, <2>1 DEF Fields
    <2>4. last' = last
      BY <2>1 DEF DoOpen
    <2> QED
      BY <1>1, <1>3, <2>2, <2>3, <2>4, SameLast DEF LiveFd
  <1> DEFINE r == read(files, prog.dir, FnameLen)
  <1>5. ASSUME prog.at # "start", DoRead(prog.dir, FnameLen, r)
        PROVE  /\ FsInv' /\ ZeroStep
               /\ prog.dir = -1 \/ LiveFd(files', prog.dir)
    <2>1. prog.dir = -1 \/ LiveFd(files, prog.dir)
      BY <1>1, <1>5 DEF Labels, DirLabels
    <2>2. FnameLen \in Nat
      BY SyscallsAssumption
    <2>3. FsInv' /\ SameLive /\ ZeroStep
      BY <1>1, <1>5, <2>1, <2>2, AnyRead
    <2> QED
      BY <2>1, <2>3 DEF LiveFd, SameLive
  <1>6. CASE LsRead
    <2>1. CASE DoRead(prog.dir, FnameLen, r)
               /\ prog' = [prog EXCEPT !.out = @ \o Append(r.bytes, NL)]
      <3>1. prog.at = "entry"
        BY <1>6 DEF LsRead, At
      <3> DEFINE o == prog.out \o Append(r.bytes, NL)
      <3>2. prog' = [prog EXCEPT !.out = o]
        BY <2>1
      <3>3. FsInv' /\ ZeroStep /\ (prog.dir = -1 \/ LiveFd(files', prog.dir))
        BY <1>5, <2>1, <3>1
      <3> HIDE DEF o, r
      <3>4. /\ DOMAIN prog' = Fields /\ prog'.name = prog.name /\ prog'.at = prog.at
            /\ prog'.dir = prog.dir
        BY <1>1, <3>2 DEF Fields
      <3> QED
        BY <1>1, <1>3, <3>1, <3>3, <3>4
    <2> QED
      BY <1>2, <1>6, <2>1 DEF LsRead, Continue
  <1>7. CASE GrepEntry
    <2> DEFINE a == IF r.bytes[1] = "." THEN "entry" ELSE "file"
               b == r.bytes
    <2>1. CASE DoRead(prog.dir, FnameLen, r) /\ prog' = [prog EXCEPT !.fname = b, !.at = a]
      <3>1. prog.at = "entry"
        BY <1>7 DEF GrepEntry, At
      <3>2. FsInv' /\ ZeroStep /\ (prog.dir = -1 \/ LiveFd(files', prog.dir))
        BY <1>5, <2>1, <3>1
      <3>3. a \in {"entry", "file"}
        OBVIOUS
      <3> HIDE DEF a, b, r
      <3>4. /\ DOMAIN prog' = Fields /\ prog'.name = prog.name /\ prog'.at = a
            /\ prog'.dir = prog.dir
        BY <1>1, <2>1 DEF Fields
      <3> QED
        BY <1>1, <1>3, <3>2, <3>3, <3>4
    <2> QED
      BY <1>2, <1>7, <2>1 DEF GrepEntry, Continue
  <1> QED
    BY <1>4, <1>6, <1>7

LEMMA GrepKeeps ==
    ASSUME ProgInv, GrepOpen \/ GrepRead \/ GrepLine \/ GrepClose
    PROVE  ProgInv' /\ ZeroStep
  <1>1. /\ FsInv /\ running /\ prog.name = "grep" /\ DOMAIN prog = Fields
        /\ prog.at \in {"file", "read", "line", "close"} /\ Labels(prog, files)
    BY DEF ProgInv, GrepOpen, GrepRead, GrepLine, GrepClose, At
  <1>2. prog.dir = -1 \/ LiveFd(files, prog.dir)
    BY <1>1 DEF Labels, DirLabels
  <1>3. ASSUME prog.at # "file"
        PROVE  /\ LiveFd(files, prog.fd) /\ prog.fd # prog.dir
               /\ prog.last \in 0 .. BufSize /\ prog.last \in Nat
               /\ prog.at = "line" => prog.line_start \in 0 .. prog.last
    BY <1>1, <1>3, ProgramsAssumption DEF Labels, GrepLabels
  <1>4. ASSUME DOMAIN prog' = Fields, prog'.name = "grep", FsInv',
               prog'.dir = -1 \/ LiveFd(files', prog'.dir),
               GrepLabels(prog', files')
        PROVE  ProgInv'
    BY <1>4 DEF ProgInv, Labels, CatLabels, DirLabels, SyserrLabels
  <1>5. CASE GrepOpen
    <2> DEFINE r == open(files, prog.fname)
    <2>1. CASE Exit(3)
      BY <2>1, ExitKeeps
    <2>2. ASSUME r.ret # -1, DoOpen(r), NEW c,
                 prog' = [prog EXCEPT !.at = "read", !.fd = r.ret, !.last = 0,
                                      !.data = [i \in 0 .. BufSize |-> c],
                                      !.junk = @ \cup {c}]
          PROVE  ProgInv' /\ ZeroStep
      <3>1. /\ FsInv' /\ r.ret \in Fds /\ ~files[r.ret].live
            /\ \A f \in Fds : files'[f].live <=> f = r.ret \/ files[f].live
        BY <1>1, <2>2, OpenKeeps
      <3>2. last' = last
        BY <2>2 DEF DoOpen
      <3> HIDE DEF r
      <3> DEFINE data == [i \in 0 .. BufSize |-> c]
                 junk == prog.junk \cup {c}
      <3>3. prog' = [prog EXCEPT !.at = "read", !.fd = r.ret, !.last = 0, !.data = data,
                                 !.junk = junk]
        BY <2>2
      <3> HIDE DEF data, junk
      <3>4. /\ DOMAIN prog' = Fields /\ prog'.name = "grep" /\ prog'.at = "read"
            /\ prog'.fd = r.ret /\ prog'.dir = prog.dir /\ prog'.last = 0
        BY <1>1, <3>3 DEF Fields
      <3>5. prog.dir = -1 \/ LiveFd(files', prog.dir)
        BY <1>2, <3>1 DEF LiveFd
      <3>6. r.ret # prog.dir
        BY <1>2, <3>1, NotFds DEF LiveFd
      <3>7. GrepLabels(prog', files')
        BY <3>1, <3>4, <3>6, ProgramsAssumption DEF GrepLabels, LiveFd
      <3> QED
        BY <1>4, <3>1, <3>2, <3>4, <3>5, <3>7, SameLast
    <2> QED
      BY <1>5, <2>1, <2>2 DEF GrepOpen, Continue
  <1>6. CASE GrepRead
    <2> DEFINE n == BufSize - prog.last
               r == read(files, prog.fd, n)
               data == [i \in 0 .. BufSize |->
                          IF i \in prog.last .. prog.last + r.ret - 1
                          THEN r.bytes[i - prog.last + 1] ELSE prog.data[i]]
               cnt == r.ret
               last1 == prog.last + r.ret
    <2>1. DoRead(prog.fd, n, r)
      BY <1>6 DEF GrepRead
    <2>2. prog' = [prog EXCEPT !.data = data, !.last = last1, !.cnt = cnt,
                               !.line_start = 0, !.at = "line"]
      BY <1>6, Zenon DEF GrepRead, Continue
    <2>3. prog.at # "file"
      BY <1>6 DEF GrepRead, At
    <2>4. n \in Nat /\ prog.last + n = BufSize
      BY <1>3, <2>3, ProgramsAssumption
    <2>5. FsInv' /\ SameLive /\ ZeroStep /\ r.ret \in 0 .. n
      BY <1>1, <1>3, <2>1, <2>3, <2>4, AnyRead
    <2> HIDE DEF r, n
    <2>6. last1 \in 0 .. BufSize /\ last1 \in Nat
      BY <1>3, <2>3, <2>4, <2>5, ProgramsAssumption
    <2> HIDE DEF data, cnt, last1
    <2>7. /\ DOMAIN prog' = Fields /\ prog'.name = "grep" /\ prog'.at = "line"
          /\ prog'.fd = prog.fd /\ prog'.dir = prog.dir /\ prog'.last = last1
          /\ prog'.line_start = 0
      BY <1>1, <2>2 DEF Fields
    <2>8. LiveFd(files', prog.fd) /\ (prog.dir = -1 \/ LiveFd(files', prog.dir))
      BY <1>2, <1>3, <2>3, <2>5 DEF SameLive, LiveFd
    <2>9. GrepLabels(prog', files')
      BY <1>3, <2>3, <2>6, <2>7, <2>8 DEF GrepLabels
    <2> QED
      BY <1>4, <2>5, <2>7, <2>8, <2>9
  <1>7. CASE GrepLine
    <2> DEFINE S == {i \in prog.line_start .. prog.last : i = prog.last \/ prog.data[i] = NL}
               line_end == Min(S)
               ended == [prog.data EXCEPT ![line_end] = NUL]
               line  == [i \in 1 .. line_end - prog.line_start |-> ended[prog.line_start + i - 1]]
               outer == IF prog.cnt = 0 THEN "close" ELSE "read"
               more  == line_end + 1 < prog.last
    <2>1. prog.at = "line" /\ UNCHANGED vars
      BY <1>7 DEF GrepLine, At
    <2>2. /\ prog.last \in Nat /\ prog.last <= BufSize
          /\ prog.line_start \in Nat /\ prog.line_start <= prog.last
          /\ LiveFd(files, prog.fd) /\ prog.fd # prog.dir
      BY <1>3, <2>1
    <2>3. line_end \in prog.line_start .. prog.last /\ line_end \in Nat
      <3>1. S \subseteq Nat /\ prog.last \in S
        BY <2>2
      <3> HIDE DEF S
      <3>2. line_end \in S
        BY <3>1, MinInSet
      <3> QED
        BY <2>2, <3>2 DEF S
    <2>4. FsInv' /\ files' = files /\ last' = last
      BY <1>1, <2>1 DEF FsInv, vars
    <2>5. ASSUME DOMAIN prog' = Fields, prog'.name = "grep", prog'.fd = prog.fd,
                 prog'.dir = prog.dir, prog'.last \in 0 .. BufSize,
                 prog'.at \in {"read", "close"}
                   \/ (prog'.at = "line" /\ prog'.line_start \in 0 .. prog'.last)
          PROVE  ProgInv' /\ ZeroStep
      <3>1. GrepLabels(prog', files')
        BY <2>2, <2>4, <2>5 DEF GrepLabels
      <3> QED
        BY <1>2, <1>4, <2>4, <2>5, <3>1, SameLast
    <2>6. outer \in {"read", "close"}
      OBVIOUS
    <2> HIDE DEF S, line_end
    <2> DEFINE data1 == strcpy(ended, prog.line_start)
               last1 == prog.last - prog.line_start
    <2>7. CASE prog' = [prog EXCEPT !.data = data1, !.last = last1, !.at = outer]
      <3>1. last1 \in 0 .. BufSize
        BY <2>2, ProgramsAssumption
      <3> HIDE DEF data1, last1, outer
      <3>2. /\ DOMAIN prog' = Fields /\ prog'.name = "grep" /\ prog'.at = outer
            /\ prog'.fd = prog.fd /\ prog'.dir = prog.dir /\ prog'.last = last1
        BY <1>1, <2>7 DEF Fields
      <3> QED
        BY <2>5, <2>6, <3>1, <3>2
    <2> DEFINE out2 == IF Matches(line, prog.arg)
                       THEN Append(prog.out, <<prog.fname, String(ended, prog.line_start)>>)
                       ELSE prog.out
               start2 == line_end + 1
               last2 == IF more THEN prog.last ELSE 0
               at2 == IF more THEN "line" ELSE outer
    <2>8. CASE prog' = [prog EXCEPT !.data = ended, !.out = out2, !.line_start = start2,
                                    !.last = last2, !.at = at2]
      <3>1. /\ last2 \in 0 .. BufSize
            /\ at2 \in {"read", "close"} \/ (at2 = "line" /\ start2 \in 0 .. last2)
        BY <2>2, <2>3, ProgramsAssumption
      <3> HIDE DEF ended, out2, start2, last2, at2
      <3>2. /\ DOMAIN prog' = Fields /\ prog'.name = "grep" /\ prog'.at = at2
            /\ prog'.fd = prog.fd /\ prog'.dir = prog.dir /\ prog'.last = last2
            /\ prog'.line_start = start2
        BY <1>1, <2>8 DEF Fields
      <3> QED
        BY <2>5, <3>1, <3>2
    <2> QED
      BY <1>7, <2>7, <2>8, Zenon DEF GrepLine, Continue, S, line_end
  <1>8. CASE GrepClose
    <2>1. /\ prog.at = "close" /\ DoClose(prog.fd, close(files, prog.fd))
          /\ prog' = [prog EXCEPT !.at = "entry", !.data = <<>>]
      BY <1>8 DEF GrepClose, At, Continue
    <2>2. LiveFd(files, prog.fd) /\ prog.fd # prog.dir
      BY <1>3, <2>1
    <2>3. FsInv' /\ \A f \in Fds : files'[f].live <=> f # prog.fd /\ files[f].live
      BY <1>1, <2>1, <2>2, CloseKeeps DEF LiveFd
    <2>4. prog.dir = -1 \/ LiveFd(files', prog.dir)
      BY <1>2, <2>2, <2>3 DEF LiveFd
    <2>5. /\ DOMAIN prog' = Fields /\ prog'.name = "grep" /\ prog'.at = "entry"
          /\ prog'.dir = prog.dir
      BY <1>1, <2>1 DEF Fields
    <2>6. last' = last
      BY <2>1 DEF DoClose
    <2> QED
      BY <1>4, <2>3, <2>4, <2>5, <2>6, SameLast DEF GrepLabels
  <1> QED
    BY <1>5, <1>6, <1>7, <1>8

(* A test leaves the table as it was, or with everything closed. *)
LEMMA TestTable ==
    ASSUME disk \in Disks, NEW t, TableOK(disk, t), \A f \in Fds : ~t[f].live, NEW k \in 1 .. 8
    PROVE  /\ TableOK(disk, RunTest(k, t).files)
           /\ \A f \in Fds : ~RunTest(k, t).files[f].live
           /\ RunTest(k, t).fail \in {0, 2}
  <1>1. CASE k = 3
    <2>1. RunTest(k, t) = err_open_lots(t)
      BY <1>1 DEF RunTest
    <2> QED
      BY <2>1, OpenLots
  <1>2. ASSUME NEW b, RunTest(k, t) = Test(t, b)
        PROVE  RunTest(k, t).files = t /\ RunTest(k, t).fail \in {0, 2}
    BY <1>2 DEF Test
  <1>3. CASE k # 3
    <2>1. \E b : RunTest(k, t) = Test(t, b)
      <3>1. CASE k = 1
        <4>1. RunTest(k, t) = err_neg_fd(t)
          BY <3>1 DEF RunTest
        <4>2. \E b : err_neg_fd(t) = Test(t, b)
          BY Zenon DEF err_neg_fd, err_fd
        <4> QED
          BY <4>1, <4>2
      <3>2. CASE k = 2
        <4>1. RunTest(k, t) = err_big_fd(t)
          BY <3>2 DEF RunTest
        <4>2. \E b : err_big_fd(t) = Test(t, b)
          BY Zenon DEF err_big_fd, err_fd
        <4> QED
          BY <4>1, <4>2
      <3>4. CASE k = 4
        <4>1. RunTest(k, t) = err_open(t)
          BY <3>4 DEF RunTest
        <4>2. \E b : err_open(t) = Test(t, b)
          BY Zenon DEF err_open
        <4> QED
          BY <4>1, <4>2
      <3>5. CASE k = 5
        <4>1. RunTest(k, t) = err_unopened(t)
          BY <3>5 DEF RunTest
        <4>2. \E b : err_unopened(t) = Test(t, b)
          BY Zenon DEF err_unopened
        <4> QED
          BY <4>1, <4>2
      <3>6. CASE k = 6
        <4>1. RunTest(k, t) = err_vidmap(t)
          BY <3>6 DEF RunTest
        <4>2. \E b : err_vidmap(t) = Test(t, b)
          BY SMT DEF err_vidmap
        <4> QED
          BY <4>1, <4>2
      <3>7. CASE k = 7
        <4>1. RunTest(k, t) = err_stdin_out(t)
          BY <3>7 DEF RunTest
        <4>2. \E b : err_stdin_out(t) = Test(t, b)
          BY SMT DEF err_stdin_out
        <4> QED
          BY <4>1, <4>2
      <3>8. CASE k = 8
        <4>1. RunTest(k, t) = err_syscall_num(t)
          BY <3>8 DEF RunTest
        <4>2. \E b : err_syscall_num(t) = Test(t, b)
          BY Zenon DEF err_syscall_num
        <4> QED
          BY <4>1, <4>2
      <3> QED
        BY <1>3, <3>1, <3>2, <3>4, <3>5, <3>6, <3>7, <3>8
    <2> QED
      BY <1>2, <2>1
  <1> QED
    BY <1>1, <1>3

LEMMA SyserrKeeps ==
    ASSUME ProgInv, SyserrSelect \/ SyserrTest \/ SyserrExit
    PROVE  ProgInv' /\ ZeroStep
  <1>1. /\ FsInv /\ running /\ prog.name = "syserr" /\ DOMAIN prog = Fields
        /\ \A f \in Fds : ~files[f].live
        /\ prog.at = "start" => prog.fail = 0
        /\ prog.at = "test" => /\ prog.todo \in Seq(1 .. 8) /\ prog.fail \in Nat
                               /\ prog.fail + 2 * Len(prog.todo) <= 16
    BY DEF ProgInv, SyserrSelect, SyserrTest, SyserrExit, At, Labels, SyserrLabels
  <1>2. ASSUME DOMAIN prog' = Fields, prog'.name = "syserr", prog'.at = "test", FsInv',
               \A f \in Fds : ~files'[f].live, prog'.todo \in Seq(1 .. 8),
               prog'.fail \in Nat, prog'.fail + 2 * Len(prog'.todo) <= 16
        PROVE  ProgInv'
    BY <1>2 DEF ProgInv, Labels, CatLabels, DirLabels, GrepLabels, SyserrLabels
  <1>3. CASE SyserrSelect
    <2>1. PICK select \in 0 .. 9 :
             prog' = [prog EXCEPT !.at = "test",
                               !.todo = CASE select = 0 -> [k \in 1 .. 8 |-> k]
                                          [] select = 9 -> <<>>
                                          [] OTHER      -> <<select>>]
      BY <1>3 DEF SyserrSelect, Continue
    <2> DEFINE todo == CASE select = 0 -> [k \in 1 .. 8 |-> k]
                         [] select = 9 -> <<>>
                         [] OTHER      -> <<select>>
    <2>2. todo \in Seq(1 .. 8) /\ Len(todo) \in 0 .. 8
      <3>1. CASE select = 0
        BY <3>1
      <3>2. CASE select = 9
        BY <3>2
      <3>3. CASE select \notin {0, 9}
        <4>1. todo = <<select>> /\ select \in 1 .. 8
          BY <3>3
        <4> HIDE DEF todo
        <4> QED
          BY <4>1
      <3> QED
        BY <3>1, <3>2, <3>3
    <2> HIDE DEF todo
    <2>3. prog' = [prog EXCEPT !.at = "test", !.todo = todo]
      BY <2>1 DEF todo
    <2>4. /\ DOMAIN prog' = Fields /\ prog'.name = "syserr" /\ prog'.at = "test"
          /\ prog'.todo = todo /\ prog'.fail = prog.fail
      BY <1>1, <2>3 DEF Fields
    <2>5. UNCHANGED vars /\ prog.at = "start"
      BY <1>3 DEF SyserrSelect, At
    <2>6. FsInv' /\ files' = files /\ last' = last
      BY <1>1, <2>5 DEF FsInv, vars
    <2>7. prog'.fail = 0
      BY <1>1, <2>4, <2>5
    <2>8. prog'.fail \in Nat /\ prog'.fail + 2 * Len(prog'.todo) <= 16
      <3>1. Len(prog'.todo) \in 0 .. 8
        BY <2>2, <2>4
      <3>2. \A m \in 0 .. 8 : 0 \in Nat /\ 0 + 2 * m <= 16
        OBVIOUS
      <3>3. 0 + 2 * Len(prog'.todo) <= 16
        BY <3>1, <3>2, Zenon
      <3> QED
        BY <2>7, <3>2, <3>3
    <2>9. prog'.todo \in Seq(1 .. 8) /\ \A f \in Fds : ~files'[f].live
      BY <1>1, <2>2, <2>4, <2>6
    <2> QED
      BY <1>2, <2>4, <2>6, <2>8, <2>9, SameLast
  <1>4. CASE SyserrTest
    <2> DEFINE k == Head(prog.todo)
               r == RunTest(k, files)
               todo == Tail(prog.todo)
               fail == prog.fail + r.fail
    <2>1. /\ prog.at = "test" /\ prog.todo # <<>>
          /\ prog' = [prog EXCEPT !.todo = todo, !.fail = fail]
      BY <1>4 DEF SyserrTest, At, Continue
    <2>2. DoOpen([files |-> r.files, ret |-> -1])
      BY <1>4 DEF SyserrTest
    <2>3. /\ k \in 1 .. 8 /\ todo \in Seq(1 .. 8) /\ Len(todo) = Len(prog.todo) - 1
          /\ Len(prog.todo) \in Nat
      BY <1>1, <2>1
    <2>4. TableOK(disk, r.files) /\ (\A f \in Fds : ~r.files[f].live) /\ r.fail \in {0, 2}
      BY <1>1, <2>3, TestTable DEF FsInv
    <2> HIDE DEF k, r, todo
    <2>5. files' = r.files /\ disk' = disk /\ last' = last
      BY <2>2 DEF DoOpen
    <2>6. got' = got
      BY <1>1, <2>2, NotFds DEF DoOpen, FsInv
    <2>7. FsInv'
      BY <1>1, <2>4, <2>5, <2>6 DEF FsInv
    <2>8. fail \in Nat /\ fail + 2 * Len(todo) <= 16
      BY <1>1, <2>1, <2>3, <2>4
    <2> HIDE DEF fail
    <2>9. /\ DOMAIN prog' = Fields /\ prog'.name = "syserr" /\ prog'.at = "test"
          /\ prog'.todo = todo /\ prog'.fail = fail
      BY <1>1, <2>1 DEF Fields
    <2> QED
      BY <1>2, <2>3, <2>4, <2>5, <2>7, <2>8, <2>9, SameLast
  <1>5. CASE SyserrExit
    BY <1>5, ExitKeeps DEF SyserrExit
  <1> QED
    BY <1>3, <1>4, <1>5

LEMMA AnyKeeps ==
    ASSUME ProgInv, AnyCall \/ AnyFault \/ \E s \in Statuses : AnyHalt(s)
    PROVE  ProgInv' /\ ZeroStep
  <1>1. FsInv /\ DOMAIN prog = Fields
    BY DEF ProgInv
  <1>2. CASE AnyCall
    <2>1. prog' = prog /\ prog.name = "any"
      BY <1>2 DEF AnyCall, progVars
    <2>2. ASSUME FsInv' PROVE ProgInv'
      BY <1>1, <2>1, <2>2
         DEF ProgInv, Labels, CatLabels, DirLabels, GrepLabels, SyserrLabels
    <2>3. ASSUME NEW n, Open(n) PROVE FsInv' /\ ZeroStep
      <3>1. DoOpen(open(files, n))
        BY <2>3 DEF Open
      <3>2. last' = last
        BY <3>1 DEF DoOpen
      <3> QED
        BY <1>1, <3>1, <3>2, OpenKeeps, SameLast
    <2>4. ASSUME NEW f \in Fds, Close(f) PROVE FsInv' /\ ZeroStep
      <3>1. DoClose(f, close(files, f)) /\ close(files, f).ret # -1
        BY <2>4 DEF Close
      <3>2. files[f].live
        BY <3>1, CloseTable DEF Refused
      <3>3. last' = last
        BY <3>1 DEF DoClose
      <3> QED
        BY <1>1, <3>1, <3>2, <3>3, CloseKeeps, SameLast
    <2>5. ASSUME NEW f \in Fds, NEW n \in Sizes, Read(f, n) PROVE FsInv' /\ ZeroStep
      <3>1. n \in Nat
        BY SyscallsAssumption
      <3>2. DoRead(f, n, read(files, f, n)) /\ LiveFd(files, f)
        BY <2>5 DEF Read, LiveFd
      <3> QED
        BY <1>1, <3>1, <3>2, AnyRead
    <2> QED
      BY <1>2, <2>2, <2>3, <2>4, <2>5 DEF AnyCall
  <1>3. CASE AnyFault
    <2>1. UNCHANGED <<disk, files, got, last, prog>> /\ running' = FALSE
      BY <1>3 DEF AnyFault, Fault, Die
    <2> QED
      BY <1>1, <2>1, SameLast DEF ProgInv, FsInv
  <1>4. ASSUME NEW s \in Statuses, AnyHalt(s) PROVE ProgInv' /\ ZeroStep
    BY <1>4, ExitKeeps DEF AnyHalt
  <1> QED
    BY <1>2, <1>3, <1>4

LEMMA ProgInit == ProgramsInit => ProgInv
  <1> SUFFICES ASSUME ProgramsInit PROVE ProgInv
    OBVIOUS
  <1>1. /\ disk \in Disks /\ files = [f \in Fds |-> Unused] /\ got = [f \in Fds |-> <<>>]
        /\ running = FALSE /\ prog = NoProgram
    BY DEF ProgramsInit, Init
  <1>2. TableOK(disk, files)
    BY <1>1, UnusedRec DEF TableOK
  <1>3. FsInv
    BY <1>1, <1>2, UnusedRec DEF FsInv
  <1>4. DOMAIN prog = Fields
    BY <1>1 DEF NoProgram, Fields
  <1> QED
    BY <1>1, <1>3, <1>4 DEF ProgInv

LEMMA ProgStep ==
    ASSUME ProgInv, [ProgramsNext]_allVars
    PROVE  ProgInv' /\ (UNCHANGED allVars \/ ZeroStep)
  <1>1. CASE UNCHANGED allVars
    BY <1>1 DEF allVars, vars, progVars, ProgInv, FsInv
  <1> QED
    BY <1>1, ShellKeeps, CatKeeps, DirectoryKeeps, GrepKeeps, SyserrKeeps, AnyKeeps
       DEF ProgramsNext

-----------------------------------------------------------------------------
(* The theorems *)

(* What programs have read of a file is its beginning, for every disk and   *)
(* block size, whatever lengths they read in and however often descriptors  *)
(* are closed and opened again: read_data goes from block to block without  *)
(* a gap, and close leaves pos at 0, where open needs it.                   *)
THEOREM ReadsInOrderHolds == ProgramsSpec => []ReadsInOrder
  <1>1. ProgInv => ReadsInOrder
    <2> SUFFICES ASSUME ProgInv, NEW f \in Fds, files[f].live, files[f].ftype = FILE
                 PROVE  /\ files[f].pos <= disk.inodes[files[f].inode_num].length
                        /\ got[f] = SubSeq(Content(files[f].inode_num), 1, files[f].pos)
      BY DEF ReadsInOrder
    <2> DEFINE n == files[f].inode_num
               k == files[f].pos
               size == disk.inodes[n].length
    <2>1. /\ k \in Nat /\ size \in Nat /\ k <= size
          /\ got[f] = Bytes(disk, n, 0, k)
      BY DEF ProgInv, FsInv, TableOK, Backed, FileRecs, GotOf
    <2>2. Content(n) = [i \in 1 .. size |-> Byte(disk, n, i - 1)]
      BY DEF Content, Byte
    <2>3. Bytes(disk, n, 0, k) = [i \in 1 .. k |-> Byte(disk, n, i - 1)]
      BY DEF Bytes
    <2> HIDE DEF n, k, size
    <2>4. SubSeq(Content(n), 1, k) = [i \in 1 .. k |-> Byte(disk, n, i - 1)]
      BY <2>1, <2>2
    <2> QED
      BY <2>1, <2>3, <2>4 DEF n, k, size
  <1> QED
    BY <1>1, ProgInit, ProgStep, PTL DEF ProgramsSpec

(* Through a directory descriptor a program gets every entry once, in       *)
(* order, for every disk.                                                   *)
THEOREM EntriesInOrderHolds == ProgramsSpec => []EntriesInOrder
  <1>1. ProgInv => EntriesInOrder
    <2> SUFFICES ASSUME ProgInv, NEW f \in Fds, files[f].live, files[f].ftype = DIR
                 PROVE  got[f] = [i \in 1 .. Min({files[f].pos, Len(disk.dentries)}) |->
                                    disk.dentries[i].fname]
      BY DEF EntriesInOrder
    <2>1. /\ disk \in Disks /\ files[f].pos \in Nat
          /\ got[f] = GotOf(disk, files[f])
      BY DEF ProgInv, FsInv, TableOK, FileRecs
    <2>2. got[f] = EntryNames(disk, Least(files[f].pos, Len(disk.dentries)))
      BY <2>1 DEF GotOf, DIR, FILE
    <2>3. Min({files[f].pos, Len(disk.dentries)}) = Least(files[f].pos, Len(disk.dentries))
      BY <2>1, SyscallsAssumption, MinOfTwo
    <2> QED
      BY <2>2, <2>3 DEF EntryNames
  <1> QED
    BY <1>1, ProgInit, ProgStep, PTL DEF ProgramsSpec

(* A read of a file returns 0 for a positive length only at its end, for    *)
(* every disk: a program that reads until then has read all of it.          *)
THEOREM ZeroOnlyAtEndHolds == ProgramsSpec => ZeroOnlyAtEnd
  <1>1. ProgInv /\ [ProgramsNext]_allVars => [ZeroStep]_vars
    <2> SUFFICES ASSUME ProgInv, [ProgramsNext]_allVars PROVE [ZeroStep]_vars
      OBVIOUS
    <2>1. CASE UNCHANGED allVars
      BY <2>1 DEF allVars
    <2> QED
      BY <2>1, ProgStep
  <1>2. ProgramsSpec => [][ZeroStep]_vars
    BY <1>1, ProgInit, ProgStep, PTL DEF ProgramsSpec
  <1> QED
    BY <1>2 DEF ZeroOnlyAtEnd, ZeroStep

(* The shell says nothing only of the value 0, and only status 0 gives it. *)
LEMMA MessageNothing ==
    ASSUME NEW v \in Int, Message(v) = "nothing"
    PROVE  v = 0
  <1>1. CASE v = -1
    BY <1>1 DEF Message
  <1>2. CASE v = 256
    BY <1>2 DEF Message
  <1>3. CASE v # -1 /\ v # 256 /\ v # 0
    BY <1>3 DEF Message
  <1> QED
    BY <1>1, <1>2, <1>3

LEMMA ExitNoticed ==
    ASSUME ProgInv, NEW s \in 0 .. 255, Exit(s)
    PROVE  FailureNoticed'
  <1>1. /\ said' = Message(RetVal(s)) /\ death' = "halt"
        /\ prog' = [prog EXCEPT !.at = "exit", !.status = s]
    BY DEF Exit, Halt, Die
  <1>2. prog'.status = s
    BY <1>1 DEF ProgInv, Fields
  <1>3. RetVal(s) \in Int /\ (RetVal(s) = 0 => s = 0)
    BY DEF RetVal
  <1>4. said' = "nothing" => s = 0
    BY <1>1, <1>3, MessageNothing
  <1> QED
    BY <1>1, <1>2, <1>4 DEF FailureNoticed

LEMMA NoticedStep ==
    ASSUME ProgInv, FailureNoticed, [ProgramsNext]_allVars
    PROVE  FailureNoticed'
  <1>1. ASSUME running' = TRUE PROVE FailureNoticed'
    BY <1>1 DEF FailureNoticed
  <1>2. CASE UNCHANGED allVars
    BY <1>2 DEF allVars, vars, progVars, FailureNoticed
  <1>3. ASSUME NEW line, Shell(line) PROVE FailureNoticed'
    <2>1. CASE Execute
      BY <1>1, <2>1 DEF Execute
    <2>2. CASE said' = Message(-1)
      <3>1. Message(-1) # "nothing"
        BY MessageNothing
      <3> QED
        BY <2>2, <3>1 DEF FailureNoticed
    <2>3. CASE UNCHANGED <<vars, prog>> /\ UNCHANGED said
      BY <1>2, <2>3 DEF allVars, progVars
    <2> QED
      BY <1>3, <2>1, <2>2, <2>3, ShellDoes
  <1>4. ASSUME CatOpen \/ CatRead \/ LsRead \/ GrepEntry \/ GrepOpen PROVE FailureNoticed'
    <2>1. 0 \in 0 .. 255 /\ 2 \in 0 .. 255 /\ 3 \in 0 .. 255
      OBVIOUS
    <2>2. CASE Exit(0) \/ Exit(2) \/ Exit(3)
      BY <2>1, <2>2, ExitNoticed
    <2>3. CASE ~(Exit(0) \/ Exit(2) \/ Exit(3))
      <3>1. running /\ running' = running
        BY <1>4, <2>3 DEF CatOpen, CatRead, LsRead, GrepEntry, GrepOpen, At, DoOpen, DoRead
      <3> QED
        BY <3>1 DEF FailureNoticed
    <2> QED
      BY <2>2, <2>3
  <1>5. ASSUME OpenDirectory \/ GrepRead \/ GrepLine \/ GrepClose \/ SyserrSelect
               \/ SyserrTest \/ AnyCall
        PROVE  FailureNoticed'
    <2>1. running /\ running' = running
      BY <1>5 DEF OpenDirectory, GrepRead, GrepLine, GrepClose, SyserrSelect, SyserrTest,
                  AnyCall, At, DoOpen, DoRead, DoClose, Open, Close, Read, vars
    <2> QED
      BY <2>1 DEF FailureNoticed
  <1>6. ASSUME SyserrExit PROVE FailureNoticed'
    <2>1. /\ Exit(prog.fail) /\ prog.fail \in Nat /\ prog.todo = <<>>
          /\ prog.fail + 2 * Len(prog.todo) <= 16
      BY <1>6 DEF SyserrExit, At, ProgInv, Labels, SyserrLabels
    <2>2. Len(prog.todo) = 0
      BY <2>1
    <2>3. prog.fail \in 0 .. 255
      <3>1. prog.fail + 2 * 0 <= 16
        BY <2>1, <2>2, Zenon
      <3>2. \A m \in Nat : m + 2 * 0 <= 16 => m \in 0 .. 255
        OBVIOUS
      <3> QED
        BY <2>1, <3>1, <3>2
    <2> QED
      BY <2>1, <2>3, ExitNoticed
  <1>7. ASSUME NEW s \in Statuses, AnyHalt(s) PROVE FailureNoticed'
    <2>1. s \in 0 .. 255 /\ Exit(s)
      BY <1>7, SyscallsAssumption DEF AnyHalt
    <2> QED
      BY <2>1, ExitNoticed
  <1>8. ASSUME AnyFault PROVE FailureNoticed'
    <2>1. said' = Message(RetVal(1))
      BY <1>8 DEF AnyFault
    <2>2. RetVal(1) = 1
      BY DEF RetVal
    <2>3. Message(1) # "nothing"
      BY MessageNothing
    <2> QED
      BY <2>1, <2>2, <2>3 DEF FailureNoticed
  <1> QED
    BY <1>2, <1>3, <1>4, <1>5, <1>6, <1>7, <1>8 DEF ProgramsNext

(* The shell reports every program that did not end with status 0, for      *)
(* every disk and every program: no other status that a program can pass    *)
(* becomes 0 in the eight bits that halt leaves of it, syserr's sum of      *)
(* failures included.                                                       *)
THEOREM FailureNoticedHolds == ProgramsSpec => []FailureNoticed
  <1>1. ProgramsInit => FailureNoticed
    BY DEF ProgramsInit, Init, NoProgram, FailureNoticed
  <1> QED
    BY <1>1, NoticedStep, ProgInit, ProgStep, PTL DEF ProgramsSpec

-----------------------------------------------------------------------------
(* Names *)

LEMMA SeqSame ==
    ASSUME NEW S, NEW T, NEW s \in Seq(S), NEW t \in Seq(T),
           Len(s) = Len(t), \A i \in 1 .. Len(s) : s[i] = t[i]
    PROVE  s = t
  <1>1. S \subseteq S \cup T /\ T \subseteq S \cup T
    OBVIOUS
  <1>2. s \in Seq(S \cup T) /\ t \in Seq(S \cup T)
    BY <1>1, SeqMonotonic
  <1> QED
    BY <1>2, SeqEqual

(* The characters of a name, and those of the type that may follow it. *)
NameChars(d, i) == Range(d.dentries[i].fname) \cup {"^A", "^B"}

LEMMA CstringSeq ==
    ASSUME NEW d \in Disks, NEW i \in DOMAIN d.dentries
    PROVE  LET name == d.dentries[i].fname
               s    == Cstring(d.dentries[i])
           IN  /\ name \in Seq(NameChars(d, i)) /\ s \in Seq(NameChars(d, i))
               /\ Len(name) \in 1 .. FnameLen
               /\ Len(name) < FnameLen => s = name
               /\ s = name \/ Len(s) = FnameLen + 1
               /\ Len(name) = FnameLen => Len(s) >= FnameLen /\ SubSeq(s, 1, FnameLen) = name
  <1> DEFINE e == d.dentries[i]
             name == e.fname
             s == Cstring(e)
             x == IF e.ftype = DIR THEN "^A" ELSE "^B"
             V == NameChars(d, i)
  <1>1. name \in Seq(Range(name)) /\ Range(name) \subseteq V
    BY NamesAssumption DEF NameChars
  <1>2. name \in Seq(V)
    BY <1>1, SeqMonotonic
  <1>3. Len(name) \in 1 .. FnameLen /\ FnameLen \in Nat
    BY SyscallsAssumption
  <1>4. x \in V
    BY DEF NameChars
  <1>5. s = IF Len(name) < FnameLen \/ e.ftype = RTC THEN name ELSE Append(name, x)
    BY Zenon DEF Cstring
  <1> HIDE DEF e, x, s, V
  <1>6. /\ Append(name, x) \in Seq(V) /\ Len(Append(name, x)) = Len(name) + 1
        /\ SubSeq(Append(name, x), 1, Len(name)) = name
    <2> HIDE DEF name
    <2>1. Append(name, x) \in Seq(V) /\ Len(Append(name, x)) = Len(name) + 1
      BY <1>2, <1>4, AppendProperties
    <2>2. SubSeq(Append(name, x), 1, Len(name)) = name
      BY <1>2, <1>3, <1>4
    <2> QED
      BY <2>1, <2>2
  <1>7. s \in Seq(V)
    BY <1>2, <1>5, <1>6
  <1> HIDE DEF name
  <1>8. Len(name) < FnameLen => s = name
    BY <1>5
  <1>9. s = name \/ Len(s) = FnameLen + 1
    <2>1. s = name \/ (s = Append(name, x) /\ ~(Len(name) < FnameLen))
      BY <1>5, Zenon
    <2>2. ~(Len(name) < FnameLen) => Len(name) = FnameLen
      BY <1>3
    <2> QED
      BY <1>6, <2>1, <2>2, Zenon
  <1>10. SubSeq(name, 1, Len(name)) = name
    BY <1>2, SubSeqFull
  <1>11. Len(name) = FnameLen => Len(s) >= FnameLen /\ SubSeq(s, 1, FnameLen) = name
    <2>1. s = name \/ s = Append(name, x)
      BY <1>5, Zenon
    <2>2. CASE s = name
      BY <1>3, <1>10, <2>2
    <2>3. CASE s = Append(name, x)
      BY <1>3, <1>6, <2>3
    <2> QED
      BY <2>1, <2>2, <2>3
  <1> QED
    BY <1>2, <1>3, <1>7, <1>8, <1>9, <1>11 DEF e, name, s, V

(* A name that is found at an entry is the C string of that entry. *)
LEMMA NameIs ==
    ASSUME disk \in Disks, NEW i \in DOMAIN disk.dentries, NEW S, NEW name \in Seq(S)
    PROVE  NameAt(name, i) <=> name = Cstring(disk.dentries[i])
  <1> DEFINE s == Cstring(disk.dentries[i])
             V == NameChars(disk, i)
  <1>1. s \in Seq(V)
    BY CstringSeq
  <1>2. NameAt(name, i) <=> Len(name) = Len(s) /\ \A k \in 1 .. Len(s) : name[k] = s[k]
    BY DEF NameAt, strncmp
  <1> HIDE DEF s, V
  <1>3. ASSUME NameAt(name, i) PROVE name = s
    BY <1>1, <1>2, <1>3, SeqSame
  <1> QED
    BY <1>2, <1>3 DEF s

(* What parse_arg leaves for the program is a sequence. *)
LEMMA ArgSeq ==
    ASSUME NEW line \in Commands
    PROVE  \E S : parse_arg(line).arg \in Seq(S)
  <1> DEFINE V == Range(line)
             ends == {i \in DOMAIN line : line[i] \in {Space, NL}} \cup {Len(line) + 1}
             end == Min(ends)
             begins == {i \in end .. Len(line) : line[i] # Space} \cup {Len(line) + 1}
             begin == Min(begins)
  <1>1. line \in Seq(V)
    BY ProgramsAssumption
  <1> HIDE DEF V
  <1>2. Len(line) \in Nat /\ DOMAIN line = 1 .. Len(line)
    BY <1>1
  <1>3. end \in Nat /\ end >= 1
    <2>1. ends \subseteq Nat /\ ends # {} /\ \A y \in ends : y >= 1
      BY <1>2
    <2> HIDE DEF ends
    <2> QED
      BY <2>1, MinInSet
  <1> HIDE DEF end
  <1>4. begin \in Nat /\ begin >= 1
    <2>1. begins \subseteq Nat /\ begins # {} /\ \A y \in begins : y >= 1
      BY <1>2, <1>3
    <2> HIDE DEF begins
    <2> QED
      BY <2>1, MinInSet
  <1>5. parse_arg(line).arg = SubSeq(line, begin, Len(line))
    BY DEF parse_arg, end
  <1> HIDE DEF begin
  <1>6. \A i \in begin .. Len(line) : line[i] \in V
    BY <1>1, <1>2, <1>4, ElementOfSeq
  <1>7. SubSeq(line, begin, Len(line)) \in Seq(V)
    BY <1>2, <1>4, <1>6, SubSeqProperties
  <1> QED
    BY <1>5, <1>7

-----------------------------------------------------------------------------
(* Who takes a step *)

GrepStep == GrepEntry \/ GrepOpen \/ GrepRead \/ GrepLine \/ GrepClose
SyserrStep == SyserrSelect \/ SyserrTest \/ SyserrExit
AnyStep == AnyCall \/ AnyFault \/ \E s \in Statuses : AnyHalt(s)

LEMMA ExitName ==
    ASSUME DOMAIN prog = Fields, NEW s, Exit(s)
    PROVE  /\ disk' = disk /\ prog'.name = prog.name /\ running' = FALSE
           /\ prog'.fail = prog.fail /\ prog'.arg = prog.arg /\ prog'.out = prog.out
           /\ retval' = RetVal(s)
  BY DEF Exit, Halt, Die, Fields

(* A step of grep, syserr or any program leaves the name of the program. *)
LEMMA GrepName ==
    ASSUME DOMAIN prog = Fields, GrepStep
    PROVE  disk' = disk /\ prog'.name = prog.name /\ prog'.fail = prog.fail
  <1>1. CASE GrepEntry
    <2> DEFINE r == read(files, prog.dir, FnameLen)
               a == IF r.bytes[1] = "." THEN "entry" ELSE "file"
               b == r.bytes
    <2>1. CASE Exit(0)
      BY <2>1, ExitName
    <2>2. CASE DoRead(prog.dir, FnameLen, r) /\ prog' = [prog EXCEPT !.fname = b, !.at = a]
      <3> HIDE DEF a, b
      <3> QED
        BY <2>2 DEF Fields, DoRead
    <2> QED
      BY <1>1, <2>1, <2>2 DEF GrepEntry, Continue
  <1>2. CASE GrepOpen
    <2> DEFINE r == open(files, prog.fname)
    <2>1. CASE Exit(3)
      BY <2>1, ExitName
    <2>2. ASSUME DoOpen(r), NEW c,
                 prog' = [prog EXCEPT !.at = "read", !.fd = r.ret, !.last = 0,
                                      !.data = [i \in 0 .. BufSize |-> c],
                                      !.junk = @ \cup {c}]
          PROVE  disk' = disk /\ prog'.name = prog.name /\ prog'.fail = prog.fail
      <3> DEFINE data == [i \in 0 .. BufSize |-> c]
                 junk == prog.junk \cup {c}
                 fd == r.ret
      <3>1. prog' = [prog EXCEPT !.at = "read", !.fd = fd, !.last = 0, !.data = data,
                                 !.junk = junk]
        BY <2>2
      <3>2. disk' = disk
        BY <2>2 DEF DoOpen
      <3> HIDE DEF data, junk, fd
      <3> QED
        BY <3>1, <3>2 DEF Fields
    <2> QED
      BY <1>2, <2>1, <2>2 DEF GrepOpen, Continue
  <1>3. CASE GrepRead
    <2> DEFINE n == BufSize - prog.last
               r == read(files, prog.fd, n)
               data == [i \in 0 .. BufSize |->
                          IF i \in prog.last .. prog.last + r.ret - 1
                          THEN r.bytes[i - prog.last + 1] ELSE prog.data[i]]
               cnt == r.ret
               last1 == prog.last + r.ret
    <2>1. prog' = [prog EXCEPT !.data = data, !.last = last1, !.cnt = cnt,
                               !.line_start = 0, !.at = "line"]
      BY <1>3, Zenon DEF GrepRead, Continue
    <2>2. disk' = disk
      BY <1>3 DEF GrepRead, DoRead
    <2> HIDE DEF data, cnt, last1
    <2> QED
      BY <2>1, <2>2 DEF Fields
  <1>4. CASE GrepLine
    <2> DEFINE S == {i \in prog.line_start .. prog.last : i = prog.last \/ prog.data[i] = NL}
               line_end == Min(S)
               ended == [prog.data EXCEPT ![line_end] = NUL]
               line  == [i \in 1 .. line_end - prog.line_start |-> ended[prog.line_start + i - 1]]
               outer == IF prog.cnt = 0 THEN "close" ELSE "read"
               more  == line_end + 1 < prog.last
               data1 == strcpy(ended, prog.line_start)
               last1 == prog.last - prog.line_start
               out2 == IF Matches(line, prog.arg)
                       THEN Append(prog.out, <<prog.fname, String(ended, prog.line_start)>>)
                       ELSE prog.out
               start2 == line_end + 1
               last2 == IF more THEN prog.last ELSE 0
               at2 == IF more THEN "line" ELSE outer
    <2>1. \/ prog' = [prog EXCEPT !.data = data1, !.last = last1, !.at = outer]
          \/ prog' = [prog EXCEPT !.data = ended, !.out = out2, !.line_start = start2,
                                  !.last = last2, !.at = at2]
      BY <1>4, Zenon DEF GrepLine, Continue
    <2>2. disk' = disk
      BY <1>4 DEF GrepLine, vars
    <2> HIDE DEF data1, last1, outer, ended, out2, start2, last2, at2
    <2> QED
      BY <2>1, <2>2 DEF Fields
  <1>5. CASE GrepClose
    BY <1>5 DEF GrepClose, DoClose, Continue, Fields
  <1> QED
    BY <1>1, <1>2, <1>3, <1>4, <1>5 DEF GrepStep

LEMMA SyserrName ==
    ASSUME DOMAIN prog = Fields, SyserrStep
    PROVE  disk' = disk /\ prog'.name = prog.name
  <1>1. ASSUME NEW todo, prog' = [prog EXCEPT !.at = "test", !.todo = todo]
        PROVE  prog'.name = prog.name
    BY <1>1 DEF Fields
  <1>2. ASSUME NEW todo, NEW fail, prog' = [prog EXCEPT !.todo = todo, !.fail = fail]
        PROVE  prog'.name = prog.name
    BY <1>2 DEF Fields
  <1>3. CASE SyserrSelect
    <2>1. \E todo : prog' = [prog EXCEPT !.at = "test", !.todo = todo]
      BY <1>3, Zenon DEF SyserrSelect, Continue
    <2> QED
      BY <1>1, <1>3, <2>1 DEF SyserrSelect, vars
  <1>4. CASE SyserrTest
    <2>1. \E todo, fail : prog' = [prog EXCEPT !.todo = todo, !.fail = fail]
      BY <1>4, Zenon DEF SyserrTest, Continue
    <2>2. disk' = disk
      BY <1>4 DEF SyserrTest, DoOpen
    <2> QED
      BY <1>2, <2>1, <2>2
  <1>5. CASE SyserrExit
    BY <1>5, ExitName DEF SyserrExit
  <1> QED
    BY <1>3, <1>4, <1>5 DEF SyserrStep

LEMMA AnyName ==
    ASSUME DOMAIN prog = Fields, AnyStep
    PROVE  disk' = disk /\ prog'.name = prog.name /\ prog'.fail = prog.fail
  <1>1. CASE AnyCall
    BY <1>1 DEF AnyCall, progVars, Open, Close, Read, DoOpen, DoClose, DoRead
  <1>2. CASE AnyFault
    BY <1>2 DEF AnyFault, Fault, Die
  <1>3. ASSUME NEW s, AnyHalt(s) PROVE disk' = disk /\ prog'.name = prog.name /\ prog'.fail = prog.fail
    BY <1>3, ExitName DEF AnyHalt
  <1> QED
    BY <1>1, <1>2, <1>3 DEF AnyStep

(* A step is one of the shell, or one of the program that runs. *)
LEMMA WhoSteps ==
    ASSUME ProgramsNext
    PROVE  \/ \E line \in Commands : Shell(line)
           \/ running /\ \/ prog.name = "cat" /\ (CatOpen \/ CatRead)
                         \/ prog.name \in {"ls", "grep"} /\ OpenDirectory
                         \/ prog.name = "ls" /\ LsRead
                         \/ prog.name = "grep" /\ GrepStep
                         \/ prog.name = "syserr" /\ SyserrStep
                         \/ prog.name = "any" /\ AnyStep
  <1>1. AnyCall => running /\ prog.name = "any"
    BY DEF AnyCall, Open, Close, Read
  <1> QED
    BY <1>1 DEF ProgramsNext, GrepStep, SyserrStep, AnyStep, CatOpen, CatRead, OpenDirectory,
                LsRead, GrepEntry, GrepOpen, GrepRead, GrepLine, GrepClose, SyserrSelect,
                SyserrTest, SyserrExit, AnyHalt, AnyFault, At

LEMMA DirectoryName ==
    ASSUME DOMAIN prog = Fields, OpenDirectory \/ LsRead
    PROVE  /\ prog.name \in {"ls", "grep"} /\ prog'.name = prog.name
           /\ disk' = disk /\ prog'.fail = prog.fail
  <1>1. CASE OpenDirectory
    <2> DEFINE fd == open(files, Dot).ret
    <2>1. prog' = [prog EXCEPT !.at = "entry", !.dir = fd] /\ disk' = disk
      BY <1>1 DEF OpenDirectory, Continue, DoOpen
    <2> HIDE DEF fd
    <2> QED
      BY <1>1, <2>1 DEF OpenDirectory, At, Fields
  <1>2. CASE LsRead
    <2> DEFINE r == read(files, prog.dir, FnameLen)
               o == prog.out \o Append(r.bytes, NL)
    <2>1. CASE Exit(0)
      BY <1>2, <2>1, ExitName DEF LsRead, At
    <2>2. CASE DoRead(prog.dir, FnameLen, r) /\ prog' = [prog EXCEPT !.out = o]
      <3> HIDE DEF o
      <3> QED
        BY <1>2, <2>2 DEF LsRead, At, DoRead, Fields
    <2> QED
      BY <1>2, <2>1, <2>2 DEF LsRead, Continue
  <1> QED
    BY <1>1, <1>2

LEMMA CatName ==
    ASSUME DOMAIN prog = Fields, CatOpen \/ CatRead
    PROVE  disk' = disk /\ prog'.name = prog.name /\ prog'.fail = prog.fail
  <1>1. CASE CatOpen
    <2> DEFINE fd == open(files, prog.arg).ret
    <2>1. CASE Exit(2)
      BY <2>1, ExitName
    <2>2. CASE disk' = disk /\ prog' = [prog EXCEPT !.at = "read", !.fd = fd]
      <3> HIDE DEF fd
      <3> QED
        BY <2>2 DEF Fields
    <2> QED
      BY <1>1, <2>1, <2>2 DEF CatOpen, Continue, DoOpen
  <1>2. CASE CatRead
    <2> DEFINE o == prog.out \o read(files, prog.fd, BufSize).bytes
    <2>1. CASE Exit(0)
      BY <2>1, ExitName
    <2>2. CASE disk' = disk /\ prog' = [prog EXCEPT !.out = o]
      <3> HIDE DEF o
      <3> QED
        BY <2>2 DEF Fields
    <2> QED
      BY <1>2, <2>1, <2>2 DEF CatRead, Continue, DoRead
  <1> QED
    BY <1>1, <1>2

-----------------------------------------------------------------------------
(* cat *)

NoneLive == \A f \in Fds : ~files[f].live

Named(i) == disk.dentries[i].fname = prog.arg

(* What a cat that runs has done: it holds a descriptor of the entry its    *)
(* argument names, and has printed what it read through it.                 *)
CatInv ==
    prog.name = "cat" =>
        /\ \E line \in Commands : prog.arg = parse_arg(line).arg
        /\ running =>
             \/ prog.at = "start" /\ prog.out = <<>> /\ NoneLive
             \/ /\ prog.at = "read"
                /\ \E i \in DOMAIN disk.dentries :
                     /\ Named(i)
                     /\ files[prog.fd].ftype = disk.dentries[i].ftype
                     /\ files[prog.fd].inode_num = disk.dentries[i].inode
                     /\ disk.dentries[i].ftype = FILE => prog.out = got[prog.fd]

LEMMA ContentBytes ==
    ASSUME NEW n, disk.inodes[n].length \in Nat
    PROVE  Content(n) = Bytes(disk, n, 0, disk.inodes[n].length)
  <1> DEFINE size == disk.inodes[n].length
  <1>1. Content(n) = [i \in 1 .. size |-> Byte(disk, n, i - 1)]
    BY DEF Content, Byte
  <1>2. Bytes(disk, n, 0, size) = [i \in 1 .. size |-> Byte(disk, n, 0 + i - 1)]
    BY DEF Bytes
  <1>3. \A i \in 1 .. size : 0 + i - 1 = i - 1
    OBVIOUS
  <1> QED
    BY <1>1, <1>2, <1>3

LEMMA CatOpenCopies ==
    ASSUME PlainArguments, ProgInv, CatInv, CatOpen
    PROVE  CatInv' /\ CatCopies'
  <1> DEFINE r == open(files, prog.arg)
             i == read_dentry_by_name(prog.arg)
             free == {f \in Fds : ~files[f].live}
             fd == Min(free)
  <1>1. /\ running /\ prog.name = "cat" /\ prog.at = "start" /\ DOMAIN prog = Fields
        /\ disk \in Disks /\ files \in [Fds -> FileRecs]
    BY DEF CatOpen, At, ProgInv, FsInv, TableOK
  <1>2. PICK line \in Commands : prog.arg = parse_arg(line).arg
    BY <1>1 DEF CatInv
  <1>3. prog.out = <<>> /\ NoneLive
    BY <1>1 DEF CatInv
  <1>4. PICK S : prog.arg \in Seq(S)
    BY <1>2, ArgSeq
  <1>5. free # {}
    <2>1. 2 \in Fds
      BY SyscallsAssumption DEF Fds
    <2> QED
      BY <1>3, <2>1 DEF NoneLive
  <1>6. CASE r.ret = -1 /\ Exit(2)
    <2>1. /\ disk' = disk /\ prog'.name = "cat" /\ prog'.arg = prog.arg /\ running' = FALSE
          /\ retval' = RetVal(2)
      BY <1>1, <1>6, ExitName
    <2>2. RetVal(2) = 2
      BY DEF RetVal
    <2>3. i = 0
      <3>1. ASSUME i # 0 PROVE FALSE
        <4>1. r.ret = fd /\ fd \in Fds
          BY <1>1, <1>5, <3>1, OpenExact
        <4> QED
          BY <1>6, <4>1, NotFds
      <3> QED
        BY <3>1
    <2>4. ASSUME NEW k \in DOMAIN disk.dentries, Named(k), Len(prog.arg) < FnameLen
          PROVE  FALSE
      <3>1. ~NameAt(prog.arg, k)
        BY <1>1, <2>3, NameFound
      <3>2. Cstring(disk.dentries[k]) = prog.arg
        BY <1>1, <2>4, CstringSeq DEF Named
      <3> QED
        BY <1>1, <1>4, <3>1, <3>2, NameIs
    <2>5. CatInv'
      BY <1>2, <2>1 DEF CatInv
    <2>6. CatCopies'
      BY <2>1, <2>2, <2>4 DEF CatCopies, Named
    <2> QED
      BY <2>5, <2>6
  <1>7. CASE r.ret # -1 /\ DoOpen(r) /\ prog' = [prog EXCEPT !.at = "read", !.fd = r.ret]
    <2>1. i # 0
      <3>1. ASSUME i = 0 PROVE FALSE
        <4>1. r = Refused(files)
          BY <1>1, <3>1, OpenExact
        <4> QED
          BY <1>7, <4>1 DEF Refused
      <3> QED
        BY <3>1
    <2> DEFINE e == disk.dentries[i]
               o == Opened(e, files[fd])
    <2>2. /\ fd \in Fds /\ i \in DOMAIN disk.dentries
          /\ r = [files |-> [files EXCEPT ![fd] = o], ret |-> fd, bytes |-> <<>>, stored |-> 0]
      BY <1>1, <1>5, <2>1, OpenExact
    <2>3. NameAt(prog.arg, i)
      BY <1>1, <2>1, NameFound
    <2>4. prog.arg = Cstring(e)
      BY <1>1, <1>4, <2>2, <2>3, NameIs
    <2>5. Named(i)
      <3>1. Cstring(e) = e.fname \/ prog.arg # Cstring(e)
        BY <1>1, <1>2, <2>2 DEF PlainArguments
      <3> QED
        BY <2>4, <3>1 DEF Named
    <2>6. r.files = [files EXCEPT ![fd] = o] /\ r.ret = fd
      BY <2>2
    <2>7. o.ftype = e.ftype /\ o.inode_num = e.inode
      BY DEF Opened
    <2> HIDE DEF r, i, fd, o
    <2>8. /\ files'[fd] = o /\ got'[fd] = <<>> /\ disk' = disk /\ running' = running
      BY <1>1, <1>7, <2>2, <2>6 DEF DoOpen
    <2>9. /\ prog'.name = "cat" /\ prog'.at = "read" /\ prog'.fd = fd /\ prog'.arg = prog.arg
          /\ prog'.out = <<>>
      BY <1>1, <1>3, <1>7, <2>6 DEF Fields
    <2>10. CatInv'
      BY <1>2, <2>2, <2>5, <2>7, <2>8, <2>9 DEF CatInv, Named
    <2>11. CatCopies'
      BY <1>1, <2>8 DEF CatCopies, Ended
    <2> QED
      BY <2>10, <2>11
  <1> QED
    BY <1>6, <1>7 DEF CatOpen, Continue

LEMMA CatReadCopies ==
    ASSUME DistinctNames, ProgInv, CatInv, CatRead
    PROVE  CatInv' /\ CatCopies'
  <1> DEFINE fd == prog.fd
             r == read(files, fd, BufSize)
             n == files[fd].inode_num
             size == disk.inodes[n].length
             k == files[fd].pos
             m == Least(BufSize, size - k)
  <1>1. /\ running /\ prog.name = "cat" /\ prog.at = "read" /\ DOMAIN prog = Fields
        /\ FsInv /\ disk \in Disks /\ TableOK(disk, files) /\ LiveFd(files, fd)
        /\ files \in [Fds -> FileRecs]
    BY DEF CatRead, At, ProgInv, FsInv, TableOK, Labels, CatLabels
  <1>2. PICK line \in Commands : prog.arg = parse_arg(line).arg
    BY <1>1 DEF CatInv
  <1>3. PICK i \in DOMAIN disk.dentries :
           /\ Named(i) /\ files[fd].ftype = disk.dentries[i].ftype
           /\ n = disk.dentries[i].inode
           /\ disk.dentries[i].ftype = FILE => prog.out = got[fd]
    BY <1>1 DEF CatInv
  <1>4. fd \in Fds /\ files[fd].live /\ BufSize \in Nat /\ BufSize > 0
    BY <1>1, ProgramsAssumption DEF LiveFd
  <1>5. ASSUME files[fd].ftype = FILE
        PROVE  /\ size \in Nat /\ r.ret = m /\ ((m = 0) => k = size)
               /\ got[fd] = Bytes(disk, n, 0, k)
    <2>1. size \in Nat
      BY <1>1, <1>4, <1>5 DEF TableOK, Backed
    <2>2. got[fd] = Bytes(disk, n, 0, k)
      BY <1>1, <1>4, <1>5 DEF FsInv, GotOf
    <2>3. r.ret = m /\ ((m = 0 /\ BufSize > 0) => k = size)
      BY <1>1, <1>4, <1>5, ReadFile
    <2> QED
      BY <1>4, <2>1, <2>2, <2>3
  <1>6. CASE r.ret = 0 /\ Exit(0)
    <2>1. /\ disk' = disk /\ prog'.name = "cat" /\ prog'.arg = prog.arg /\ prog'.out = prog.out
          /\ running' = FALSE /\ retval' = RetVal(0)
      BY <1>1, <1>6, ExitName
    <2>2. RetVal(0) = 0
      BY DEF RetVal
    <2>3. ASSUME NEW j \in DOMAIN disk.dentries, Named(j), disk.dentries[j].ftype = FILE
          PROVE  prog.out = Content(disk.dentries[j].inode)
      <3>1. j = i
        BY <1>1, <1>3, <2>3 DEF DistinctNames, Named
      <3>2. files[fd].ftype = FILE /\ disk.dentries[j].inode = n /\ prog.out = got[fd]
        BY <1>3, <2>3, <3>1
      <3>3. size \in Nat /\ k = size /\ got[fd] = Bytes(disk, n, 0, size)
        BY <1>5, <1>6, <3>2
      <3> QED
        BY <3>2, <3>3, ContentBytes
    <2>4. CatInv'
      BY <1>2, <2>1 DEF CatInv
    <2>5. \A j : (Content(disk.dentries[j].inode))' = Content(disk.dentries[j].inode)
      BY <2>1 DEF Content
    <2> DEFINE named == {j \in DOMAIN disk.dentries : Named(j)}
    <2>6. CatCopies' <=> /\ named = {} => retval' = 2
                         /\ \A j \in named : Len(prog.arg) < FnameLen =>
                               /\ retval' = 0
                               /\ disk.dentries[j].ftype = FILE =>
                                     prog.out = Content(disk.dentries[j].inode)
      <3>1. prog'.at = "exit"
        BY <1>1, <1>6 DEF Exit, Fields
      <3> QED
        BY <2>1, <2>5, <3>1, Zenon DEF CatCopies, Ended, Named
    <2> QED
      BY <1>3, <2>1, <2>2, <2>3, <2>4, <2>6
  <1>7. CASE DoRead(fd, BufSize, r) /\ prog' = [prog EXCEPT !.out = @ \o r.bytes]
    <2> DEFINE o == prog.out \o r.bytes
    <2>1. prog' = [prog EXCEPT !.out = o]
      BY <1>7
    <2>2. files[fd].ftype = FILE => got'[fd] = got[fd] \o r.bytes
      <3>1. got = [f \in Fds |-> got[f]]
        BY <1>1 DEF FsInv
      <3> QED
        BY <1>4, <1>7, <3>1 DEF DoRead
    <2>3. /\ files'[fd].ftype = files[fd].ftype /\ files'[fd].inode_num = n
      <3>1. files[fd].ftype \in {RTC, DIR, FILE}
        BY <1>1, <1>4 DEF TableOK, Backed
      <3>2. r.files = files \/ \E c : r.files = [files EXCEPT ![fd] = At_pos(files[fd], c)]
        <4>1. CASE files[fd].ftype = DIR
          BY <1>1, <1>4, <4>1, ReadDir
        <4>2. CASE files[fd].ftype = FILE
          <5>1. r = [files |-> [files EXCEPT ![fd] = At_pos(files[fd], k + m)], ret |-> m,
                     bytes |-> Bytes(disk, n, k, m), stored |-> m]
            BY <1>1, <1>4, <4>2, ReadFile
          <5>2. r.files = [files EXCEPT ![fd] = At_pos(files[fd], k + m)]
            BY <5>1
          <5> QED
            BY <5>2
        <4>3. CASE files[fd].ftype = RTC
          BY <1>4, <4>3, ReadRtc
        <4> QED
          BY <3>1, <4>1, <4>2, <4>3
      <3>3. files' = r.files
        BY <1>7 DEF DoRead
      <3>4. files \in [Fds -> FileRecs] /\ fd \in Fds
        BY <1>1, <1>4 DEF TableOK
      <3>5. CASE r.files = files
        BY <3>3, <3>5
      <3>6. ASSUME NEW c, r.files = [files EXCEPT ![fd] = At_pos(files[fd], c)]
            PROVE  files'[fd] = At_pos(files[fd], c)
        <4> HIDE DEF r, fd
        <4> QED
          BY <3>3, <3>4, <3>6
      <3>7. \A c : At_pos(files[fd], c).ftype = files[fd].ftype /\ At_pos(files[fd], c).inode_num = n
        BY DEF At_pos
      <3> QED
        BY <3>2, <3>5, <3>6, <3>7
    <2>4. disk' = disk /\ running' = running
      BY <1>7 DEF DoRead
    <2> HIDE DEF r
    <2>5. ASSUME disk.dentries[i].ftype = FILE PROVE o = got'[fd]
      BY <1>3, <2>2, <2>5
    <2> HIDE DEF o
    <2>6. /\ prog'.name = "cat" /\ prog'.at = "read" /\ prog'.fd = fd /\ prog'.arg = prog.arg
          /\ prog'.out = o
      BY <1>1, <2>1 DEF Fields
    <2>7. CatInv'
      BY <1>2, <1>3, <2>3, <2>4, <2>5, <2>6 DEF CatInv, Named
    <2>8. CatCopies'
      BY <1>1, <2>4 DEF CatCopies, Ended
    <2> QED
      BY <2>7, <2>8
  <1> QED
    BY <1>6, <1>7 DEF CatRead, Continue

LEMMA CatStep ==
    ASSUME DistinctNames, PlainArguments, ProgInv, CatInv, CatCopies, [ProgramsNext]_allVars
    PROVE  CatInv' /\ CatCopies'
  <1>1. DOMAIN prog = Fields
    BY DEF ProgInv
  <1>2. ASSUME prog'.name # "cat" PROVE CatInv' /\ CatCopies'
    BY <1>2 DEF CatInv, CatCopies, Ended
  <1>3. CASE UNCHANGED <<vars, prog>>
    <2>1. /\ disk' = disk /\ files' = files /\ got' = got /\ running' = running
          /\ retval' = retval /\ prog' = prog
      BY <1>3 DEF vars
    <2>2. CatInv'
      BY <2>1 DEF CatInv, Named, NoneLive
    <2>3. \A j : (Content(disk.dentries[j].inode))' = Content(disk.dentries[j].inode)
      BY <2>1 DEF Content
    <2>4. CatCopies'
      BY <2>1, <2>3, Zenon DEF CatCopies, Ended
    <2> QED
      BY <2>2, <2>4
  <1>4. ASSUME NEW line \in Commands, Shell(line) PROVE CatInv' /\ CatCopies'
    <2> DEFINE p == parse_arg(line)
    <2>1. ASSUME NEW n, Execute, prog' = [NoProgram EXCEPT !.name = n, !.arg = p.arg]
          PROVE  CatInv' /\ CatCopies'
      <3>1. /\ files' = [f \in Fds |-> Unused] /\ running' = TRUE
        BY <2>1 DEF Execute
      <3> DEFINE a == p.arg
      <3> HIDE DEF a
      <3>2. prog'.at = "start" /\ prog'.arg = a /\ prog'.out = <<>>
        BY <2>1 DEF NoProgram, a
      <3>3. (\A f \in Fds : ~files[f].live)'
        BY <3>1, UnusedRec
      <3>4. CatInv'
        BY <3>1, <3>2, <3>3 DEF CatInv, NoneLive, a
      <3> QED
        BY <3>1, <3>4 DEF CatCopies, Ended
    <2> QED
      BY <1>3, <1>4, <2>1, ShellDoes
  <1>5. CASE CatOpen \/ CatRead
    BY <1>5, CatOpenCopies, CatReadCopies
  <1>6. CASE OpenDirectory \/ LsRead
    <2>1. prog.name \in {"ls", "grep"} /\ prog'.name = prog.name
      BY <1>1, <1>6, DirectoryName
    <2> QED
      BY <1>2, <2>1
  <1>7. CASE prog.name = "grep" /\ GrepStep
    BY <1>1, <1>2, <1>7, GrepName
  <1>8. CASE prog.name = "syserr" /\ SyserrStep
    BY <1>1, <1>2, <1>8, SyserrName
  <1>9. CASE prog.name = "any" /\ AnyStep
    BY <1>1, <1>2, <1>9, AnyName
  <1>10. CASE UNCHANGED allVars
    BY <1>3, <1>10 DEF allVars, progVars
  <1> QED
    BY <1>4, <1>5, <1>6, <1>7, <1>8, <1>9, <1>10, WhoSteps

(* cat prints the named file whole and reports a name that is not there,    *)
(* for every disk of distinct names, every block and buffer size and        *)
(* whatever programs ran in the slot before it, provided that the name does *)
(* not fill its field.                                                      *)
THEOREM CatCopiesHolds ==
    ASSUME DistinctNames, PlainArguments
    PROVE  ProgramsSpec => []CatCopies
  <1>1. ProgramsInit => CatInv /\ CatCopies
    BY DEF ProgramsInit, NoProgram, CatInv, CatCopies, Ended
  <1>2. ProgInv /\ CatInv /\ CatCopies /\ [ProgramsNext]_allVars => (CatInv /\ CatCopies)'
    BY CatStep
  <1> QED
    BY <1>1, <1>2, ProgInit, ProgStep, PTL DEF ProgramsSpec

-----------------------------------------------------------------------------
(* ls *)

(* The line of an entry, and those of the first k. *)
Line(d, i) == Append(d.dentries[i].fname, NL)
Lines(d, k) == [i \in 1 .. k |-> Append(d.dentries[i].fname, NL)]

(* An ls that runs has printed the entries up to the position of its        *)
(* descriptor.                                                              *)
LsInv ==
    prog.name = "ls" /\ running =>
        \/ prog.at = "start" /\ prog.out = <<>> /\ NoneLive
        \/ /\ prog.at = "entry" /\ prog.dir \in Fds
           /\ files[prog.dir].live /\ files[prog.dir].ftype = DIR
           /\ files[prog.dir].pos <= Len(disk.dentries)
           /\ prog.out = FlattenSeq(Lines(disk, files[prog.dir].pos))

LEMMA FlatExists ==
    ASSUME NEW s, NEW N \in Nat, N # 0
    PROVE  \E f : f = [i \in 1 .. N |-> IF i = 1 THEN s[i] ELSE f[i - 1] \o s[i]]
  <1> DEFINE E(f, n) == f = [i \in 1 .. n + 1 |-> IF i = 1 THEN s[i] ELSE f[i - 1] \o s[i]]
             T == {n \in Nat : \E f : E(f, n)}
  <1>1. 0 \in T
    <2>1. E([i \in 1 .. 0 + 1 |-> s[i]], 0)
      OBVIOUS
    <2> QED
      BY <2>1
  <1>2. ASSUME NEW n \in Nat, n \in T PROVE n + 1 \in T
    <2>1. PICK f : E(f, n)
      BY <1>2
    <2> DEFINE m == n + 1
               c == f[m] \o s[m + 1]
               g == [i \in 1 .. m + 1 |-> IF i = m + 1 THEN c ELSE f[i]]
    <2>2. ASSUME NEW i \in 1 .. m + 1
          PROVE  g[i] = IF i = 1 THEN s[i] ELSE g[i - 1] \o s[i]
      <3>1. CASE i = m + 1
        <4>1. g[m + 1] = c /\ g[m] = f[m] /\ i - 1 = m /\ i # 1
          <5> HIDE DEF c
          <5> QED
            BY <3>1, <1>2
        <4>2. g[i] = g[i - 1] \o s[i]
          BY <3>1, <4>1, Zenon
        <4> QED
          BY <4>1, <4>2, Zenon
      <3>2. CASE i # m + 1
        <4>1. i \in 1 .. m /\ g[i] = f[i] /\ (i # 1 => i - 1 \in 1 .. m /\ g[i - 1] = f[i - 1])
          BY <3>2, <1>2
        <4>2. f[i] = IF i = 1 THEN s[i] ELSE f[i - 1] \o s[i]
          BY <2>1, <4>1
        <4> QED
          BY <4>1, <4>2
      <3> QED
        BY <3>1, <3>2
    <2>3. E(g, n + 1)
      BY <2>2
    <2> HIDE DEF E, g
    <2> QED
      BY <2>3, <1>2
  <1> HIDE DEF E
  <1>3. N - 1 \in Nat /\ (N - 1) + 1 = N
    OBVIOUS
  <1>4. PICK f : E(f, N - 1)
    BY <1>1, <1>2, <1>3, NatInduct
  <1>5. f = [i \in 1 .. (N - 1) + 1 |-> IF i = 1 THEN s[i] ELSE f[i - 1] \o s[i]]
    BY <1>4 DEF E
  <1>6. f = [i \in 1 .. N |-> IF i = 1 THEN s[i] ELSE f[i - 1] \o s[i]]
    BY <1>3, <1>5
  <1> QED
    BY <1>6

(* FlattenSeq is the last value of its loop. *)
LEMMA FlatLoop ==
    ASSUME NEW d, NEW k \in Nat, k # 0
    PROVE  \E f : /\ f[1] = Line(d, 1)
                  /\ \A i \in 2 .. k : f[i] = f[i - 1] \o Line(d, i)
                  /\ FlattenSeq(Lines(d, k)) = f[k]
  <1> DEFINE s == Lines(d, k)
             N == Len(s)
             E(f) == f = [i \in 1 .. N |-> IF i = 1 THEN s[i] ELSE f[i - 1] \o s[i]]
             flatten[i \in 1 .. N] == IF i = 1 THEN s[i] ELSE flatten[i - 1] \o s[i]
  <1>1. N = k /\ \A i \in 1 .. k : s[i] = Line(d, i)
    BY DEF Lines, Line
  <1>2. FlattenSeq(s) = flatten[N]
    <2>1. N # 0
      BY <1>1
    <2> QED
      BY <2>1, Zenon DEF FlattenSeq
  <1>3. E(flatten)
    <2>1. \E f : E(f)
      <3> HIDE DEF s, N
      <3>1. N \in Nat /\ N # 0
        BY <1>1
      <3> QED
        BY <3>1, FlatExists
    <2>2. flatten = CHOOSE f : E(f)
      BY Zenon
    <2> HIDE DEF E, flatten
    <2> QED
      BY <2>1, <2>2, Zenon
  <1> HIDE DEF flatten, s
  <1>4. flatten[1] = Line(d, 1)
    BY <1>1, <1>3
  <1>5. ASSUME NEW i \in 2 .. k PROVE flatten[i] = flatten[i - 1] \o Line(d, i)
    <2>1. i \in 1 .. N /\ i # 1 /\ s[i] = Line(d, i)
      BY <1>1
    <2>2. flatten[i] = flatten[i - 1] \o s[i]
      BY <1>3, <2>1
    <2> QED
      BY <2>1, <2>2
  <1> QED
    BY <1>1, <1>2, <1>4, <1>5 DEF s

LEMMA ListingStep ==
    ASSUME NEW d, NEW k \in Nat, NEW S, Line(d, k + 1) \in Seq(S)
    PROVE  /\ FlattenSeq(Lines(d, 0)) = <<>>
           /\ FlattenSeq(Lines(d, k + 1)) = FlattenSeq(Lines(d, k)) \o Line(d, k + 1)
  <1>1. Lines(d, 0) = <<>>
    BY DEF Lines
  <1>2. FlattenSeq(Lines(d, 0)) = <<>>
    BY <1>1 DEF FlattenSeq
  <1>3. PICK g : /\ g[1] = Line(d, 1)
                 /\ \A i \in 2 .. k + 1 : g[i] = g[i - 1] \o Line(d, i)
                 /\ FlattenSeq(Lines(d, k + 1)) = g[k + 1]
    <2>1. k + 1 \in Nat /\ k + 1 # 0
      OBVIOUS
    <2> QED
      BY <2>1, FlatLoop
  <1>4. CASE k = 0
    <2>1. <<>> \o Line(d, 1) = Line(d, 1)
      BY <1>4, ConcatEmptySeq
    <2> QED
      BY <1>2, <1>3, <1>4, <2>1
  <1>5. CASE k # 0
    <2>1. PICK f : /\ f[1] = Line(d, 1)
                   /\ \A i \in 2 .. k : f[i] = f[i - 1] \o Line(d, i)
                   /\ FlattenSeq(Lines(d, k)) = f[k]
      BY <1>5, FlatLoop
    <2> DEFINE T == {j \in Nat : j + 1 \in 1 .. k => f[j + 1] = g[j + 1]}
    <2>2. 0 \in T
      BY <1>3, <2>1
    <2>3. ASSUME NEW j \in Nat, j \in T PROVE j + 1 \in T
      <3>1. SUFFICES ASSUME (j + 1) + 1 \in 1 .. k PROVE f[(j + 1) + 1] = g[(j + 1) + 1]
        OBVIOUS
      <3> DEFINE i == (j + 1) + 1
      <3>2. i \in 2 .. k /\ i \in 2 .. k + 1 /\ i - 1 = j + 1 /\ j + 1 \in 1 .. k
        BY <3>1
      <3>3. f[j + 1] = g[j + 1]
        BY <2>3, <3>2
      <3>4. f[i] = f[i - 1] \o Line(d, i) /\ g[i] = g[i - 1] \o Line(d, i)
        BY <1>3, <2>1, <3>2
      <3> QED
        BY <3>2, <3>3, <3>4
    <2> HIDE DEF T
    <2>4. k - 1 \in T
      BY <1>5, <2>2, <2>3, NatInduct
    <2>5. f[k] = g[k]
      <3>1. (k - 1) + 1 = k /\ k \in 1 .. k
        BY <1>5
      <3> QED
        BY <2>4, <3>1 DEF T
    <2>6. g[k + 1] = g[k] \o Line(d, k + 1)
      <3>1. k + 1 \in 2 .. k + 1 /\ (k + 1) - 1 = k
        BY <1>5
      <3> QED
        BY <1>3, <3>1
    <2> QED
      BY <1>2, <1>3, <2>1, <2>5, <2>6
  <1> QED
    BY <1>4, <1>5

(* The directory itself is found under its name. *)
LEMMA DotFound ==
    ASSUME DotListed, disk \in Disks
    PROVE  LET i == read_dentry_by_name(Dot)
           IN  /\ i # 0 /\ i \in DOMAIN disk.dentries /\ disk.dentries[i].fname = Dot
               /\ DistinctNames => disk.dentries[i].ftype = DIR
  <1> DEFINE i == read_dentry_by_name(Dot)
  <1>1. PICK j \in DOMAIN disk.dentries :
           disk.dentries[j].fname = Dot /\ disk.dentries[j].ftype = DIR
    BY DEF DotListed
  <1>2. FnameLen \in Nat /\ FnameLen > 1 /\ Len(Dot) = 1 /\ Dot \in Seq({"."})
    BY SyscallsAssumption DEF DotListed, Dot
  <1>3. Cstring(disk.dentries[j]) = Dot
    BY <1>1, <1>2, CstringSeq
  <1>4. NameAt(Dot, j)
    BY <1>2, <1>3, NameIs
  <1>5. i # 0
    BY <1>1, <1>4, NameFound
  <1>6. i \in DOMAIN disk.dentries /\ NameAt(Dot, i)
    BY <1>5, NameFound
  <1> HIDE DEF i
  <1>7. Cstring(disk.dentries[i]) = Dot
    BY <1>2, <1>6, NameIs
  <1>8. disk.dentries[i].fname = Dot
    <2> DEFINE name == disk.dentries[i].fname
               s == Cstring(disk.dentries[i])
    <2>1. /\ Len(name) \in 1 .. FnameLen
          /\ Len(name) < FnameLen => s = name
          /\ s = name \/ Len(s) = FnameLen + 1
      BY <1>6, CstringSeq
    <2> HIDE DEF name, s
    <2>2. s = Dot
      BY <1>7 DEF s
    <2> QED
      BY <1>2, <2>1, <2>2 DEF name
  <1> QED
    BY <1>1, <1>5, <1>6, <1>8 DEF DistinctNames, i

(* read_directory_entry returns the whole name, also of an entry whose name *)
(* fills its field, and nothing only behind the last entry.                 *)
LEMMA WholeName ==
    ASSUME disk \in Disks, NEW k \in Nat
    PROVE  /\ k < Len(disk.dentries) =>
                 /\ k + 1 \in DOMAIN disk.dentries
                 /\ read_directory_entry(k, FnameLen).bytes = disk.dentries[k + 1].fname
                 /\ Len(disk.dentries[k + 1].fname) >= 1
           /\ k >= Len(disk.dentries) => read_directory_entry(k, FnameLen).bytes = <<>>
  <1>1. CASE k >= Len(disk.dentries)
    BY <1>1, SyscallsAssumption DEF read_directory_entry
  <1>2. CASE ~(k >= Len(disk.dentries))
    <2> DEFINE e == disk.dentries[k + 1]
               s == Cstring(e)
               V == NameChars(disk, k + 1)
    <2>1. k + 1 \in DOMAIN disk.dentries /\ FnameLen \in Nat
      BY <1>2, SyscallsAssumption
    <2>2. /\ e.fname \in Seq(V) /\ s \in Seq(V) /\ Len(e.fname) \in 1 .. FnameLen
          /\ Len(e.fname) < FnameLen => s = e.fname
          /\ Len(e.fname) = FnameLen => Len(s) >= FnameLen /\ SubSeq(s, 1, FnameLen) = e.fname
      BY <2>1, CstringSeq
    <2> DEFINE c == SubSeq(s, 1, Min({Len(s), FnameLen}))
    <2>3. read_directory_entry(k, FnameLen).bytes = c
      <3>1. read_directory_entry(k, FnameLen) = [bytes |-> c, stored |-> Len(c) + 2]
        BY <1>2, Zenon DEF read_directory_entry, read_dentry_by_index
      <3> HIDE DEF c
      <3> QED
        BY <3>1
    <2> HIDE DEF e, s, V
    <2>4. Len(s) \in Nat
      BY <2>2
    <2>5. Min({Len(s), FnameLen}) = Least(Len(s), FnameLen)
      BY <2>1, <2>4, MinOfTwo
    <2>6. SubSeq(s, 1, Least(Len(s), FnameLen)) = e.fname
      <3>1. CASE Len(e.fname) < FnameLen
        <4>1. Least(Len(s), FnameLen) = Len(s) /\ s = e.fname
          BY <2>1, <2>2, <2>4, <3>1 DEF Least
        <4> QED
          BY <2>2, <4>1, SubSeqFull
      <3>2. CASE Len(e.fname) = FnameLen
        <4>1. Least(Len(s), FnameLen) = FnameLen
          BY <2>1, <2>2, <3>2 DEF Least
        <4> QED
          BY <2>2, <3>2, <4>1
      <3> QED
        BY <2>1, <2>2, <3>1, <3>2
    <2>7. read_directory_entry(k, FnameLen).bytes = e.fname
      BY <2>3, <2>5, <2>6, Zenon
    <2>8. Len(e.fname) >= 1
      BY <2>2
    <2> QED
      BY <1>2, <2>1, <2>7, <2>8, Zenon DEF e
  <1>3. Len(disk.dentries) \in Nat
    BY SyscallsAssumption
  <1> QED
    BY <1>1, <1>2, <1>3

LEMMA LsOpenLists ==
    ASSUME DistinctNames, DotListed, ProgInv, LsInv, prog.name = "ls", OpenDirectory
    PROVE  LsInv' /\ LsListsAll'
  <1> DEFINE r == open(files, Dot)
             i == read_dentry_by_name(Dot)
             free == {f \in Fds : ~files[f].live}
             fd == Min(free)
             o == Opened(disk.dentries[i], files[fd])
  <1>1. /\ running /\ prog.at = "start" /\ DOMAIN prog = Fields
        /\ disk \in Disks /\ TableOK(disk, files) /\ files \in [Fds -> FileRecs]
    BY DEF OpenDirectory, At, ProgInv, FsInv, TableOK
  <1>2. prog.out = <<>> /\ NoneLive
    BY <1>1 DEF LsInv
  <1>3. free # {}
    <2>1. 2 \in Fds
      BY SyscallsAssumption DEF Fds
    <2> QED
      BY <1>2, <2>1 DEF NoneLive
  <1>4. i # 0 /\ disk.dentries[i].ftype = DIR
    BY <1>1, DotFound
  <1>5. /\ fd \in Fds /\ ~files[fd].live
        /\ r = [files |-> [files EXCEPT ![fd] = o], ret |-> fd, bytes |-> <<>>, stored |-> 0]
    BY <1>1, <1>3, <1>4, OpenExact
  <1>6. o.ftype = DIR /\ o.pos = 0 /\ o.live
    BY <1>1, <1>4, <1>5 DEF Opened, TableOK
  <1>7. DoOpen(r) /\ prog' = [prog EXCEPT !.at = "entry", !.dir = r.ret]
    BY DEF OpenDirectory, Continue
  <1>8. r.files = [files EXCEPT ![fd] = o] /\ r.ret = fd
    BY <1>5
  <1> HIDE DEF r, fd, o
  <1>9. files'[fd] = o /\ disk' = disk /\ running' = running
    BY <1>1, <1>5, <1>7, <1>8 DEF DoOpen
  <1>10. prog'.at = "entry" /\ prog'.dir = fd /\ prog'.out = <<>> /\ prog'.name = "ls"
    BY <1>1, <1>2, <1>7, <1>8 DEF Fields
  <1>11. FlattenSeq(Lines(disk, 0)) = <<>>
    <2>1. Lines(disk, 0) = <<>>
      BY DEF Lines
    <2> QED
      BY <2>1 DEF FlattenSeq
  <1>12. 0 <= Len(disk.dentries)
    BY <1>1, SyscallsAssumption
  <1>13. LsInv'
    BY <1>5, <1>6, <1>9, <1>10, <1>11, <1>12, Zenon DEF LsInv
  <1>14. LsListsAll'
    BY <1>1, <1>9 DEF LsListsAll, Ended
  <1> QED
    BY <1>13, <1>14

LEMMA LsReadLists ==
    ASSUME ProgInv, LsInv, LsRead
    PROVE  LsInv' /\ LsListsAll'
  <1> DEFINE fd == prog.dir
             k == files[fd].pos
             d == read_directory_entry(k, FnameLen)
             b == d.bytes
             r == read(files, fd, FnameLen)
             L == Len(disk.dentries)
  <1>1. /\ running /\ prog.name = "ls" /\ prog.at = "entry" /\ DOMAIN prog = Fields
        /\ disk \in Disks /\ TableOK(disk, files) /\ files \in [Fds -> FileRecs]
    BY DEF LsRead, At, ProgInv, FsInv, TableOK
  <1>2. /\ fd \in Fds /\ files[fd].live /\ files[fd].ftype = DIR
        /\ k <= L /\ prog.out = FlattenSeq(Lines(disk, k))
    BY <1>1 DEF LsInv
  <1>3. k \in Nat /\ L \in Nat /\ FnameLen \in Nat /\ DOMAIN disk.dentries = 1 .. L
    BY <1>1, <1>2, SyscallsAssumption DEF FileRecs
  <1>4. r.files = [files EXCEPT ![fd] = At_pos(files[fd], k + 1)]
    <2>1. /\ disk \in Disks /\ TableOK(disk, files) /\ fd \in Fds /\ files[fd].live
          /\ files[fd].ftype = DIR /\ FnameLen \in Nat
      BY <1>1, <1>2, <1>3
    <2> HIDE DEF fd
    <2> QED
      BY <2>1, ReadDir
  <1>5. r.bytes = b /\ r.ret = Len(b)
    <2>1. r = [files |-> MoveBy(files, fd, 1), ret |-> Len(b), bytes |-> b,
               stored |-> d.stored]
      BY <1>2, ReadRange, Zenon DEF dir_read, MoveBy
    <2> HIDE DEF r, b
    <2> QED
      BY <2>1
  <1>6. /\ k < L => k + 1 \in DOMAIN disk.dentries /\ b = disk.dentries[k + 1].fname
                    /\ Len(disk.dentries[k + 1].fname) >= 1
        /\ k >= L => b = <<>>
    BY <1>1, <1>3, WholeName
  <1> HIDE DEF r, b
  <1>7. CASE r.ret = 0 /\ Exit(0)
    <2>1. k = L
      <3>1. ASSUME k < L PROVE FALSE
        <4>1. Len(b) >= 1
          BY <1>6, <3>1, Zenon
        <4>2. Len(b) = 0
          BY <1>5, <1>7
        <4> QED
          BY <4>1, <4>2
      <3> QED
        BY <1>2, <1>3, <3>1
    <2>2. /\ disk' = disk /\ prog'.out = prog.out /\ running' = FALSE /\ retval' = RetVal(0)
      BY <1>1, <1>7, ExitName
    <2>3. RetVal(0) = 0
      BY DEF RetVal
    <2>4. Lines(disk, L) = [j \in DOMAIN disk.dentries |-> Append(disk.dentries[j].fname, NL)]
      BY <1>3 DEF Lines
    <2>5. LsListsAll'
      BY <1>2, <2>1, <2>2, <2>3, <2>4, Zenon DEF LsListsAll
    <2> QED
      BY <2>2, <2>5 DEF LsInv
  <1>8. CASE r.ret # 0 /\ DoRead(fd, FnameLen, r)
             /\ prog' = [prog EXCEPT !.out = @ \o Append(r.bytes, NL)]
    <2>1. k < L
      <3>1. ASSUME k >= L PROVE FALSE
        <4>1. Len(b) = 0
          BY <1>6, <3>1
        <4> QED
          BY <1>5, <1>8, <4>1
      <3> QED
        BY <1>3, <3>1
    <2> DEFINE o == prog.out \o Line(disk, k + 1)
    <2>2. r.bytes = disk.dentries[k + 1].fname
      BY <1>5, <1>6, <2>1
    <2>3. prog' = [prog EXCEPT !.out = o]
      BY <1>8, <2>2, Zenon DEF Line
    <2>4. o = FlattenSeq(Lines(disk, k + 1))
      <3> DEFINE V == NameChars(disk, k + 1) \cup {NL}
      <3>1. disk.dentries[k + 1].fname \in Seq(NameChars(disk, k + 1))
        BY <1>1, <1>6, <2>1, CstringSeq
      <3>2. disk.dentries[k + 1].fname \in Seq(V) /\ NL \in V
        BY <3>1, SeqMonotonic
      <3> HIDE DEF V
      <3>3. Line(disk, k + 1) \in Seq(V)
        BY <3>2, AppendProperties DEF Line
      <3>4. FlattenSeq(Lines(disk, k + 1)) = FlattenSeq(Lines(disk, k)) \o Line(disk, k + 1)
        BY <1>3, <3>3, ListingStep
      <3> QED
        BY <1>2, <3>4, Zenon
    <2>5. /\ disk' = disk /\ running' = running
          /\ files' = [files EXCEPT ![fd] = At_pos(files[fd], k + 1)]
      BY <1>4, <1>8 DEF DoRead
    <2>6. /\ files'[fd] = At_pos(files[fd], k + 1)
      BY <1>1, <1>2, <2>5
    <2>7. files'[fd].pos = k + 1 /\ files'[fd].live /\ files'[fd].ftype = DIR
      BY <1>2, <2>6 DEF At_pos
    <2> HIDE DEF o
    <2>8. prog'.name = "ls" /\ prog'.at = "entry" /\ prog'.dir = fd /\ prog'.out = o
      BY <1>1, <2>3 DEF Fields
    <2>9. k + 1 <= L
      BY <1>3, <2>1
    <2>10. LsInv'
      BY <1>2, <2>4, <2>5, <2>7, <2>8, <2>9, Zenon DEF LsInv
    <2>11. LsListsAll'
      BY <1>1, <2>5 DEF LsListsAll, Ended
    <2> QED
      BY <2>10, <2>11
  <1> QED
    BY <1>7, <1>8 DEF LsRead, Continue, r

LEMMA LsStep ==
    ASSUME DistinctNames, DotListed, ProgInv, LsInv, LsListsAll, [ProgramsNext]_allVars
    PROVE  LsInv' /\ LsListsAll'
  <1>1. DOMAIN prog = Fields
    BY DEF ProgInv
  <1>2. ASSUME prog'.name # "ls" PROVE LsInv' /\ LsListsAll'
    BY <1>2 DEF LsInv, LsListsAll, Ended
  <1>3. CASE UNCHANGED <<vars, prog>>
    <2>1. /\ disk' = disk /\ files' = files /\ running' = running
          /\ retval' = retval /\ prog' = prog
      BY <1>3 DEF vars
    <2>2. LsInv'
      BY <2>1, Zenon DEF LsInv, NoneLive
    <2>3. LsListsAll'
      BY <2>1, Zenon DEF LsListsAll, Ended
    <2> QED
      BY <2>2, <2>3
  <1>4. ASSUME NEW line \in Commands, Shell(line) PROVE LsInv' /\ LsListsAll'
    <2> DEFINE p == parse_arg(line)
    <2>1. ASSUME NEW n, Execute, prog' = [NoProgram EXCEPT !.name = n, !.arg = p.arg]
          PROVE  LsInv' /\ LsListsAll'
      <3>1. /\ files' = [f \in Fds |-> Unused] /\ running' = TRUE
        BY <2>1 DEF Execute
      <3> HIDE DEF p
      <3>2. prog'.at = "start" /\ prog'.out = <<>>
        BY <2>1 DEF NoProgram
      <3>3. (\A f \in Fds : ~files[f].live)'
        BY <3>1, UnusedRec
      <3>4. LsInv'
        BY <3>1, <3>2, <3>3 DEF LsInv, NoneLive
      <3> QED
        BY <3>1, <3>4 DEF LsListsAll, Ended
    <2> QED
      BY <1>3, <1>4, <2>1, ShellDoes
  <1>5. CASE prog.name = "ls" /\ (OpenDirectory \/ LsRead)
    BY <1>5, LsOpenLists, LsReadLists
  <1>6. CASE prog.name = "cat" /\ (CatOpen \/ CatRead)
    BY <1>1, <1>2, <1>6, CatName
  <1>7. CASE prog.name = "grep" /\ OpenDirectory
    BY <1>1, <1>2, <1>7, DirectoryName
  <1>8. CASE prog.name = "grep" /\ GrepStep
    BY <1>1, <1>2, <1>8, GrepName
  <1>9. CASE prog.name = "syserr" /\ SyserrStep
    BY <1>1, <1>2, <1>9, SyserrName
  <1>10. CASE prog.name = "any" /\ AnyStep
    BY <1>1, <1>2, <1>10, AnyName
  <1>11. CASE UNCHANGED allVars
    BY <1>3, <1>11 DEF allVars, progVars
  <1> QED
    BY <1>4, <1>5, <1>6, <1>7, <1>8, <1>9, <1>10, <1>11, WhoSteps

(* ls prints the name of every entry, in order and each on a line, for      *)
(* every disk that lists its directory once.                                *)
THEOREM LsListsAllHolds ==
    ASSUME DistinctNames, DotListed
    PROVE  ProgramsSpec => []LsListsAll
  <1>1. ProgramsInit => LsInv /\ LsListsAll
    BY DEF ProgramsInit, NoProgram, LsInv, LsListsAll, Ended
  <1>2. ProgInv /\ LsInv /\ LsListsAll /\ [ProgramsNext]_allVars => (LsInv /\ LsListsAll)'
    BY LsStep
  <1> QED
    BY <1>1, <1>2, ProgInit, ProgStep, PTL DEF ProgramsSpec

-----------------------------------------------------------------------------
(* syserr *)

LEMMA BadFd ==
    ASSUME NEW t, NEW fd \in Int, fd < 0 \/ fd >= FileArrayLen
    PROVE  err_fd(t, fd).fail = 0
  <1>1. fd # 1
    BY SyscallsAssumption
  <1>2. read(t, fd, 31) = Refused(t)
    BY <1>1, Zenon DEF read
  <1>3. close(t, fd) = Refused(t)
    <2>1. fd < 2 \/ fd >= FileArrayLen
      OBVIOUS
    <2> QED
      BY <2>1, Zenon DEF close
  <1>4. write(t, fd, 31) = -1
    BY <1>1 DEF write
  <1>5. Refused(t).ret = -1
    BY DEF Refused
  <1> QED
    BY <1>2, <1>3, <1>4, <1>5 DEF err_fd, Test

(* A name that no entry has is refused, and so is one when all descriptors  *)
(* are taken.                                                               *)
LEMMA OpenRefused ==
    ASSUME disk \in Disks, NEW t, t \in [Fds -> FileRecs], NEW S, NEW name \in Seq(S),
           \A i \in DOMAIN disk.dentries : Cstring(disk.dentries[i]) # name
    PROVE  open(t, name).ret = -1
  <1>1. read_dentry_by_name(name) = 0
    BY NameFound, NameIs
  <1>2. open(t, name) = Refused(t)
    BY <1>1, OpenExact
  <1> QED
    BY <1>2 DEF Refused

LEMMA OpenTestPasses ==
    ASSUME NoNearNames, disk \in Disks, NEW t, t \in [Fds -> FileRecs]
    PROVE  err_open(t).fail = 0
  <1> DEFINE name == disk.dentries[2].fname
             V == NameChars(disk, 2) \cup {"o"}
  <1>1. 2 \in DOMAIN disk.dentries
    BY SyscallsAssumption DEF NoNearNames
  <1>2. name \in Seq(NameChars(disk, 2)) /\ Len(name) \in Nat /\ Len(name) >= 1
    BY <1>1, CstringSeq
  <1>3. name \in Seq(V) /\ "o" \in V
    BY <1>2, SeqMonotonic
  <1>4. \A i \in DOMAIN disk.dentries :
          Cstring(disk.dentries[i]) # Append(name, "o") /\ Cstring(disk.dentries[i]) # Front(name)
    BY DEF NoNearNames
  <1> HIDE DEF name, V
  <1>5. Append(name, "o") \in Seq(V)
    BY <1>3, AppendProperties
  <1>6. Front(name) \in Seq(V)
    <2>1. \A i \in 1 .. Len(name) - 1 : name[i] \in V
      BY <1>2, <1>3, ElementOfSeq
    <2> QED
      BY <1>2, <2>1, SubSeqProperties DEF Front
  <1>7. \A i \in DOMAIN disk.dentries : Cstring(disk.dentries[i]) # <<>>
    <2> SUFFICES ASSUME NEW i \in DOMAIN disk.dentries PROVE Cstring(disk.dentries[i]) # <<>>
      OBVIOUS
    <2> DEFINE n == disk.dentries[i].fname
               s == Cstring(disk.dentries[i])
    <2>1. /\ Len(n) \in 1 .. FnameLen /\ FnameLen \in Nat
          /\ Len(n) < FnameLen => s = n
          /\ Len(n) = FnameLen => Len(s) >= FnameLen
      BY CstringSeq, SyscallsAssumption
    <2> HIDE DEF n, s
    <2>2. Len(s) # 0
      BY <2>1
    <2> QED
      BY <2>2 DEF s
  <1>8. open(t, Append(name, "o")).ret = -1
    BY <1>4, <1>5, OpenRefused
  <1>9. open(t, Front(name)).ret = -1
    BY <1>4, <1>6, OpenRefused
  <1>10. open(t, <<>>).ret = -1
    <2>1. <<>> \in Seq(V)
      OBVIOUS
    <2> QED
      BY <1>7, <2>1, OpenRefused
  <1> QED
    BY <1>8, <1>9, <1>10, Zenon DEF err_open, Test, name

LEMMA UnopenedPasses ==
    ASSUME NEW t, \A f \in Fds : ~t[f].live
    PROVE  err_unopened(t).fail = 0
  <1>0. Refused(t).ret = -1
    BY DEF Refused
  <1>1. ASSUME NEW fd \in 0 .. FileArrayLen - 1 PROVE close(t, fd).ret = -1
    <2>1. fd < 2 \/ (fd \in Fds /\ ~t[fd].live)
      BY SyscallsAssumption DEF Fds
    <2>2. close(t, fd) = Refused(t)
      BY <2>1, Zenon DEF close
    <2> QED
      BY <1>0, <2>2
  <1>2. ASSUME NEW fd \in Fds PROVE read(t, fd, 31).ret = -1 /\ write(t, fd, 31) = -1
    <2>1. read(t, fd, 31) = Refused(t)
      BY Zenon DEF read
    <2>2. fd # 1
      BY SyscallsAssumption DEF Fds
    <2> QED
      BY <1>0, <2>1, <2>2 DEF write
  <1> QED
    BY <1>1, <1>2, Zenon DEF err_unopened, Test

LEMMA OtherTestsPass ==
    ASSUME NEW t
    PROVE  err_vidmap(t).fail = 0 /\ err_stdin_out(t).fail = 0 /\ err_syscall_num(t).fail = 0
  <1>1. vidmap(0) = -1 /\ vidmap(4194304) = -1
    BY DEF vidmap, PROG_VM_START, SPACE_4MB
  <1>2. write(t, 0, 31) = -1
    BY DEF write
  <1>3. read(t, 1, 31).ret = -1
    <2>1. read(t, 1, 31) = Refused(t)
      BY Zenon DEF read
    <2> QED
      BY <2>1 DEF Refused
  <1>4. \A num \in {BIG_FD, NEG_FD, 0} : handle_syscall(num) = -1
    BY DEF handle_syscall, BIG_FD, NEG_FD
  <1>5. err_vidmap(t).fail = 0
    BY <1>1 DEF err_vidmap, Test
  <1>6. err_stdin_out(t).fail = 0
    BY <1>2, <1>3 DEF err_stdin_out, Test
  <1>7. err_syscall_num(t).fail = 0
    BY <1>4 DEF err_syscall_num, Test
  <1> QED
    BY <1>5, <1>6, <1>7

(* Descriptors are taken in order; when all are taken, open fails. *)
LEMMA OneMore ==
    ASSUME DotListed, disk \in Disks, NEW t, TableOK(disk, t), NEW k \in Nat,
           \A f \in Fds : t[f].live <=> f < k
    PROVE  /\ k \in Fds => /\ open(t, Dot).ret = k
                           /\ \A f \in Fds : open(t, Dot).files[f].live <=> f < k + 1
           /\ k = FileArrayLen => open(t, Dot).ret = -1
  <1> DEFINE free == {f \in Fds : ~t[f].live}
             fd == Min(free)
             i == read_dentry_by_name(Dot)
             o == Opened(disk.dentries[i], t[fd])
             r == open(t, Dot)
  <1>1. t \in [Fds -> FileRecs] /\ \A f \in Fds : f \in Nat /\ f < FileArrayLen
    BY SyscallsAssumption DEF TableOK, Fds
  <1>2. i # 0
    BY DotFound
  <1>3. CASE k \in Fds
    <2>1. free # {} /\ ~t[k].live
      BY <1>1, <1>3
    <2>2. /\ fd \in Fds /\ ~t[fd].live
          /\ \A f \in Fds : ~t[f].live => fd <= f
          /\ r = [files |-> [t EXCEPT ![fd] = o], ret |-> fd, bytes |-> <<>>, stored |-> 0]
      BY <1>1, <1>2, <2>1, OpenExact
    <2>3. r.files = [t EXCEPT ![fd] = o] /\ r.ret = fd
      BY <2>2
    <2>4. o.live = TRUE
      BY DEF Opened
    <2> HIDE DEF fd, o, r, free, i
    <2>5. fd = k
      BY <1>1, <1>3, <2>1, <2>2
    <2>6. \A f \in Fds : r.files[f] = IF f = k THEN o ELSE t[f]
      BY <1>1, <1>3, <2>3, <2>5
    <2>7. ASSUME NEW f \in Fds PROVE r.files[f].live <=> f < k + 1
      <3>1. f < k + 1 <=> f = k \/ f < k
        BY <1>1
      <3> QED
        BY <2>4, <2>6, <3>1
    <2>8. k # FileArrayLen
      BY <1>1, <1>3, SyscallsAssumption
    <2> QED
      BY <2>3, <2>5, <2>7, <2>8 DEF r
  <1>4. CASE k = FileArrayLen
    <2>1. free = {}
      BY <1>1, <1>4
    <2>2. r = Refused(t)
      BY <1>1, <2>1, OpenExact
    <2>3. r.ret = -1
      BY <2>2 DEF Refused
    <2>4. k \notin Fds
      BY <1>4, SyscallsAssumption DEF Fds
    <2> QED
      BY <2>3, <2>4
  <1> QED
    BY <1>3, <1>4

LEMMA OpenLotsPasses ==
    ASSUME DotListed, disk \in Disks, NEW t, TableOK(disk, t), \A f \in Fds : ~t[f].live
    PROVE  err_open_lots(t).fail = 0
  <1> DEFINE N == FileArrayLen - 1
             a == [files |-> t, cnt |-> 0]
             opened[i \in 0 .. N] == IF i = 0 THEN a ELSE LotsOpen(opened[i - 1])
             b == opened[N].files
             closed[i \in 1 .. N] == IF i = 1 THEN b ELSE close(closed[i - 1], i).files
             EO(f) == f = [i \in 0 .. N |-> IF i = 0 THEN a ELSE LotsOpen(f[i - 1])]
  <1>1. N \in Nat /\ N >= 2 /\ Fds = 2 .. N /\ FileArrayLen = N + 1
    BY SyscallsAssumption DEF Fds
  <1>2. err_open_lots(t) = Test(closed[N], opened[N].cnt = 1)
    BY Zenon DEF err_open_lots, LotsOpen
  <1> HIDE DEF closed
  <1>3. EO(opened)
    <2>1. \E f : EO(f)
      BY <1>1, OpenedExists
    <2>2. opened = CHOOSE f : EO(f)
      BY Zenon
    <2> HIDE DEF EO, opened
    <2> QED
      BY <2>1, <2>2, Zenon
  <1> HIDE DEF opened
  <1>4. opened[0] = a /\ \A i \in 1 .. N : opened[i] = LotsOpen(opened[i - 1])
    BY <1>1, <1>3
  <1> HIDE DEF N, EO
  <1>5. ASSUME NEW i \in 1 .. N, NEW k \in Nat, TableOK(disk, opened[i - 1].files),
               opened[i - 1].cnt = 0, k = i + 1,
               \A f \in Fds : opened[i - 1].files[f].live <=> f < k
        PROVE  /\ i < N => /\ TableOK(disk, opened[i].files) /\ opened[i].cnt = 0
                           /\ \A f \in Fds : opened[i].files[f].live <=> f < k + 1
               /\ i = N => opened[i].cnt = 1
    <2> DEFINE s == opened[i - 1]
               r == open(s.files, Dot)
    <2>1. opened[i].files = r.files /\ opened[i].cnt = 0 + IF r.ret = -1 THEN 1 ELSE 0
      <3>1. opened[i] = LotsOpen(s)
        BY <1>4
      <3>2. s.cnt = 0
        BY <1>5
      <3> HIDE DEF s
      <3> QED
        BY <3>1, <3>2 DEF LotsOpen
    <2>2. TableOK(disk, r.files)
      BY <1>5, OpenKeepsTable
    <2>3. /\ k \in Fds => r.ret = k /\ \A f \in Fds : r.files[f].live <=> f < k + 1
          /\ k = FileArrayLen => r.ret = -1
      BY <1>5, OneMore
    <2> HIDE DEF r
    <2>4. CASE i < N
      <3>1. k \in Fds /\ k # -1
        BY <1>1, <1>5, <2>4
      <3> QED
        BY <2>1, <2>2, <2>3, <2>4, <3>1
    <2>5. CASE i = N
      BY <1>1, <1>5, <2>1, <2>3, <2>5
    <2> QED
      BY <1>1, <2>4, <2>5
  <1>6. /\ TableOK(disk, opened[N - 1].files) /\ opened[N - 1].cnt = 0
        /\ \A f \in Fds : opened[N - 1].files[f].live <=> f < (N - 1) + 2
    <2> DEFINE T == {i \in Nat : i < N => /\ TableOK(disk, opened[i].files) /\ opened[i].cnt = 0
                                          /\ \A f \in Fds : opened[i].files[f].live <=> f < i + 2}
    <2>1. 0 \in T
      <3>1. \A f \in Fds : ~(f < 0 + 2)
        BY <1>1
      <3> QED
        BY <1>1, <1>4, <3>1
    <2>2. ASSUME NEW i \in Nat, i \in T PROVE i + 1 \in T
      <3> SUFFICES ASSUME i + 1 < N
                   PROVE  /\ TableOK(disk, opened[i + 1].files) /\ opened[i + 1].cnt = 0
                          /\ \A f \in Fds : opened[i + 1].files[f].live <=> f < (i + 1) + 2
        OBVIOUS
      <3> DEFINE j == i + 1
                 k == i + 2
      <3>1. j \in 1 .. N /\ j - 1 = i /\ k \in Nat /\ k = j + 1 /\ i < N /\ k + 1 = (i + 1) + 2
        BY <1>1
      <3>2. /\ TableOK(disk, opened[i].files) /\ opened[i].cnt = 0
            /\ \A f \in Fds : opened[i].files[f].live <=> f < k
        BY <2>2, <3>1
      <3>3. /\ TableOK(disk, opened[j].files) /\ opened[j].cnt = 0
            /\ \A f \in Fds : opened[j].files[f].live <=> f < k + 1
        BY <1>5, <3>1, <3>2
      <3> QED
        BY <3>1, <3>3
    <2> HIDE DEF T
    <2>3. N - 1 \in T
      BY <1>1, <2>1, <2>2, NatInduct
    <2>4. N - 1 < N
      BY <1>1
    <2> QED
      BY <2>3, <2>4 DEF T
  <1>7. opened[N].cnt = 1
    <2>1. N \in 1 .. N /\ N + 1 \in Nat /\ (N - 1) + 2 = N + 1
      BY <1>1
    <2> QED
      BY <1>5, <1>6, <2>1
  <1> QED
    BY <1>2, <1>7 DEF Test

LEMMA TestPasses ==
    ASSUME DotListed, NoNearNames, FileArrayLen <= BIG_FD, disk \in Disks, NEW t,
           TableOK(disk, t), \A f \in Fds : ~t[f].live, NEW k \in 1 .. 8
    PROVE  RunTest(k, t).fail = 0
  <1>1. t \in [Fds -> FileRecs]
    BY DEF TableOK
  <1>2. CASE k = 1
    <2>1. RunTest(k, t) = err_fd(t, NEG_FD)
      BY <1>2 DEF RunTest, err_neg_fd
    <2>2. NEG_FD \in Int /\ NEG_FD < 0
      BY DEF NEG_FD
    <2> QED
      BY <2>1, <2>2, BadFd
  <1>3. CASE k = 2
    <2>1. RunTest(k, t) = err_fd(t, BIG_FD)
      BY <1>3 DEF RunTest, err_big_fd
    <2>2. BIG_FD \in Int /\ BIG_FD >= FileArrayLen
      BY SyscallsAssumption DEF BIG_FD
    <2> QED
      BY <2>1, <2>2, BadFd
  <1>4. CASE k = 3
    BY <1>4, OpenLotsPasses DEF RunTest
  <1>5. CASE k = 4
    BY <1>1, <1>5, OpenTestPasses DEF RunTest
  <1>6. CASE k = 5
    BY <1>6, UnopenedPasses DEF RunTest
  <1>7. CASE k \in {6, 7, 8}
    BY <1>7, OtherTestsPass DEF RunTest
  <1> QED
    BY <1>2, <1>3, <1>4, <1>5, <1>6, <1>7

LEMMA PassesStep ==
    ASSUME DotListed, NoNearNames, FileArrayLen <= BIG_FD, ProgInv, SyserrPasses,
           [ProgramsNext]_allVars
    PROVE  SyserrPasses'
  <1>1. DOMAIN prog = Fields /\ FsInv /\ disk \in Disks /\ TableOK(disk, files)
    BY DEF ProgInv, FsInv
  <1>2. ASSUME prog'.fail = prog.fail PROVE SyserrPasses'
    BY <1>2 DEF SyserrPasses
  <1>3. ASSUME NEW line, Shell(line) PROVE SyserrPasses'
    <2> DEFINE p == parse_arg(line)
    <2>1. ASSUME NEW n, prog' = [NoProgram EXCEPT !.name = n, !.arg = p.arg]
          PROVE  SyserrPasses'
      <3> HIDE DEF p
      <3> QED
        BY <2>1 DEF NoProgram, SyserrPasses
    <2> QED
      BY <1>2, <1>3, <2>1, ShellDoes
  <1>4. CASE SyserrSelect
    <2>1. \E todo : prog' = [prog EXCEPT !.at = "test", !.todo = todo]
      BY <1>4, Zenon DEF SyserrSelect, Continue
    <2> QED
      BY <1>1, <1>2, <2>1 DEF Fields
  <1>5. CASE SyserrTest
    <2> DEFINE k == Head(prog.todo)
               r == RunTest(k, files)
               todo == Tail(prog.todo)
               fail == prog.fail + r.fail
    <2>1. /\ running /\ prog.name = "syserr" /\ prog.at = "test" /\ prog.todo # <<>>
          /\ prog' = [prog EXCEPT !.todo = todo, !.fail = fail]
      BY <1>5 DEF SyserrTest, At, Continue
    <2>2. prog.todo \in Seq(1 .. 8) /\ \A f \in Fds : ~files[f].live
      BY <2>1 DEF ProgInv, Labels, SyserrLabels
    <2>3. k \in 1 .. 8
      BY <2>1, <2>2
    <2>4. r.fail = 0
      BY <1>1, <2>2, <2>3, TestPasses
    <2>5. fail = 0
      BY <2>4 DEF SyserrPasses
    <2> HIDE DEF fail, todo
    <2> QED
      BY <1>1, <2>1, <2>5 DEF SyserrPasses, Fields
  <1>6. CASE SyserrExit
    BY <1>1, <1>2, <1>6, ExitName DEF SyserrExit
  <1>7. CASE CatOpen \/ CatRead
    BY <1>1, <1>2, <1>7, CatName
  <1>8. CASE OpenDirectory \/ LsRead
    BY <1>1, <1>2, <1>8, DirectoryName
  <1>9. CASE GrepStep
    BY <1>1, <1>2, <1>9, GrepName
  <1>10. CASE AnyStep
    BY <1>1, <1>2, <1>10, AnyName
  <1>11. CASE UNCHANGED allVars
    BY <1>2, <1>11 DEF allVars, progVars
  <1> QED
    BY <1>3, <1>4, <1>5, <1>6, <1>7, <1>8, <1>9, <1>10, <1>11, WhoSteps DEF SyserrStep

(* Every test of ece391syserr passes, for every number of descriptors and   *)
(* whatever programs of the disk ran in the slot before it and whichever    *)
(* descriptors they left open.                                              *)
THEOREM SyserrPassesHolds ==
    ASSUME DotListed, NoNearNames, FileArrayLen <= BIG_FD
    PROVE  ProgramsSpec => []SyserrPasses
  <1>1. ProgramsInit => SyserrPasses
    BY DEF ProgramsInit, NoProgram, SyserrPasses
  <1>2. ProgInv /\ SyserrPasses /\ [ProgramsNext]_allVars => SyserrPasses'
    BY PassesStep
  <1> QED
    BY <1>1, <1>2, ProgInit, ProgStep, PTL DEF ProgramsSpec

=============================================================================
