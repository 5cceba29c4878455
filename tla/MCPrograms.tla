----------------------------- MODULE MCPrograms -----------------------------
(***************************************************************************)
(* Programs for TLC.  Disks have blocks of two bytes, neither in order nor *)
(* adjacent.  The first disk has all five programs, x being the arbitrary  *)
(* one, so that each runs after each; its file ab ends inside a block and  *)
(* abba, whose name fills its field, at the end of one; the directory and  *)
(* the RTC have the inode number of x.  The other disks are for grep:      *)
(* their file t is every text of up to three bytes, or of four with only   *)
(* one letter, or of five that take three reads, with lines that fit       *)
(* grep's buffer or not, or has a NUL.                                     *)
(***************************************************************************)
EXTENDS Programs

Entry(name, type, node) == [fname |-> name, ftype |-> type, inode |-> node]

(* The text of inode f is texts[f + 1]; its block b has number F * (2-b) + f. *)
Image(entries, texts, programs) ==
    LET F == Len(texts)
    IN  [dentries |-> entries,
         inodes |-> [f \in 0 .. F - 1 |->
                        [length |-> Len(texts[f + 1]),
                         data_block |-> [b \in 0 .. 2 |-> F * (2 - b) + f]]],
         blocks |-> [n \in 0 .. 3 * F - 1 |->
                        LET text == texts[(n % F) + 1]
                            b    == 2 - (n \div F)
                        IN  [i \in 0 .. 1 |-> IF 2 * b + i < Len(text)
                                              THEN text[2 * b + i + 1] ELSE "?"]],
         image |-> programs]

Base ==
    Image(<<Entry(Dot, DIR, 0), Entry(<<"a", "b">>, FILE, 1), Entry(<<"x">>, FILE, 0),
            Entry(<<"r">>, RTC, 0), Entry(<<"a", "b", "b", "a">>, FILE, 2),
            Entry(<<"c">>, FILE, 3), Entry(<<"l">>, FILE, 4), Entry(<<"g">>, FILE, 5),
            Entry(<<"s">>, FILE, 6)>>,
          <<<<"a", NUL, "a">>, <<"c", "a", NL, "b", "d">>, <<"e", "f", NL, "g">>,
            <<"a">>, <<"a">>, <<"a">>, <<"a">>>>,
          [i \in {0, 3, 4, 5, 6} |-> CASE i = 0 -> "any" [] i = 3 -> "cat" [] i = 4 -> "ls"
                                       [] i = 5 -> "grep" [] i = 6 -> "syserr"])

ForGrep(text) ==
    Image(<<Entry(Dot, DIR, 0), Entry(<<"t">>, FILE, 1), Entry(<<"r">>, RTC, 0),
            Entry(<<"g">>, FILE, 0)>>,
          <<<<"a", NUL, "b">>, text>>, [i \in {0} |-> "grep"])

LongTexts ==
    {<<NL, "a", "b", NL, "b">>, <<"a", NL, "b", NL, "a">>, <<"b", NUL, "a", NL, "a">>,
     <<"a", "b", "a", "b", "a">>}

MCDisks ==
    {Base} \cup {ForGrep(t) : t \in SeqOf({"a", "b", NL}, 3) \cup SeqOf({"a", NL}, 4)
                                     \cup LongTexts}

MCCommands ==
    {<<>>, ExitCommand, <<".">>, <<"y">>, <<"x">>, <<"l">>, <<"s">>, <<"g">>,
     <<"g", Space, "a">>, <<"g", Space, Space, "a", "b">>,
     <<"c", Space, "a">>, <<"c", Space, Space, "a", "b">>, <<"c", Space, "r">>,
     <<"c", Space, ".">>, <<"c", Space, "a", "b", "b", "a">>}

MCOddNames == {<<"a">>, <<"a", "b", "b", "a", "^B">>}

(* These disks and commands are as the theorems on cat, ls and syserr want. *)
ASSUME MCAssumption == DistinctNames /\ DotListed /\ PlainArguments /\ NoNearNames
=============================================================================
