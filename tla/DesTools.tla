------------------------------ MODULE DesTools ------------------------------
(***************************************************************************)
(* The two programs that try out the DES library: ftest, which sets it      *)
(* against the library of UNIX, and fdemo, which has options to encrypt or  *)
(* decrypt.  What is modelled is all they add to the cipher: reading hex    *)
(* words into blocks, the bits that the UNIX functions work on, printing,   *)
(* and the order in which options and data set and use the keys.            *)
(*                                                                          *)
(* The cipher itself is not in the repository: it is any pair of functions  *)
(* of which the second undoes the first, in one block size.  A block has    *)
(* 2 * Half bytes (Half is 4 in the code) and a byte two hex digits of Bits *)
(* bits (4 in the code).                                                    *)
(***************************************************************************)
EXTENDS Integers, Sequences

CONSTANTS
    Half,          \* bytes up to the 32-bit point
    Bits,          \* bits of a digit
    Encrypt(_, _), \* the cipher, by key and block
    Decrypt(_, _),
    Words,         \* hex words given as arguments
    Options,       \* options given as arguments
    Demos,         \* the table demos[]
    MaxArgs,       \* bound: number of arguments
    Garbage        \* blocks that memory may hold before it is set

Bytes == 2 * Half
Radix == 2 ^ Bits
Digits == 0..Radix - 1
Block == [0..Bytes - 1 -> 0..Radix * Radix - 1]

ASSUME DesAssumption ==
    /\ {Half, Bits, MaxArgs} \subseteq Nat \ {0}
    /\ Garbage \subseteq Block
    /\ \A k, b \in Block : Decrypt(k, Encrypt(k, b)) = b

\* The characters of a word that are not digits: the point, and the x of 0x.
Dot == -1
X == -2

VARIABLES
    tool,     \* which program
    argv,     \* its arguments, argv[1] first
    i,        \* the next one
    key, KS, libkey,     \* key, key schedule and the key that UNIX was given
    olddata, newdata, bdata,
    decrypt, first,
    row,      \* what was printed for the last argument (history)
    status    \* "start", "loop", "usage" or "exit"

vars == <<tool, argv, i, key, KS, libkey, olddata, newdata, bdata,
          decrypt, first, row, status>>

-----------------------------------------------------------------------------
(* Words, blocks and bits *)

IsDigit(s) == s # << >> /\ Head(s) \in Digits
DigitOf(s) == IF IsDigit(s) THEN Head(s) ELSE 0
Past(s) == IF IsDigit(s) THEN Tail(s) ELSE s

WithoutPrefix(s) ==
    IF Len(s) >= 2 /\ s[1] = 0 /\ s[2] = X THEN SubSeq(s, 3, Len(s)) ELSE s

AtDot(s) == s # << >> /\ Head(s) = Dot

\* The byte that the next two digits of s make; a missing digit is 0.
ByteOf(s) == Radix * DigitOf(s) + DigitOf(Past(s))

\* getv() of ftest, from byte n on: a point anywhere goes on at the middle.
RECURSIVE GetvTest(_, _, _)
GetvTest(s, n, v) ==
    IF n >= Bytes THEN v
    ELSE LET rest == Past(Past(s))
             set  == [v EXCEPT ![n] = ByteOf(s)]
         IN  IF AtDot(rest) THEN GetvTest(Tail(rest), Half, set)
                            ELSE GetvTest(rest, n + 1, set)

\* getv() of fdemo: a point is passed over in the middle only.
RECURSIVE GetvDemo(_, _, _)
GetvDemo(s, n, v) ==
    IF n >= Bytes THEN v
    ELSE LET rest == Past(Past(s))
             set  == [v EXCEPT ![n] = ByteOf(s)]
         IN  GetvDemo(IF AtDot(rest) /\ n = Half - 1 THEN Tail(rest) ELSE rest,
                      n + 1, set)

\* A word is read over what the block held.
getv(s, v) == IF tool = "ftest" THEN GetvTest(WithoutPrefix(s), 0, v)
                                ELSE GetvDemo(WithoutPrefix(s), 0, v)

\* One element per bit, the highest bit of a byte first.
expand(v) ==
    [n \in 0..2 * Bits * Bytes - 1 |->
        (v[n \div (2 * Bits)] \div (2 ^ (2 * Bits - 1 - (n % (2 * Bits))))) % 2]

\* The digits that are printed for bits, and for a block.
RECURSIVE BitsValue(_, _, _)
BitsValue(bits, from, n) ==
    IF n = 0 THEN 0
    ELSE 2 * BitsValue(bits, from, n - 1) + bits[from + n - 1]

bprint(bits) ==
    [d \in 1..2 * Bytes |-> BitsValue(bits, (d - 1) * Bits, Bits)]

wprint(v) ==
    [d \in 1..2 * Bytes |-> LET byte == v[(d - 1) \div 2]
                            IN  IF d % 2 = 1 THEN byte \div Radix ELSE byte % Radix]

\* wprint() of fdemo puts the point in the middle.
wprintDot(v) == SubSeq(wprint(v), 1, Bytes) \o <<Dot>>
                \o SubSeq(wprint(v), Bytes + 1, 2 * Bytes)

-----------------------------------------------------------------------------
(* The libraries *)

\* fencrypt() of a block with a key schedule, which stands for its key.
fencrypt(v, flag, ks) == IF flag = 0 THEN Encrypt(ks, v) ELSE Decrypt(ks, v)

\* The block with these bits.
BlockOf(bits) ==
    [n \in 0..Bytes - 1 |-> BitsValue(bits, n * 2 * Bits, 2 * Bits)]

\* encrypt() of UNIX: the same cipher, on bits.
encrypt(bits, flag, keybits) ==
    expand(fencrypt(BlockOf(bits), flag, BlockOf(keybits)))

RECURSIVE Repeat(_, _, _)
Repeat(F(_), n, x) == IF n = 0 THEN x ELSE Repeat(F, n - 1, F(x))

-----------------------------------------------------------------------------
(* The programs *)

Args == [word : Words] \cup Options
IsOption(a) == "opt" \in DOMAIN a
Arg == argv[i]
NoRow == << >>

Init ==
    /\ tool \in {"ftest", "fdemo"}
    /\ argv \in UNION {[1..n -> Args] : n \in 0..MaxArgs}
    /\ i = 1
    /\ \E g \in Garbage : key = g /\ KS = g /\ olddata = g /\ newdata = g
                          /\ libkey = expand(g) /\ bdata = expand(g)
    /\ decrypt = 0
    /\ first = TRUE
    /\ row = NoRow
    /\ status = "start"

SameBlocks == UNCHANGED <<key, KS, libkey, olddata, newdata, bdata>>

usage == status' = "usage" /\ i' = i /\ row' = NoRow
         /\ SameBlocks /\ UNCHANGED <<tool, argv, decrypt, first>>

\* main() of ftest up to its loop: the first argument is the key of both.
TestStart ==
    /\ tool = "ftest" /\ status = "start"
    /\ IF argv = << >> \/ IsOption(argv[1])
       THEN usage
       ELSE /\ key' = getv(argv[1].word, key)
            /\ KS' = key'
            /\ libkey' = expand(key')
            /\ i' = 2 /\ status' = "loop"
            /\ UNCHANGED <<tool, argv, olddata, newdata, bdata, decrypt, first, row>>

DemoStart ==
    /\ tool = "fdemo" /\ status = "start"
    /\ IF argv = << >> THEN usage
       ELSE /\ status' = "loop"
            /\ SameBlocks /\ UNCHANGED <<tool, argv, i, decrypt, first, row>>

\* A data word, in ftest: encrypted and decrypted by both libraries.
TestData ==
    /\ tool = "ftest" /\ status = "loop"
    /\ i <= Len(argv) /\ ~IsOption(Arg)
    /\ olddata' = getv(Arg.word, olddata)
    /\ LET secret == fencrypt(olddata', 0, KS)
           bits   == expand(olddata')
           hidden == encrypt(bits, 0, libkey)
       IN  /\ newdata' = fencrypt(secret, 1, KS)
           /\ bdata' = encrypt(hidden, 1, libkey)
           /\ row' = [fastdes |-> <<wprint(olddata'), wprint(secret), wprint(newdata')>>,
                      UNIXdes |-> <<bprint(bits), bprint(hidden), bprint(bdata')>>]
    /\ i' = i + 1
    /\ UNCHANGED <<tool, argv, key, KS, libkey, decrypt, first, status>>

\* The argument after an option that takes a number, when it is not attached.
AfterOption == IF Arg.attached THEN i + 1 ELSE i + 2
NumberMissing == ~Arg.attached /\ i = Len(argv)

\* Fault: -K encrypts instead of setting the key again.
TestTimedMixesKeys(count) ==
    /\ newdata' = IF Arg.opt = "c"
                  THEN Repeat(LAMBDA v : fencrypt(v, 0, KS), count, newdata)
                  ELSE newdata
    /\ KS' = IF Arg.opt = "k" THEN key ELSE KS
    /\ bdata' = expand(olddata)
    /\ libkey' = IF Arg.opt = "K" THEN encrypt(libkey, 0, libkey) ELSE libkey

\* The timed operation of an option of ftest, executed count times.
TestTimed(count) ==
    /\ newdata' = IF Arg.opt = "c"
                  THEN Repeat(LAMBDA v : fencrypt(v, 0, KS), count, newdata)
                  ELSE newdata
    /\ KS' = IF Arg.opt = "k" THEN key ELSE KS
    /\ bdata' = IF Arg.opt = "C"
                THEN Repeat(LAMBDA b : encrypt(b, decrypt, libkey), count,
                            expand(olddata))
                ELSE expand(olddata)
    /\ libkey' = IF Arg.opt = "K" THEN expand(key) ELSE libkey

TestOption ==
    /\ tool = "ftest" /\ status = "loop"
    /\ i <= Len(argv) /\ IsOption(Arg)
    /\ IF NumberMissing \/ Arg.opt \notin {"c", "k", "C", "K"}
       THEN usage
       ELSE /\ \E count \in 1..2 : TestTimed(count)
            /\ i' = AfterOption
            /\ row' = NoRow
            /\ UNCHANGED <<tool, argv, key, olddata, decrypt, first, status>>

\* -e and -d, which hold for the data that follows.
DemoDirection ==
    /\ tool = "fdemo" /\ status = "loop"
    /\ i <= Len(argv) /\ IsOption(Arg) /\ Arg.opt \in {"e", "d"}
    /\ decrypt' = IF Arg.opt = "d" THEN 1 ELSE 0
    /\ i' = i + 1
    /\ row' = NoRow
    /\ SameBlocks /\ UNCHANGED <<tool, argv, first, status>>

\* fdemo(): one line for a row of the table, with a key schedule of its own.
DemoLine(demo, garbage) ==
    LET ks == getv(demo.key, garbage)
    IN  wprintDot(fencrypt(getv(demo.data, garbage), demo.decrypt, ks))

DemoTable ==
    /\ tool = "fdemo" /\ status = "loop"
    /\ i <= Len(argv) /\ IsOption(Arg) /\ Arg.opt = "demo"
    /\ \E g \in Garbage :
         row' = [demo |-> [n \in DOMAIN Demos |-> DemoLine(Demos[n], g)]]
    /\ i' = i + 1
    /\ SameBlocks /\ UNCHANGED <<tool, argv, decrypt, first, status>>

\* The timed options of fdemo: the key is set in any case, even before there
\* is one.
DemoTimed ==
    /\ tool = "fdemo" /\ status = "loop"
    /\ i <= Len(argv) /\ IsOption(Arg) /\ Arg.opt \notin {"e", "d", "demo"}
    /\ IF NumberMissing \/ Arg.opt \notin {"c", "k"}
       THEN usage
       ELSE /\ KS' = key
            /\ \E count \in 1..2 :
                 newdata' = IF Arg.opt = "c"
                            THEN Repeat(LAMBDA v : fencrypt(v, 0, key), count, newdata)
                            ELSE newdata
            /\ i' = AfterOption
            /\ row' = NoRow
            /\ UNCHANGED <<tool, argv, key, libkey, olddata, bdata, decrypt, first, status>>

\* Fault: the schedule is left to the timed options.
DemoKeyNoSchedule ==
    /\ tool = "fdemo" /\ status = "loop"
    /\ i <= Len(argv) /\ ~IsOption(Arg) /\ first /\ ~IsOption(argv[1])
    /\ key' = getv(argv[1].word, key)
    /\ KS' = KS
    /\ first' = FALSE
    /\ i' = i + 1
    /\ row' = NoRow
    /\ UNCHANGED <<tool, argv, libkey, olddata, newdata, bdata, decrypt, status>>

\* The first word makes the program read the key, from argv[1] wherever the
\* word itself stands; an option there has no digits and reads as a block of 0.
DemoKey ==
    /\ tool = "fdemo" /\ status = "loop"
    /\ i <= Len(argv) /\ ~IsOption(Arg) /\ first
    /\ key' = getv(IF IsOption(argv[1]) THEN << >> ELSE argv[1].word, key)
    /\ KS' = key'
    /\ first' = FALSE
    /\ i' = i + 1
    /\ row' = NoRow
    /\ UNCHANGED <<tool, argv, libkey, olddata, newdata, bdata, decrypt, status>>

\* Fault: after a word, encryption is the default again.
DemoDataForgets ==
    /\ tool = "fdemo" /\ status = "loop"
    /\ i <= Len(argv) /\ ~IsOption(Arg) /\ ~first
    /\ olddata' = getv(Arg.word, olddata)
    /\ LET there == fencrypt(olddata', decrypt, KS)
       IN  /\ newdata' = fencrypt(there, 1 - decrypt, KS)
           /\ row' = [op |-> decrypt, printed |-> <<wprintDot(olddata'),
                                  wprintDot(there), wprintDot(newdata')>>]
    /\ decrypt' = 0
    /\ i' = i + 1
    /\ UNCHANGED <<tool, argv, key, KS, libkey, bdata, first, status>>

\* A data word, in fdemo: there and back.
DemoData ==
    /\ tool = "fdemo" /\ status = "loop"
    /\ i <= Len(argv) /\ ~IsOption(Arg) /\ ~first
    /\ olddata' = getv(Arg.word, olddata)
    /\ LET there == fencrypt(olddata', decrypt, KS)
       IN  /\ newdata' = fencrypt(there, 1 - decrypt, KS)
           /\ row' = [op |-> decrypt, printed |-> <<wprintDot(olddata'),
                                  wprintDot(there), wprintDot(newdata')>>]
    /\ i' = i + 1
    /\ UNCHANGED <<tool, argv, key, KS, libkey, bdata, decrypt, first, status>>

Exit ==
    /\ status = "loop" /\ i > Len(argv)
    /\ status' = "exit"
    /\ row' = NoRow
    /\ SameBlocks /\ UNCHANGED <<tool, argv, i, decrypt, first>>

Next == \/ TestStart \/ TestData \/ TestOption
        \/ DemoStart \/ DemoDirection \/ DemoTable \/ DemoTimed \/ DemoKey
        \/ DemoData \/ Exit

Spec == Init /\ [][Next]_vars

-----------------------------------------------------------------------------
(* Properties *)

DesTypeOK ==
    /\ {key, KS, olddata, newdata} \subseteq Block
    /\ i \in 1..Len(argv) + 1
    /\ status \in {"start", "loop", "usage", "exit"}

\* The words of the usage messages (ftest.c:106, fdemo.c:108): at most as many
\* digits as a block has, and for fdemo a point in the middle.
Documented(w) ==
    LET s == WithoutPrefix(w)
    IN  \/ /\ Len(s) <= 2 * Bytes
           /\ \A n \in DOMAIN s : s[n] \in Digits
        \/ /\ tool = "fdemo"
           /\ Len(s) \in Bytes + 1..2 * Bytes + 1
           /\ s[Bytes + 1] = Dot
           /\ \A n \in DOMAIN s \ {Bytes + 1} : s[n] \in Digits

\* "left-justified, 0-padded hex values" (same lines): what such a word means.
Padded(w) ==
    LET s == SelectSeq(WithoutPrefix(w), LAMBDA ch : ch \in Digits)
    IN  [d \in 1..2 * Bytes |-> IF d <= Len(s) THEN s[d] ELSE 0]

BlockOfDigits(ds) ==
    [n \in 0..Bytes - 1 |-> Radix * ds[2 * n + 1] + ds[2 * n + 2]]

WithDot(ds) == SubSeq(ds, 1, Bytes) \o <<Dot>> \o SubSeq(ds, Bytes + 1, 2 * Bytes)

IsRow(field) == row # NoRow /\ field \in DOMAIN row

\* The arguments follow the usage message: the key comes first.
KeyFirst == Len(argv) > 0 /\ ~IsOption(argv[1]) /\ Documented(argv[1].word)

\* Whatever options came in between, data is treated with the key of the first
\* argument, by both libraries, and a word of the documented form stands for
\* its digits from the left, whatever memory held before.
WordsMeanWhatIsDocumented ==
    KeyFirst /\ (IsRow("fastdes") \/ IsRow("printed")) =>
        LET w == argv[i - 1].word
        IN  /\ wprint(KS) = Padded(argv[1].word)
            /\ tool = "ftest" => bprint(libkey) = Padded(argv[1].word)
            /\ Documented(w) =>
                 IF tool = "ftest" THEN row.fastdes[1] = Padded(w)
                                   ELSE row.printed[1] = WithDot(Padded(w))

\* ftest.c:107 "encrypts & decrypts each 'data' block with both fastdes and
\* crypt() library DES routines to show equality": both lines are equal and end
\* with what they began with, for words of any form.  The variables have their
\* types: no byte is wider than a byte.
ColumnsAgree ==
    /\ DesTypeOK
    /\ IsRow("fastdes") => /\ row.fastdes = row.UNIXdes
                           /\ row.fastdes[3] = row.fastdes[1]

\* The last -e or -d before a data word of fdemo.
AskedFor ==
    LET given == {n \in 1..i - 1 : IsOption(argv[n]) /\ argv[n].opt \in {"e", "d"}
                      /\ ~\E m \in 1..n - 1 : /\ IsOption(argv[m])
                                             /\ argv[m].opt \in {"c", "k"}
                                             /\ ~argv[m].attached /\ m + 1 = n}
    IN  IF given = {} THEN "e"
        ELSE argv[CHOOSE n \in given : \A m \in given : m <= n].opt

\* fdemo does with each word what was asked for last, with the key of the first
\* argument, and then undoes it; a line of the table depends on the words of
\* that line alone.
DemoDoesAsAsked ==
    /\ IsRow("printed") =>
         /\ row.printed[3] = row.printed[1]
         /\ row.printed[2] = wprintDot(IF AskedFor = "e" THEN Encrypt(KS, olddata)
                                                        ELSE Decrypt(KS, olddata))
    /\ IsRow("demo") =>
         \A n \in DOMAIN Demos :
            LET k == BlockOfDigits(Padded(Demos[n].key))
                b == BlockOfDigits(Padded(Demos[n].data))
            IN  row.demo[n] = wprintDot(IF Demos[n].decrypt = 0 THEN Encrypt(k, b)
                                                                ELSE Decrypt(k, b))


=============================================================================
