----------------------------- MODULE MCDesTools -----------------------------
(* Blocks of four bytes of two binary digits, and a cipher in which every     *)
(* byte of the result depends on the key and on another byte of the block.    *)
EXTENDS DesTools

MCEncrypt(k, b) == [n \in 0..3 |-> (b[(n + 1) % 4] + k[n] + n) % 4]
MCDecrypt(k, b) == [n \in 0..3 |-> LET p == (n + 3) % 4
                                    IN  (b[p] + 8 - k[p] - p) % 4]

\* Short and full words, with 0x, with a point in the middle and elsewhere.
MCWords == { <<1>>, <<0, X, 1, 0, 1>>, <<1, 0, 0, 1, Dot, 1, 1, 0, 1>>,
             <<0, 1, Dot, 1>> }

Option(c, attached) == [opt |-> c, attached |-> attached]

MCOptions == { Option("c", TRUE), Option("c", FALSE), Option("k", TRUE),
               Option("C", TRUE), Option("K", FALSE), Option("e", TRUE),
               Option("d", TRUE), Option("demo", TRUE), Option("z", TRUE) }

MCDemos == << [decrypt |-> 0, key |-> <<1, 1, 0, 0, Dot, 1, 0, 1, 0>>,
               data |-> <<1, 0, 1, 1, Dot, 0, 0, 0, 1>>],
              [decrypt |-> 1, key |-> <<0, 1, 1, 0, Dot, 0, 1, 1, 1>>,
               data |-> <<0, 0, 1, 1, Dot, 1, 1, 0, 1>>] >>

MCGarbage == { [n \in 0..3 |-> 3], [n \in 0..3 |-> n] }

=============================================================================
