---- MODULE Selection ----
(***************************************************************************)
(* Choosing from a sequence, the way the program's list comprehensions     *)
(* do: the members of a set, in the order of the sequence.  KeepOnly is    *)
(* SelectSeq with a set for its test, written out so that it can be        *)
(* reasoned about.                                                         *)
(***************************************************************************)
EXTENDS Integers, Sequences, SequencesExt

KeepOnly(seq, names) ==
    LET kept[n \in 0 .. Len(seq)] ==
            IF n = 0 THEN <<>>
            ELSE IF seq[n] \in names THEN Append(kept[n - 1], seq[n]) ELSE kept[n - 1]
    IN  kept[Len(seq)]

PositionOf(seq, e) == SelectInSeq(seq, LAMBDA x : x = e)
====
