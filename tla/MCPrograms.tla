----------------------------- MODULE MCPrograms -----------------------------
(***************************************************************************)
(* Inputs for the programs: texts of consecutive bytes that cover letters  *)
(* of both cases and bytes of both signs, of lengths on either side of the *)
(* limits of blocks and of the frame; matrices with a single one, by which *)
(* a bilinear result is determined, and those of the source; and sections  *)
(* that touch, overlap, leave gaps, or are not loaded, with changes at     *)
(* every place of a line.                                                  *)
(***************************************************************************)
EXTENDS Programs, Sequences

Run(first, length) == [n \in 1 .. length |-> (first + n) % 256]
SomeTexts ==
  {Run(first, length) : first \in {0, 32, 64, 96, 112, 128, 224},
                        length \in {1, 8, 9, 16, 24, 25, 32, 39}}

Few == {-1, 2}
Single(i) == [n \in 1 .. 16 |-> IF n = i THEN 1 ELSE 0]
Odd == [n \in 1 .. 16 |-> 2 * n - 1]    \* arr0
Even == [n \in 1 .. 16 |-> 2 * n]       \* arr1
SomeSquares == {Single(i) : i \in 1 .. 16} \cup {Odd, Even}

Section(addr, length) == [addr |-> addr, length |-> length]
SomeLayouts ==
  {<<Section(from, 5), Section(from + 5, 3), Section(0, 9)>> : from \in 1 .. 16}
    \cup {<<Section(3, 12), Section(6, 4)>>,
          <<Section(2, 6), Section(10, 1), Section(12, 4)>>}
=============================================================================
