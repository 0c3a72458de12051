--------------------------- MODULE MCListTransfer ---------------------------
(***************************************************************************)
(* Instances of ListTransfer for TLC.                                      *)
(***************************************************************************)
EXTENDS ListTransfer

CONSTANTS a, b

MCNames == {a, b}
Good == <<[index |-> 0, name |-> a], [index |-> 1, name |-> b]>>
Misnumbered == <<[index |-> 1, name |-> a]>>

Wrapping == Append(Good, [index |-> 2, name |-> a])   \* SeqRange entries

\* Every kind of list: empty, good, refused by start(), announced as empty.
MCLists == {<<>>, Good, Misnumbered, Wrapping}

One == <<[index |-> 0, name |-> a]>>
ShortLists == {<<>>, One, Misnumbered}

\* For the runs with several downloads.
GoodLists == {<<>>, Good}
=============================================================================
