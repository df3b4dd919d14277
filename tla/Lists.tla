-------------------------------- MODULE Lists --------------------------------
(***************************************************************************)
(* The operations of std::list the wait lists use.  The members of a list  *)
(* are its Range.                                                          *)
(***************************************************************************)
EXTENDS Integers, Sequences, Functions

\* insert before the i-th element, push_back when i is one past the end.
ListInsert(l, i, e) == SubSeq(l, 1, i - 1) \o <<e>> \o SubSeq(l, i, Len(l))

\* erase of the i-th element.
ListErase(l, i) == SubSeq(l, 1, i - 1) \o SubSeq(l, i + 1, Len(l))
===============================================================================
