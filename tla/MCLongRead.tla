----------------------------- MODULE MCLongRead -----------------------------
(* Passages of one, two and three chunks; a sentence over the budget; a     *)
(* chunk of two sentences.                                                  *)
EXTENDS LongRead
MCPassages == {<<1>>, <<1, 1, 2>>, <<3, 1, 2>>}
=============================================================================
