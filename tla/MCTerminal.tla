----------------------------- MODULE MCTerminal -----------------------------
(* Terminals of a few cells for TLC. *)
EXTENDS Terminal, TLC

Size23 == <<2, 3>>
SizesEdit == {<<3, 2>>, <<1, 4>>}
Size22 == <<2, 2>>
SizesScreen == {<<1, 2>>, <<2, 2>>}
=============================================================================
