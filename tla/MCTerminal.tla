----------------------------- MODULE MCTerminal -----------------------------
(* Instances of Terminal for TLC.                                           *)
EXTENDS Terminal

CONSTANT x   \* a character of a text

(* Texts with and without a line feed, one longer than TX_buffer.           *)
MCLines == {<<x>>, <<x, LF, x>>}

(* One text, for the runs in which much else may happen.                    *)
MCLine == {<<x, LF>>}
=============================================================================
