------------------------------ MODULE MCCCursor ------------------------------
(***************************************************************************)
(* Two rows of two columns: printing a character in the last cell wraps    *)
(* and scrolls.                                                            *)
(***************************************************************************)
EXTENDS CCursor

Console == {"putc", "newline", "backspace", "return", "run", "goto", "color", "cls", "on", "off"}
Colouring == {"putc", "color", "on", "off"}

=============================================================================
