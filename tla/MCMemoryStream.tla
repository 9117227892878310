--------------------------- MODULE MCMemoryStream ---------------------------
(* Two bytes and a newline.                                                *)
EXTENDS MemoryStream, TLC

CONSTANTS a, b
=============================================================================
