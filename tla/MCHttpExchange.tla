--------------------------- MODULE MCHttpExchange ---------------------------
(* Small instances of HttpExchange for TLC. *)
EXTENDS HttpExchange
=============================================================================
