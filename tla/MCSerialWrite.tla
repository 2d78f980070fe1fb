--------------------------- MODULE MCSerialWrite ---------------------------
(* Small instances of SerialWrite for TLC. *)
EXTENDS SerialWrite

=============================================================================
