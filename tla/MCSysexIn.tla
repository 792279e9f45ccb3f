----------------------------- MODULE MCSysexIn -----------------------------
(* A dump has a first chunk, one in the middle and a last one.             *)
EXTENDS SysexIn
=============================================================================
