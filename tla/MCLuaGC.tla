------------------------------- MODULE MCLuaGC -------------------------------
(***************************************************************************)
(* Instances of LuaGC for TLC.                                             *)
(***************************************************************************)
EXTENDS LuaGC, TLC

CONSTANTS u1, t1

=============================================================================
