------------------------------ MODULE MCLogger ------------------------------
(***************************************************************************)
(* Two kinds of packet stand for main's four: the order of two kinds and   *)
(* the wrap to the next cycle both occur.                                  *)
(***************************************************************************)
EXTENDS Logger

MCKinds == <<"SYSTEM", "DRIVE">>
=============================================================================
