---------------------------- MODULE MCHostClient ----------------------------
(***************************************************************************)
(* Two threads, that make any call between configure and the end: as the   *)
(* threads of a program of this repository, of which one polls and the     *)
(* other only sends, and more, when so many packets have been sent that    *)
(* the numbers are about to wrap.  In MCCallsJoint there is one thread,    *)
(* at the start of the program.                                            *)
(***************************************************************************)
EXTENDS HostClient

CONSTANTS runner, user

MCThreads == {runner, user}
MCCallsLibrary == [t \in MCThreads |-> Kinds \ {"getJoint"}]
MCCallsJoint ==
  [t \in MCThreads |-> IF t = runner THEN {"configure", "getJoint", "sync"} ELSE {}]
=============================================================================
