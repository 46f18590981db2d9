---------------------------- MODULE MCHostShell ----------------------------
(***************************************************************************)
(* Three commands, any number of them from the shell or from a web page,   *)
(* on parameters of two types, so that an operation can meet an edit of    *)
(* its own type and of the other.  The pages have no dump and no quit.     *)
(***************************************************************************)
EXTENDS HostShell

CONSTANTS drive, joints

MCParamTypes == {drive, joints}
Line(name, type) == [name |-> name, type |-> type]
MCCommandsOf ==
  [c \in Commanders |->
     IF c = "shell" THEN {Line("param", drive), Line("dump", drive), Line("quit", drive)}
     ELSE {Line("set", drive), Line("send", drive), Line("param", joints)}]
=============================================================================
