----------------------------- MODULE HostShell -----------------------------
(***************************************************************************)
(* The program `orazio': main with the shell, the runner that talks to the *)
(* robot, the web server.  Shell and web server execute the same commands; *)
(* fetch, store and request (paramFn) hand a query over to the runner with *)
(* a flag and a semaphore, dump waits for the runner to refresh the state. *)
(*                                                                         *)
(* The n-th operation is its number: param_control has for each field the  *)
(* operation that stored it.  Semaphores are counted up to what anyone     *)
(* waits for.  The client's calls return (HostClient); a blocking one has  *)
(* write_mutex, which `send' needs.  What changes nothing of this is left  *)
(* out: print, save_config, lines that are refused.  The end of the input  *)
(* is a quit.                                                              *)
(***************************************************************************)
EXTENDS Integers

CONSTANTS ParamTypes,
          CommandsOf,       \* what the user of the shell, of a web page, may say
          Cycles,           \* of a dump
          MaxCommands       \* bound

Commanders == {"shell", "web"}
Commands == [name : {"set", "send", "param", "dump", "quit"}, type : ParamTypes]
Operations == 1 .. MaxCommands

ASSUME ShellAssumption ==
  /\ CommandsOf \in [Commanders -> SUBSET Commands]
  /\ Cycles \in Nat \ {0} /\ MaxCommands \in Nat

VARIABLES
  run,                            \* cleared by quit
  ws_run,                         \* ctx->run of the web server
  place,                          \* of each thread
  doing,                          \* of each commander: the command, its number
  param_control, param_sem, param_sem_init, op_result,
  state_sem, state_sem_init,
  left,                           \* of each commander: cycles left to dump
  edited,                         \* the host's copy of these parameters has an edit
  asked,                          \* the type of each operation
  query,                          \* the operation whose query the runner sent
  issued,                         \* how often each operation under way was sent, up to 2
  late,                           \* the runner came back before a commander it had warned was done
  overlap,                        \* two commanders used the same semaphore
  wild,                           \* a semaphore was initialized under a waiting thread
  given                           \* number of commands

querying == <<param_control, param_sem, param_sem_init, op_result, asked, query, issued>>
dumping == <<state_sem, state_sem_init, left>>
history == <<late, overlap, wild, given>>
shellVars == <<run, ws_run, place, doing, querying, dumping, edited, history>>

None == 0
Numbered(n, c) == [number |-> n, name |-> c.name, type |-> c.type]
Nothing == [number |-> None]

ShellInit ==
  /\ run = TRUE /\ ws_run = "unset"
  /\ \E w \in {"start", "done"} : place = [shell |-> "loop", runner |-> "loop", web |-> w]
  /\ doing = [c \in Commanders |-> Nothing]
  /\ param_control = [action |-> None, type |-> None]
  /\ param_sem = 0 /\ param_sem_init = FALSE /\ op_result = [of |-> None, status |-> "Success"]
  /\ state_sem = 0 /\ state_sem_init = FALSE /\ left = [c \in Commanders |-> 0]
  /\ edited = [t \in ParamTypes |-> FALSE]
  /\ asked = [n \in Operations |-> "none"] /\ query = None
  /\ issued = [n \in Operations |-> 0]
  /\ late = FALSE /\ overlap = FALSE /\ wild = FALSE /\ given = 0

At(c, p) == ~wild /\ place[c] = p
To(c, p) == place' = [place EXCEPT ![c] = p]

\* The command is executed.
End(c) == To(c, "loop") /\ doing' = [doing EXCEPT ![c] = Nothing]

Waiting(c) == place[c] \in {"wait", "waitState"}
Using(c, name) == doing[c] # Nothing /\ doing[c].name = name

-----------------------------------------------------------------------------
(* executeCommand *)

\* A line is read, or a message received.
Give(c, command) ==
  /\ At(c, "idle") /\ given < MaxCommands
  /\ given' = given + 1
  /\ doing' = [doing EXCEPT ![c] = Numbered(given + 1, command)]
  /\ overlap' = (overlap \/ (command.name \in {"param", "dump"}
                               /\ \E d \in Commanders \ {c} : Using(d, command.name)))
  /\ To(c, command.name)
  /\ asked' = [asked EXCEPT ![given + 1] = command.type]
  /\ UNCHANGED <<run, ws_run, param_control, param_sem, param_sem_init, op_result, query, issued,
                 dumping, edited, late, wild>>

\* setFn, and loadConfigFn with each of its lines
SetVariable(c) ==
  /\ At(c, "set") /\ End(c)
  /\ edited' = [edited EXCEPT ![doing[c].type] = TRUE]
  /\ UNCHANGED <<run, ws_run, querying, dumping, history>>

\* sendFn: OrazioClient_sendPacket without waiting for an answer
SendVariable(c) ==
  /\ At(c, "send") /\ place["runner"] # "await" /\ End(c)
  /\ UNCHANGED <<run, ws_run, querying, dumping, edited, history>>

Quit(c) ==
  /\ At(c, "quit") /\ End(c)
  /\ run' = FALSE
  /\ UNCHANGED <<ws_run, querying, dumping, edited, history>>

\* paramFn: param_control = query, field by field
StoreQuery(c) ==
  /\ \/ At(c, "param") /\ To(c, "storeType")
          /\ param_control' = [param_control EXCEPT !.action = doing[c].number]
     \/ At(c, "storeType") /\ To(c, "init")
          /\ param_control' = [param_control EXCEPT !.type = doing[c].number]
  /\ UNCHANGED <<run, ws_run, doing, param_sem, param_sem_init, op_result, asked, query, issued,
                 dumping, edited, history>>

InitSem(c) ==
  /\ At(c, "init") /\ To(c, "raise")
  /\ param_sem' = 0
  /\ wild' = \E d \in Commanders : place[d] = "wait"
  /\ UNCHANGED <<run, ws_run, doing, param_control, param_sem_init, op_result, asked, query,
                 issued, dumping, edited, late, overlap, given>>

Raise(c) ==
  /\ At(c, "raise") /\ To(c, "wait")
  /\ param_sem_init' = TRUE
  /\ UNCHANGED <<run, ws_run, doing, param_control, param_sem, op_result, asked, query, issued,
                 dumping, edited, history>>

Wait(c) ==
  /\ At(c, "wait") /\ param_sem > 0 /\ To(c, "lower")
  /\ param_sem' = param_sem - 1
  /\ UNCHANGED <<run, ws_run, doing, param_control, param_sem_init, op_result, asked, query,
                 issued, dumping, edited, history>>

\* Mutant of Lower: the flag stays up.
LowerNothing(c) ==
  /\ At(c, "lower") /\ To(c, "return")
  /\ UNCHANGED <<run, ws_run, doing, querying, dumping, edited, history>>

\* param_sem_init = 0; sem_destroy does nothing.
Lower(c) ==
  /\ At(c, "lower") /\ To(c, "return")
  /\ param_sem_init' = FALSE
  /\ UNCHANGED <<run, ws_run, doing, param_control, param_sem, op_result, asked, query, issued,
                 dumping, edited, history>>

\* return op_result
Return(c) ==
  /\ At(c, "return") /\ End(c)
  /\ issued' = [issued EXCEPT ![doing[c].number] = 0]
  /\ UNCHANGED <<run, ws_run, param_control, param_sem, param_sem_init, op_result, asked,
                 query, dumping, edited, history>>

Param(c) == StoreQuery(c) \/ InitSem(c) \/ Raise(c) \/ Wait(c) \/ Lower(c) \/ Return(c)

\* dumpFn
InitDump(c) ==
  /\ At(c, "dump") /\ To(c, "raiseState")
  /\ state_sem' = 0
  /\ wild' = \E d \in Commanders : place[d] = "waitState"
  /\ UNCHANGED <<run, ws_run, doing, querying, state_sem_init, left, edited, late, overlap, given>>

RaiseDump(c) ==
  /\ At(c, "raiseState") /\ To(c, "waitState")
  /\ state_sem_init' = TRUE
  /\ left' = [left EXCEPT ![c] = Cycles]
  /\ UNCHANGED <<run, ws_run, doing, querying, state_sem, edited, history>>

Dump(c) ==
  /\ At(c, "waitState")
  /\ IF left[c] > 0
       THEN /\ state_sem > 0 /\ state_sem' = state_sem - 1
            /\ left' = [left EXCEPT ![c] = @ - 1]
            /\ UNCHANGED <<place, doing, state_sem_init>>
       ELSE End(c) /\ state_sem_init' = FALSE /\ UNCHANGED <<state_sem, left>>
  /\ UNCHANGED <<run, ws_run, querying, edited, history>>

Execute(c) == \/ SetVariable(c) \/ SendVariable(c) \/ Quit(c) \/ Param(c)
              \/ InitDump(c) \/ RaiseDump(c) \/ Dump(c)

-----------------------------------------------------------------------------
(* main, from Orazio_shellStart to the end *)

ShellLoop ==
  /\ At("shell", "loop") /\ To("shell", IF run THEN "idle" ELSE "joinRunner")
  /\ UNCHANGED <<run, ws_run, doing, querying, dumping, edited, history>>

JoinRunner ==
  /\ At("shell", "joinRunner") /\ place["runner"] = "done" /\ To("shell", "joinWeb")
  /\ ws_run' = "off"
  /\ UNCHANGED <<run, doing, querying, dumping, edited, history>>

JoinWeb ==
  /\ At("shell", "joinWeb") /\ place["web"] = "done" /\ To("shell", "done")
  /\ UNCHANGED <<run, ws_run, doing, querying, dumping, edited, history>>

Shell == ShellLoop \/ JoinRunner \/ JoinWeb

(* _websocketFn *)

Web ==
  /\ \/ At("web", "start") /\ To("web", "done") /\ UNCHANGED ws_run    \* port in use
     \/ At("web", "start") /\ To("web", "loop") /\ ws_run' = "on"
     \/ /\ place["web"] \in {"loop", "idle"} /\ ~wild
        /\ To("web", IF ws_run = "off" THEN "done" ELSE "idle") /\ UNCHANGED ws_run
  /\ UNCHANGED <<run, doing, querying, dumping, edited, history>>

-----------------------------------------------------------------------------
(* _runnerFn *)

\* A commander was warned and has not read the result.
Warned(c) == (place[c] \in {"raise", "wait"} /\ param_sem > 0) \/ place[c] \in {"lower", "return"}

\* while (run): OrazioClient_sync and refreshState
Refresh ==
  /\ At("runner", "loop")
  /\ IF run THEN /\ To("runner", "state")
                 /\ op_result' = [of |-> None, status |-> "Success"]
                 /\ late' = (late \/ \E c \in Commanders : Warned(c))
            ELSE To("runner", "done") /\ UNCHANGED <<op_result, late>>
  /\ UNCHANGED <<run, ws_run, doing, param_control, param_sem, param_sem_init, asked, query,
                 issued, dumping, edited, overlap, wild, given>>

CheckState ==
  /\ At("runner", "state") /\ To("runner", IF state_sem_init THEN "postState" ELSE "param")
  /\ UNCHANGED <<run, ws_run, doing, querying, dumping, edited, history>>

PostState ==
  /\ At("runner", "postState") /\ To("runner", "param")
  /\ state_sem' = IF state_sem < Cycles THEN state_sem + 1 ELSE state_sem
  /\ UNCHANGED <<run, ws_run, doing, querying, state_sem_init, left, edited, history>>

CheckParam ==
  /\ At("runner", "param") /\ To("runner", IF param_sem_init THEN "issue" ELSE "loop")
  /\ late' = (late /\ \E c \in Commanders : Using(c, "param"))
  /\ UNCHANGED <<run, ws_run, doing, querying, dumping, edited, overlap, wild, given>>

Once(n) == IF issued[n] < 2 THEN issued[n] + 1 ELSE 2

\* OrazioClient_sendPacket locks, copies the packet and waits for the answer.
Issue ==
  /\ At("runner", "issue") /\ To("runner", "await")
  /\ query' = param_control.action
  /\ issued' = IF param_control.action = param_control.type
                 THEN [issued EXCEPT ![param_control.action] = Once(param_control.action)]
                 ELSE issued
  /\ UNCHANGED <<run, ws_run, doing, param_control, param_sem, param_sem_init, op_result, asked,
                 dumping, edited, history>>

\* Mutant of Await: the listener is warned after Success only.
AwaitSuccess(status) ==
  /\ At("runner", "await") /\ To("runner", IF status = "Success" THEN "refreshParams" ELSE "loop")
  /\ op_result' = [of |-> query, status |-> status] /\ query' = None
  /\ UNCHANGED <<run, ws_run, doing, param_control, param_sem, param_sem_init, asked, issued,
                 dumping, edited, history>>

\* The answer, or none in time
Await(status) ==
  /\ At("runner", "await") /\ To("runner", IF status = "Success" THEN "refreshParams" ELSE "post")
  /\ op_result' = [of |-> query, status |-> status] /\ query' = None
  /\ UNCHANGED <<run, ws_run, doing, param_control, param_sem, param_sem_init, asked, issued,
                 dumping, edited, history>>

\* Mutant of RefreshParams: the cases of the switch fall through.
RefreshAll ==
  /\ At("runner", "refreshParams") /\ To("runner", "post")
  /\ edited' = [t \in ParamTypes |-> FALSE]
  /\ UNCHANGED <<run, ws_run, doing, querying, dumping, history>>

\* refreshParams, of the type that is now in param_control
RefreshParams ==
  /\ At("runner", "refreshParams") /\ To("runner", "post")
  /\ edited' = [edited EXCEPT ![asked[param_control.type]] = FALSE]
  /\ UNCHANGED <<run, ws_run, doing, querying, dumping, history>>

Post ==
  /\ At("runner", "post") /\ To("runner", "loop")
  /\ param_sem' = 1
  /\ UNCHANGED <<run, ws_run, doing, param_control, param_sem_init, op_result, asked, query,
                 issued, dumping, edited, history>>

Runner == \/ Refresh \/ CheckState \/ PostState \/ CheckParam \/ Issue
          \/ (\E status \in {"Success", "Timeout"} : Await(status)) \/ RefreshParams \/ Post

-----------------------------------------------------------------------------

ShellNext ==
  \/ \E c \in Commanders : Execute(c) \/ \E command \in CommandsOf[c] : Give(c, command)
  \/ Shell \/ Web \/ Runner

ShellSpec == ShellInit /\ [][ShellNext]_shellVars

\* Threads run on; nobody has to give a command.
ShellFairSpec ==
  /\ ShellSpec
  /\ WF_shellVars(Runner) /\ WF_shellVars(Shell) /\ WF_shellVars(Web)
  /\ \A c \in Commanders : WF_shellVars(Execute(c))

-----------------------------------------------------------------------------
(* Properties *)

ParamPlaces == {"param", "storeType", "init", "raise", "wait", "lower", "return"}
CommanderPlaces == {"loop", "idle", "done", "set", "send", "quit", "dump", "raiseState", "waitState"}
                     \cup ParamPlaces
Places ==
  [shell  |-> CommanderPlaces \cup {"joinRunner", "joinWeb"},
   web    |-> CommanderPlaces \cup {"start"},
   runner |-> {"loop", "state", "postState", "param", "issue", "await", "refreshParams", "post",
               "done"}]
Numbers == 0 .. MaxCommands

ShellTypeOK ==
  /\ run \in BOOLEAN /\ ws_run \in {"unset", "on", "off"}
  /\ DOMAIN place = DOMAIN Places /\ \A t \in DOMAIN Places : place[t] \in Places[t]
  /\ \A c \in Commanders :
       doing[c] = Nothing \/ \E n \in Operations, m \in Commands : doing[c] = Numbered(n, m)
  /\ param_control \in [action : Numbers, type : Numbers] /\ query \in Numbers
  /\ op_result \in [of : Numbers, status : {"Success", "Timeout"}]
  /\ param_sem \in 0 .. 1 /\ state_sem \in 0 .. Cycles
  /\ {param_sem_init, state_sem_init, late, overlap, wild} \subseteq BOOLEAN
  /\ left \in [Commanders -> 0 .. Cycles] /\ edited \in [ParamTypes -> BOOLEAN]
  /\ asked \in [Operations -> ParamTypes \cup {"none"}] /\ issued \in [Operations -> 0 .. 2]
  /\ given \in Numbers

\* fetch, store and request return the answer to their own query, which was
\* sent once (orazio_shell_commands.c:90-96, orazio.c:49-54), unless the runner
\* is back before the commander it warned has returned, or shell and web page
\* have such a command at the same time.
OperationsAnswered ==
  [][\A c \in Commanders : Return(c) /\ ~late /\ ~overlap
       => op_result.of = doing[c].number /\ issued[doing[c].number] = 1]_shellVars

\* What was set on the host and not sent yet is overwritten by the robot's
\* parameters only while an operation of the same type is waiting for them
\* (orazio.c:52, refreshParams), with the same exceptions.
EditsKept ==
  [][\A t \in ParamTypes : edited[t] /\ ~edited'[t] /\ ~late /\ ~overlap
       => \E c \in Commanders : place[c] = "wait" /\ doing[c].type = t]_shellVars

\* main stops the server before it runs: ctx->run = 1 comes after (line 312).
StopLost == place["shell"] = "joinWeb" /\ ws_run = "on"

\* A command returns, if the runner is there for it and it has its semaphore
\* for itself; after quit the program ends, if the server is not stopped too
\* early and no page waits for the runner.
CommandsReturn ==
  /\ \A c \in Commanders :
       (\E name \in {"set", "send", "param", "dump", "quit"} : Using(c, name))
         ~> (place[c] \in {"idle", "done", "joinRunner"} \/ overlap \/ ~run)
  /\ ~run ~> (place["shell"] = "done" \/ StopLost \/ Waiting("web") \/ overlap)
=============================================================================
