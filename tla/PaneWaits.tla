------------------------------ MODULE PaneWaits ------------------------------
(***************************************************************************)
(* A pane and one call that waits for something of it: its program's end   *)
(* (WaitExit), a still screen (Settle) or a command's end (WaitCommand).   *)
(* Calls change nothing that another one reads, so one stands for all; the *)
(* daemon serves whichever `method` is asked.  Of the pane, Settle needs   *)
(* only the coming and going of its terminal, and has that itself.         *)
(***************************************************************************)
EXTENDS WaitExit, Settle, WaitCommand

VARIABLE method

exitVars == exitCall
settleVars == <<screenVars, settleCall>>
commandVars == <<shellVars, commandCall>>
vars == <<paneVars, ioVars, exitVars, settleVars, commandVars, method>>

Init ==
    /\ PaneInit /\ ExitInit /\ SettleInit /\ CommandInit
    /\ method \in {"pane.wait_exit", "pane.wait_settled", "pane.wait_command"}

Exits(A) == method = "pane.wait_exit" /\ A /\ UNCHANGED <<settleVars, commandVars, method>>
Settling(A) ==
    /\ method = "pane.wait_settled" /\ A
    /\ UNCHANGED <<paneVars, ioVars, exitVars, commandVars, method>>
Commands(A) == method = "pane.wait_command" /\ A /\ UNCHANGED <<exitVars, settleVars, method>>
Pane(A) == method # "pane.wait_settled" /\ A /\ UNCHANGED <<exitVars, settleVars, commandVars, method>>

Next == Pane(PaneStep) \/ Exits(ExitNext) \/ Settling(SettleNext) \/ Commands(CommandNext)

\* A handler is polled when it can go on, the graph task fires what it has
\* committed, a spawn returns and the clock runs; no program has to exit, no
\* pane to go and no output to come.  The deadline of a wait_exit is optional,
\* that of a wait_command is not.
Spec ==
    /\ Init /\ [][Next]_vars
    /\ WF_vars(Pane(Fire)) /\ WF_vars(Pane(SpawnReturns))
    /\ WF_vars(Pane(SpawnInstalls \/ SpawnFails))
    /\ WF_vars(Exits(ExitHandler))
    /\ WF_vars(Settling(SettleHandler)) /\ WF_vars(Settling(Tick))
    /\ WF_vars(Commands(CommandHandler)) /\ WF_vars(Commands(DeadlinePasses))

-----------------------------------------------------------------------------
(* Properties                                                              *)

\* The types of all variables.
TypeOK == PaneTypeOK /\ ExitTypeOK /\ SettleTypeOK /\ CommandTypeOK

\* Every waiting call is answered.  A wait_exit, which need have no deadline,
\* once the pane's program has ended or the pane is gone, however far its
\* subscription lags and wherever it stands; a spawn that fails fires no
\* event, and it answers all the same unless another spawn of the pane comes.
\* A wait_settled and a wait_command by their deadline, though they look again
\* after every change, and a pane that goes wakes a sleeping one.
EveryCallAnswered ==
    /\ (ExitWaiting /\ (exit # None \/ ~live)) ~> ~ExitWaiting
    /\ (ExitWaiting /\ failed) ~> (~ExitWaiting \/ ran \/ flight # "no")
    /\ SettleWaiting ~> ~SettleWaiting
    /\ CommandWaiting ~> ~CommandWaiting

=============================================================================
