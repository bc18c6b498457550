--------------------------------- MODULE Chat --------------------------------
(***************************************************************************)
(* The two ways in which a message is answered: by a workflow (Workflow)   *)
(* or by an agent (AgentTurn). Which of the two it is depends on the skill *)
(* of the session and is settled before either begins (execution_type in   *)
(* runner.py); they share no variable, and the other one stays at rest. Of *)
(* the attempts of the workflow the last is a resume: a message disturbs a *)
(* resume by what it saves, so that it may as well be sent before that     *)
(* resume begins.                                                          *)
(***************************************************************************)
EXTENDS Workflow, AgentTurn

VARIABLE execution_type  \* the column of that name of the session's skill

chatVars == <<vars, agentVars, execution_type>>

ChatInit == Init /\ AgentInit /\ execution_type \in {"workflow", "agent"}

SentLast == att[Attempts].run = Attempts

ChatNext ==
  /\ UNCHANGED execution_type
  /\ \/ execution_type = "workflow" /\ Next /\ ~SentLast' /\ UNCHANGED agentVars
     \/ execution_type = "agent" /\ AgentNext /\ UNCHANGED vars

ChatSpec == ChatInit /\ [][ChatNext]_chatVars

\* The state of either has its type.
ChatTypeOK == TypeOK /\ AgentTypeOK
==============================================================================
