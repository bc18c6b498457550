-------------------------------- MODULE MCTurn -------------------------------
(***************************************************************************)
(* What the turns of a session share: the streams of two runs, the bill of *)
(* two turns, a temporary session with two writers, the circuit breaker of *)
(* a remote server with two callers, and the messages of a permanent       *)
(* session with two turns.  They share no variable, so that the behaviours *)
(* of one of them, the others at rest, show all there is to see of it.  At *)
(* rest, nothing that the fairness of the streams is about can happen.     *)
(*                                                                         *)
(* The permanent session is shown in three parts, to stay small: its       *)
(* turns with their summaries, and one request; its turns without, with    *)
(* feedback and two requests; a file and one request, which may fail, all  *)
(* in the last second.                                                     *)
(***************************************************************************)
EXTENDS SessionStream, Billing, TempSession, CircuitBreaker, Conversation, TLC

VARIABLE scene  \* which of them runs

turnVars == <<vars, billingVars, tempVars, circuitVars, conversationVars, scene>>

Talks == {"summaries", "requests", "file"}

ConversationStart ==
  /\ ConversationInit
  /\ (file.pc = "none") = (scene = "file")
  /\ second = IF scene = "file" THEN MaxSecond ELSE MaxSecond - 1

\* Sessions, writers and requests are interchangeable: one of each comes first.
Leader(S) == CHOOSE x \in S : TRUE

BillingStep == BillingNext /\ turn'[1].session = Leader(Sessions)

\* It has done no more than to begin.
Waits(w) ==
  \/ writer[w].step = "new"
  \/ writer[w].step = "ready" /\ \E kind \in Kinds : writer[w].todo = Plan(kind)

TempStep ==
  /\ TempNext
  /\ (\E w \in Writers : ~Waits(w)') => ~Waits(Leader(Writers))'

ConversationStep ==
  /\ ConversationNext
  /\ scene # "summaries" => \A t \in Exchange : exchange'[t].pc # "thinking"
  /\ scene # "requests" =>
       rated' = {} /\ \A r \in Requests \ {Leader(Requests)} : request'[r] = request[r]
  /\ scene # "file" => \A r \in Requests : request[r].pc = "held" => request'[r].pc # "idle"
  /\ (\E r \in Requests : request'[r].pc # "idle") => request'[Leader(Requests)].pc # "idle"

TurnInit ==
  /\ scene \in {"streams", "billing", "messages", "circuit"} \union Talks
  /\ Init /\ BillingInit /\ TempInit /\ CircuitInit /\ ConversationStart

TurnNext ==
  /\ UNCHANGED scene
  /\ \/ /\ scene = "streams" /\ Next
        /\ UNCHANGED <<billingVars, tempVars, circuitVars, conversationVars>>
     \/ /\ scene = "billing" /\ BillingStep
        /\ UNCHANGED <<vars, tempVars, circuitVars, conversationVars>>
     \/ /\ scene = "messages" /\ TempStep
        /\ UNCHANGED <<vars, billingVars, circuitVars, conversationVars>>
     \/ /\ scene = "circuit" /\ CircuitNext
        /\ UNCHANGED <<vars, billingVars, tempVars, conversationVars>>
     \/ /\ scene \in Talks /\ ConversationStep
        /\ UNCHANGED <<vars, billingVars, tempVars, circuitVars>>

TurnSpec == TurnInit /\ [][TurnNext]_turnVars /\ Fairness

\* Everything that the turns share has its type.
TurnTypeOK == TypeOK /\ BillingTypeOK /\ TempTypeOK /\ CircuitTypeOK /\ ConversationTypeOK
==============================================================================
