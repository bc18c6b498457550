------------------------------- MODULE Billing -------------------------------
(***************************************************************************)
(* What the turns of a tenant cost it: the check of the balance before a   *)
(* turn, the usage of its own calls and of its delegated sub-agents, the   *)
(* bill at its end (agents/runner.py, agents/subagent_bus.py,              *)
(* tools/subagent.py) and the balance that it is taken from                *)
(* (services/balance_service.py).                                          *)
(*                                                                         *)
(* Every call of a model costs one unit.  A turn is streamed, with a bus   *)
(* for its sub-agents, or plain.                                           *)
(***************************************************************************)
EXTENDS Integers

CONSTANTS
  Turns,        \* bound: turns, numbered as they start
  Sessions,     \* the chat sessions of the tenant
  Amounts,      \* what an administrator may add or take
  MaxAdmin      \* bound: changes of the balance by an administrator

ASSUME BillingAssumption ==
  /\ Turns \in Nat
  /\ Sessions # {}
  /\ Amounts \subseteq Nat
  /\ MaxAdmin \in Nat

VARIABLES
  limited,  \* balance_euros is not NULL
  balance,  \* balance_euros, 0 when it is NULL
  admin,    \* changes by administrators so far
  bus,      \* _active_buses: the turn whose bus is registered, by session
  turn      \* the turns

billingVars == <<limited, balance, admin, bus, turn>>

Turn == 1 .. Turns
Nobody == 0

Busy == {"checking", "running", "delegating", "closing", "logged", "deducting"}

TurnState ==
  [pc: {"idle"} \union Busy \union {"paid", "ended"},
   kind: {"stream", "plain"},
   session: Sessions,
   held: 0 .. Turns,     \* the bus that its running delegate has found
   child: Nat,           \* usage that sub-agents have put on its bus
   cost: Nat,            \* the cost in its usage log
   used: Nat,            \* history: the calls made for it
   charged: Nat,         \* history: what was deducted for it
   alone: BOOLEAN,       \* history: nobody else changed the balance since its check
   clean: BOOLEAN]       \* history: nothing failed, and no other turn of its session

Unstarted(s) ==
  [pc |-> "idle", kind |-> "plain", session |-> s, held |-> Nobody, child |-> 0, cost |-> 0,
   used |-> 0, charged |-> 0, alone |-> TRUE, clean |-> TRUE]

BillingInit ==
  /\ limited = FALSE /\ balance = 0 /\ admin = 0
  /\ bus = [s \in Sessions |-> Nobody]
  /\ turn = [t \in Turn |-> Unstarted(CHOOSE s \in Sessions : TRUE)]

------------------------------------------------------------------------------
(* The start of a turn.                                                     *)

\* Turns that share the bus, or the lack of one, of a session.
Together(s) == {u \in Turn : turn[u].session = s /\ turn[u].pc \in {"checking", "running", "delegating"}}

\* run_agent_stream and run_agent: the message is there, and the turn begins.
Begin(t, s, kind) ==
  /\ turn[t].pc = "idle" /\ \A u \in Turn : u < t => turn[u].pc # "idle"
  /\ turn' = [u \in Turn |->
       IF u = t
       THEN [turn[t] EXCEPT !.pc = "checking", !.session = s, !.kind = kind,
                            !.clean = (Together(s) = {})]
       ELSE IF u \in Together(s) THEN [turn[u] EXCEPT !.clean = FALSE] ELSE turn[u]]
  /\ UNCHANGED <<limited, balance, admin, bus>>

\* The configuration cannot be resolved: there is nothing to bill.
Abort(t) ==
  /\ turn[t].pc = "checking"
  /\ turn' = [turn EXCEPT ![t].pc = "ended"]
  /\ UNCHANGED <<limited, balance, admin, bus>>

\* A plausible bug: an empty balance is taken for a positive one.
BrokeBelow == limited /\ balance < 0

\* check_balance_or_raise.
Broke == limited /\ balance <= 0

\* A refused stream goes through its finally block like any other.
Refuse(t) ==
  /\ turn[t].pc = "checking" /\ Broke
  /\ turn' = [turn EXCEPT ![t].pc = IF turn[t].kind = "plain" THEN "ended" ELSE "closing"]
  /\ UNCHANGED <<limited, balance, admin, bus>>

\* The bus of a stream replaces the one that is registered.
Pass(t) ==
  /\ turn[t].pc = "checking" /\ ~Broke
  /\ turn' = [turn EXCEPT ![t] = [@ EXCEPT !.pc = "running", !.used = 1, !.alone = TRUE]]
  /\ bus' = IF turn[t].kind = "stream" THEN [bus EXCEPT ![turn[t].session] = t] ELSE bus
  /\ UNCHANGED <<limited, balance, admin>>

------------------------------------------------------------------------------
(* Delegated sub-agents.                                                    *)

\* _delegate looks the bus up by the session, and keeps it while the child runs.
Delegate(t) ==
  /\ turn[t].pc = "running" /\ turn[t].used = 1
  /\ turn' = [turn EXCEPT ![t] =
       [@ EXCEPT !.pc = "delegating", !.held = bus[turn[t].session], !.used = 2]]
  /\ UNCHANGED <<limited, balance, admin, bus>>

\* A plausible bug: it is added to the turn's own bus as well.
HeldOrOwn(t) == {turn[t].held, t}

\* The bus that the delegate has found, whosever it is.
Held(t) == {turn[t].held}

\* add_usage.
Return(t) ==
  /\ turn[t].pc = "delegating"
  /\ turn' = [u \in Turn |->
       [turn[u] EXCEPT !.child = IF u \in Held(t) THEN @ + 1 ELSE @,
                       !.held = IF u = t THEN Nobody ELSE @,
                       !.pc = IF u = t THEN "running" ELSE @]]
  /\ UNCHANGED <<limited, balance, admin, bus>>

\* The child fails, or times out: its usage is nobody's.
ReturnError(t) ==
  /\ turn[t].pc = "delegating"
  /\ turn' = [turn EXCEPT ![t] = [@ EXCEPT !.pc = "running", !.held = Nobody, !.clean = FALSE]]
  /\ UNCHANGED <<limited, balance, admin, bus>>

------------------------------------------------------------------------------
(* The end of a turn.                                                       *)

\* A plausible bug: the sub-agents are left out.
FoldedNone(t, own) == own

\* _fold_subagent_usage adds the usage on the turn's own bus.
Folded(t, own) == own + IF turn[t].kind = "stream" THEN turn[t].child ELSE 0

\* remove_bus takes away the bus of the session, whosever it is.
Removed(t) == IF turn[t].kind = "stream" THEN [bus EXCEPT ![turn[t].session] = Nobody] ELSE bus

\* The stream is exhausted, or the plain run returns.
Complete(t) ==
  /\ turn[t].pc = "running"
  /\ turn' = [turn EXCEPT ![t] = [@ EXCEPT !.pc = "closing", !.cost = Folded(t, 1)]]
  /\ bus' = Removed(t)
  /\ UNCHANGED <<limited, balance, admin>>

\* An error, a cancellation or a client that is gone: the counts of the turn
\* itself are written after the stream only.  A plain run raises.
Interrupt(t) ==
  /\ turn[t].pc \in {"running", "delegating"}
  /\ turn' = [turn EXCEPT ![t] =
       [@ EXCEPT !.clean = FALSE, !.held = Nobody,
                 !.pc = IF turn[t].kind = "stream" THEN "closing" ELSE "ended",
                 !.cost = IF turn[t].kind = "stream" THEN Folded(t, 0) ELSE 0]]
  /\ bus' = Removed(t)
  /\ UNCHANGED <<limited, balance, admin>>

\* The answer is persisted and write_usage_log has its row.
WriteLog(t) ==
  /\ turn[t].pc = "closing"
  /\ turn' = [turn EXCEPT ![t].pc = "logged"]
  /\ UNCHANGED <<limited, balance, admin, bus>>

\* deduct_usage reads the balance, and does nothing for a tenant without limit.
ReadBalance(t) ==
  /\ turn[t].pc = "logged"
  /\ turn' = [turn EXCEPT ![t] =
       [turn[t] EXCEPT !.pc = IF limited THEN "deducting" ELSE "ended", !.clean = @ /\ limited]]
  /\ UNCHANGED <<limited, balance, admin, bus>>

\* Others see that the balance has changed.
Seen(t) == {u \in Turn \ {t} : turn[u].pc \in Busy}

\* The decrement and its audit row, in a transaction.
Deduct(t) ==
  /\ turn[t].pc = "deducting" /\ limited
  /\ balance' = balance - turn[t].cost
  /\ turn' = [u \in Turn |->
       CASE u = t -> [turn[t] EXCEPT !.pc = "paid", !.charged = turn[t].cost]
         [] u \in Seen(t) -> [turn[u] EXCEPT !.alone = @ /\ turn[t].cost = 0]
         [] OTHER -> turn[u]]
  /\ UNCHANGED <<limited, admin, bus>>

\* Each of the three steps may fail: it is logged, and the turn goes unbilled.
\* One of them does when the limit was lifted after the read: balance_after is
\* not nullable.
BillFails(t) ==
  /\ turn[t].pc \in {"closing", "logged", "deducting"}
  /\ turn' = [turn EXCEPT ![t] = [@ EXCEPT !.pc = "ended", !.clean = FALSE]]
  /\ UNCHANGED <<limited, balance, admin, bus>>

\* The process dies, and the buses with it.
ProcessDies ==
  /\ \E t \in Turn : turn[t].pc \in Busy
  /\ turn' = [t \in Turn |->
       IF turn[t].pc \in Busy THEN [turn[t] EXCEPT !.pc = "ended", !.clean = FALSE] ELSE turn[t]]
  /\ bus' = [s \in Sessions |-> Nobody]
  /\ UNCHANGED <<limited, balance, admin>>

------------------------------------------------------------------------------
(* The administrator.                                                       *)

ByAdmin ==
  /\ admin < MaxAdmin /\ admin' = admin + 1
  /\ turn' = [t \in Turn |-> [turn[t] EXCEPT !.alone = @ /\ turn[t].pc \notin Busy]]
  /\ UNCHANGED bus

\* add_funds: COALESCE(balance_euros, 0) + amount, which also sets the limit; a
\* negative amount takes.
AddFunds ==
  /\ ByAdmin
  /\ limited' = TRUE
  /\ \E amount \in Amounts : balance' \in {balance + amount, balance - amount}

\* disable_limit.
LiftLimit ==
  /\ ByAdmin
  /\ limited /\ limited' = FALSE /\ balance' = 0

BillingNext ==
  \/ \E t \in Turn :
       \/ \E s \in Sessions, kind \in {"stream", "plain"} : Begin(t, s, kind)
       \/ Abort(t) \/ Refuse(t) \/ Pass(t)
       \/ Delegate(t) \/ Return(t) \/ ReturnError(t)
       \/ Complete(t) \/ Interrupt(t)
       \/ WriteLog(t) \/ ReadBalance(t) \/ Deduct(t) \/ BillFails(t)
  \/ ProcessDies \/ AddFunds \/ LiftLimit

BillingSpec == BillingInit /\ [][BillingNext]_billingVars

------------------------------------------------------------------------------
(* Correctness.                                                             *)

\* Everything has its type.
BillingTypeOK ==
  /\ limited \in BOOLEAN /\ balance \in Int /\ admin \in 0 .. MaxAdmin
  /\ bus \in [Sessions -> 0 .. Turns]
  /\ turn \in [Turn -> TurnState]

\* A turn is not charged when there is nothing left, unless the balance has
\* changed since its check: without others that spend at the same time a tenant
\* goes below zero by the cost of one turn.
OverdraftHasCompany ==
  [][\A t \in Turn :
       turn'[t].charged > turn[t].charged /\ turn[t].alone => balance > 0]_billingVars

\* "Child tokens are billed with the turn": a turn that ran to its end, alone in
\* its session, is charged what was used for it, neither less nor more.  A plain
\* turn has no bus, and is charged for its own calls only.
UsageBilled ==
  \A t \in Turn : turn[t].clean /\ turn[t].pc \in {"paid", "ended"} =>
    turn[t].charged = IF turn[t].kind = "stream" THEN turn[t].used ELSE (IF turn[t].used = 0 THEN 0 ELSE 1)

SumOf(of) ==
  LET upTo[t \in 0 .. Turns] == IF t = 0 THEN 0 ELSE of[t] + upTo[t - 1] IN upTo[Turns]

\* No usage is in two bills, however the turns of a session overlap: a sub-agent
\* may be billed with the wrong turn, but not with two; and no turn is charged more
\* than its bill.
BilledOnce ==
  /\ SumOf([t \in Turn |-> turn[t].cost]) <= SumOf([t \in Turn |-> turn[t].used])
  /\ \A t \in Turn : turn[t].charged \in {0, turn[t].cost}
==============================================================================
