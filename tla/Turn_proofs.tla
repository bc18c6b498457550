----------------------------- MODULE Turn_proofs -----------------------------
(***************************************************************************)
(* What the turns of a session share, for every number of turns, sessions, *)
(* callers and writers: their streams (SessionStream), the bill (Billing), *)
(* the circuit breaker (CircuitBreaker), and the composition that MCTurn   *)
(* makes of these and of the messages (Session_proofs).                    *)
(***************************************************************************)
EXTENDS MCTurn, Session_proofs, FiniteSetTheorems, SequenceTheorems, TLAPS

------------------------------------------------------------------------------
(* The streams.                                                            *)

\* A run that has shared the session with no other is alone while it works: so
\* the registry entry is its own, and no clean-up but its own clears the key.
Alone ==
  \A r \in Runs \ overlapped :
    /\ AtWork(r) => \A x \in Runs \ {r} : ~AtWork(x)
    /\ pc[r] = "running" => registry = r
    /\ Announced(r) => active

Inv == TypeOK /\ RegisteredIsOpen /\ Alone /\ CancelDiesWithRun

USE SessionStreamAssumption

------------------------------------------------------------------------------
LEMMA InitInv == Init => Inv
<1> SUFFICES ASSUME Init PROVE Inv
  OBVIOUS
<1>1. TypeOK
  BY DEF Init, TypeOK, PC
<1>2. RegisteredIsOpen /\ Alone /\ CancelDiesWithRun
  BY DEF Init, RegisteredIsOpen, Alone, AtWork, Cleaning, Announced, CancelDiesWithRun
<1> QED
  BY <1>1, <1>2 DEF Inv

\* A run moves on, none ends: the bridges stay as they are.
LEMMA MoveTyped ==
  ASSUME TypeOK, NEW r \in Runs, pc[r] # "ended", NEW there \in PC \ {"ended"},
         Goto(r, there), closed' = closed
  PROVE  /\ pc' \in [Runs -> PC]
         /\ closed' = {x \in Runs : pc'[x] = "ended"}
BY DEF TypeOK, Goto

LEMMA TypedStep == TypeOK /\ [Next]_vars => TypeOK'
<1> SUFFICES ASSUME TypeOK, [Next]_vars PROVE TypeOK'
  OBVIOUS
<1> USE DEF PC, Cleaning, Lost
<1>1. ASSUME NEW r \in Runs, Spawn(r) PROVE TypeOK'
  <2>1. pc' \in [Runs -> PC] /\ closed' = {x \in Runs : pc'[x] = "ended"}
    BY <1>1, MoveTyped DEF Spawn, history, keys
  <2>2. kept' \subseteq {x \in Runs : pc'[x] \in {"running", "keepalive"}}
    BY <1>1 DEF Spawn, Goto, TypeOK
  <2> QED
    BY <1>1, <2>1, <2>2 DEF Spawn, Registered, TypeOK, keys
<1>2. ASSUME NEW r \in Runs, SetActive(r) PROVE TypeOK'
  BY <1>2 DEF SetActive, TypeOK, history
<1>3. ASSUME NEW r \in Runs, KeepaliveFails(r) PROVE TypeOK'
  BY <1>3 DEF KeepaliveFails, TypeOK, history, keys
<1>4. ASSUME NEW r \in Runs, RunStep(r) PROVE TypeOK'
  <2>1. CASE TurnCancelled(r)
    BY <2>1, MoveTyped DEF TurnCancelled, Goto, TypeOK, history
  <2>2. CASE Finish(r)
    BY <2>2, MoveTyped DEF Finish, Goto, TypeOK, history, keys
  <2>3. CASE StopKeepalive(r)
    BY <2>3, MoveTyped DEF StopKeepalive, Goto, TypeOK, history, keys
  <2>4. CASE ClearActive(r)
    BY <2>4, MoveTyped DEF ClearActive, Goto, TypeOK, history
  <2>5. CASE ClearCancel(r)
    BY <2>5, MoveTyped DEF ClearCancel, CancelCleared, Goto, TypeOK, history
  <2>6. CASE ClearFails(r)
    BY <2>6, MoveTyped DEF ClearFails, Goto, TypeOK, history, keys
  <2>7. CASE Close(r)
    <3>1. closed' = {x \in Runs : pc'[x] = "ended"}
      BY <2>7 DEF Close, WithClosed, Goto, TypeOK
    <3> QED
      BY <2>7, <3>1 DEF Close, EntryRemoved, Goto, TypeOK, history, keys
  <2> QED
    BY <1>4, <2>1, <2>2, <2>3, <2>4, <2>5, <2>6, <2>7 DEF RunStep
<1>5. CASE CancelRequest
  BY <1>5 DEF CancelRequest, TypeOK
<1>6. CASE CancelExpires
  BY <1>6 DEF CancelExpires, TypeOK, history
<1>7. CASE ActiveExpires
  BY <1>7 DEF ActiveExpires, Expired, TypeOK, history
<1>8. CASE Crash
  <2>1. closed' = {x \in Runs : pc'[x] = "ended"}
    BY <1>8 DEF Crash, AtWork, TypeOK
  <2>2. setting' \in [Runs -> {"none", "pending", "done", "failed"}] /\ pc' \in [Runs -> PC]
    BY <1>8 DEF Crash, TypeOK
  <2> QED
    BY <1>8, <2>1, <2>2 DEF Crash, TypeOK, history, keys
<1>9. CASE UNCHANGED vars
  BY <1>9 DEF vars, keys, history, TypeOK
<1> QED
  BY <1>1, <1>2, <1>3, <1>4, <1>5, <1>6, <1>7, <1>8, <1>9 DEF Next

------------------------------------------------------------------------------
\* A bridge is registered when its run begins, and leaves the registry in the
\* step that closes it.
LEMMA OpenStep == TypeOK /\ RegisteredIsOpen /\ [Next]_vars => RegisteredIsOpen'
<1> SUFFICES ASSUME TypeOK, RegisteredIsOpen, [Next]_vars PROVE RegisteredIsOpen'
  OBVIOUS
<1> USE DEF RegisteredIsOpen
<1>1. ASSUME NEW r \in Runs, Spawn(r) PROVE RegisteredIsOpen'
  BY <1>1 DEF Spawn, Registered, TypeOK
<1>2. ASSUME NEW r \in Runs, Close(r) PROVE RegisteredIsOpen'
  BY <1>2 DEF Close, WithClosed, EntryRemoved, TypeOK
<1>3. CASE Crash
  BY <1>3 DEF Crash, TypeOK
<1>4. ASSUME UNCHANGED <<registry, closed>> PROVE RegisteredIsOpen'
  BY <1>4
<1> QED
  BY <1>1, <1>2, <1>3, <1>4
  DEF Next, SetActive, KeepaliveFails, RunStep, TurnCancelled, Finish, StopKeepalive,
      ClearActive, ClearCancel, ClearFails, CancelRequest, CancelExpires, ActiveExpires, vars

\* A run that works on, or cleans up, without a word about the active key.
LEMMA AloneKept ==
  ASSUME TypeOK, Alone, NEW r \in Runs, NEW there \in PC, Goto(r, there), AtWork(r),
         there = "running" => pc[r] = "running",
         kept' \subseteq kept, UNCHANGED <<registry, active, setting, overlapped>>
  PROVE  Alone'
BY DEF TypeOK, Alone, AtWork, Announced, Goto

LEMMA AloneStep == TypeOK /\ Alone /\ [Next]_vars => Alone'
<1> SUFFICES ASSUME TypeOK, Alone, [Next]_vars PROVE Alone'
  OBVIOUS
<1>1. ASSUME NEW r \in Runs, Spawn(r) PROVE Alone'
  <2> DEFINE others == {x \in Runs : AtWork(x)}
  <2>1. pc' = [pc EXCEPT ![r] = "running"] /\ setting'[r] = "pending" /\ registry' = r
    BY <1>1 DEF Spawn, Goto, Registered, TypeOK
  <2>2. CASE others = {}
    <3>1. \A x \in Runs \ {r} : pc'[x] # "running" /\ ~AtWork(x)'
      BY <2>1, <2>2 DEF AtWork, Cleaning, TypeOK
    <3>2. pc'[r] = "running" /\ ~Announced(r)' /\ \A x \in Runs \ {r} : ~Announced(x)'
      BY <2>1, <3>1 DEF Announced, TypeOK
    <3> QED
      BY <2>1, <3>1, <3>2 DEF Alone
  <2>3. CASE others # {}
    <3>1. overlapped' = overlapped \union others \union {r}
      BY <1>1, <2>3 DEF Spawn
    <3>2. \A x \in Runs \ overlapped' : ~AtWork(x)' /\ pc'[x] # "running"
      BY <2>1, <3>1 DEF AtWork, Cleaning, TypeOK
    <3> QED
      BY <3>2 DEF Alone, Announced
  <2> QED
    BY <2>2, <2>3
<1>2. ASSUME NEW r \in Runs, SetActive(r) PROVE Alone'
  BY <1>2 DEF SetActive, Alone, AtWork, Announced, TypeOK, history
<1>3. ASSUME NEW r \in Runs, KeepaliveFails(r) PROVE Alone'
  BY <1>3 DEF KeepaliveFails, Alone, AtWork, Announced, history, keys
<1>4. ASSUME NEW r \in Runs, RunStep(r) PROVE Alone'
  <2>1. CASE TurnCancelled(r)
    BY <2>1, AloneKept DEF TurnCancelled, AtWork, PC, Cleaning, history
  <2>2. CASE Finish(r)
    BY <2>2, AloneKept DEF Finish, AtWork, PC, Cleaning, history, keys
  <2>3. CASE StopKeepalive(r)
    BY <2>3, AloneKept DEF StopKeepalive, AtWork, PC, Cleaning, history, keys
  <2>4. CASE ClearActive(r)
    <3>1. \A x \in Runs \ overlapped : AtWork(x) => x = r
      BY <2>4 DEF Alone, ClearActive, AtWork, Cleaning
    <3>2. \A x \in Runs : pc'[x] = "running" => pc[x] = "running" /\ x # r
      BY <2>4 DEF ClearActive, Goto, TypeOK
    <3>3. \A x \in Runs : AtWork(x)' => AtWork(x)
      BY <2>4 DEF ClearActive, Goto, TypeOK, AtWork, Cleaning
    <3>4. \A x \in Runs \ overlapped' : pc'[x] # "running"
      BY <2>4, <3>1, <3>2 DEF ClearActive, AtWork, history
    <3> QED
      BY <2>4, <3>3, <3>4 DEF ClearActive, Alone, Announced, history
  <2>5. CASE ClearCancel(r)
    BY <2>5, AloneKept DEF ClearCancel, AtWork, PC, Cleaning, history
  <2>6. CASE ClearFails(r)
    BY <2>6, AloneKept DEF ClearFails, AtWork, PC, Cleaning, Lost, history, keys
  <2>7. CASE Close(r)
    <3>1. \A x \in Runs \ overlapped : AtWork(x) => x = r
      BY <2>7 DEF Alone, Close, AtWork, Cleaning
    <3>2. \A x \in Runs \ overlapped' : ~AtWork(x)' /\ pc'[x] # "running"
      BY <2>7, <3>1 DEF Close, Goto, TypeOK, AtWork, Cleaning, history
    <3> QED
      BY <3>2 DEF Alone, Announced
  <2> QED
    BY <1>4, <2>1, <2>2, <2>3, <2>4, <2>5, <2>6, <2>7 DEF RunStep
<1>5. CASE CancelRequest
  BY <1>5 DEF CancelRequest, Alone, AtWork, Announced
<1>6. CASE CancelExpires
  BY <1>6 DEF CancelExpires, Alone, AtWork, Announced, history
<1>7. CASE ActiveExpires
  BY <1>7 DEF ActiveExpires, Alone, AtWork, Announced, history
<1>8. CASE Crash
  <2>1. \A x \in Runs : ~AtWork(x)' /\ pc'[x] # "running"
    BY <1>8 DEF Crash, AtWork, Cleaning, TypeOK
  <2> QED
    BY <2>1 DEF Alone, Announced
<1>9. CASE UNCHANGED vars
  BY <1>9 DEF vars, keys, history, Alone, AtWork, Announced
<1> QED
  BY <1>1, <1>2, <1>3, <1>4, <1>5, <1>6, <1>7, <1>8, <1>9 DEF Next

\* Between the request and its own clean-up a run clears the cancel key, or it
\* is lost.
LEMMA CancelStep == TypeOK /\ CancelDiesWithRun /\ [Next]_vars => CancelDiesWithRun'
<1> SUFFICES ASSUME TypeOK, CancelDiesWithRun, [Next]_vars PROVE CancelDiesWithRun'
  OBVIOUS
<1> DEFINE MayGo(r) == CanClear(r) \/ pc[r] \in Lost
<1> USE DEF CancelDiesWithRun
<1>1. ASSUME NEW r \in Runs, NEW there \in PC, Goto(r, there), cancel' => cancel, meant' = meant,
             there \in {"running", "keepalive", "clearActive", "clearCancel"} \union Lost
      PROVE CancelDiesWithRun'
  BY <1>1 DEF Goto, TypeOK, CanClear
<1>2. ASSUME NEW r \in Runs, Spawn(r) PROVE CancelDiesWithRun'
  BY <1>1, <1>2 DEF Spawn, keys, PC
<1>3. ASSUME NEW r \in Runs, RunStep(r) PROVE CancelDiesWithRun'
  <2>1. CASE TurnCancelled(r)
    BY <2>1 DEF TurnCancelled
  <2>2. CASE Finish(r)
    BY <2>2, <1>1 DEF Finish, PC, Cleaning, keys, history
  <2>3. CASE StopKeepalive(r)
    BY <2>3, <1>1 DEF StopKeepalive, PC, Cleaning, keys, history
  <2>4. CASE ClearActive(r)
    BY <2>4, <1>1 DEF ClearActive, PC, Cleaning, history
  <2>5. CASE ClearCancel(r)
    BY <2>5 DEF ClearCancel, CancelCleared
  <2>6. CASE ClearFails(r)
    BY <2>6, <1>1 DEF ClearFails, PC, Lost, keys, history
  <2>7. CASE Close(r)
    <3>1. cancel => r \notin meant
      BY <2>7 DEF Close, CanClear, Lost
    <3> QED
      BY <2>7, <3>1 DEF Close, Goto, TypeOK, CanClear, keys, history
  <2> QED
    BY <1>3, <2>1, <2>2, <2>3, <2>4, <2>5, <2>6, <2>7 DEF RunStep
<1>4. CASE CancelRequest
  BY <1>4 DEF CancelRequest, CanClear
<1>5. CASE CancelExpires
  BY <1>5 DEF CancelExpires
<1>6. CASE Crash
  BY <1>6 DEF Crash, TypeOK, AtWork, CanClear, Cleaning, Lost, keys, history
<1>7. ASSUME UNCHANGED <<pc, cancel, meant>> PROVE CancelDiesWithRun'
  BY <1>7 DEF CanClear
<1> QED
  BY <1>2, <1>3, <1>4, <1>5, <1>6, <1>7
  DEF Next, SetActive, KeepaliveFails, ActiveExpires, vars, keys, history

LEMMA Invariance == Spec => []Inv
<1>1. Inv /\ [Next]_vars => Inv'
  BY TypedStep, OpenStep, AloneStep, CancelStep DEF Inv
<1> QED
  BY InitInv, <1>1, PTL DEF Spec

------------------------------------------------------------------------------
\* The state of a session stays of its type, and the closed bridges are exactly
\* those of the runs that ended in good order.
THEOREM StreamsTypeCorrect == Spec => []TypeOK
<1>1. Inv => TypeOK
  BY DEF Inv
<1> QED
  BY Invariance, <1>1, PTL

\* However many runs overlap, a reader that looks the session up in the
\* registry never gets a closed bridge.
THEOREM RegistryOpen == Spec => []RegisteredIsOpen
<1>1. Inv => RegisteredIsOpen
  BY DEF Inv
<1> QED
  BY Invariance, <1>1, PTL

\* Whatever earlier runs of the session left behind, a run without another one
\* beside it is found by reconnect_stream as long as it works.
THEOREM LoneFound == Spec => []LoneRunFound
<1>1. Inv => LoneRunFound
  BY DEF Inv, Alone, LoneRunFound, Announced, Found
<1> QED
  BY Invariance, <1>1, PTL

\* A cancel never outlives every run it was meant for, unless one of them could
\* not clean up.
THEOREM CancelDies == Spec => []CancelDiesWithRun
<1>1. Inv => CancelDiesWithRun
  BY DEF Inv
<1> QED
  BY Invariance, <1>1, PTL

------------------------------------------------------------------------------
(* The bill.                                                                *)

LEMMA BillingTyped == BillingInit => BillingTypeOK
<1> SUFFICES ASSUME BillingInit PROVE BillingTypeOK
  OBVIOUS
<1> DEFINE s0 == CHOOSE s \in Sessions : TRUE
<1>1. s0 \in Sessions
  BY BillingAssumption
<1>2. Unstarted(s0) \in TurnState
  BY <1>1, BillingAssumption DEF Unstarted, TurnState, Nobody, Busy
<1>3. turn = [t \in Turn |-> Unstarted(s0)]
  BY DEF BillingInit
<1>4. limited = FALSE /\ balance = 0 /\ admin = 0 /\ bus = [s \in Sessions |-> Nobody]
  BY Zenon DEF BillingInit
<1> HIDE DEF s0
<1>5. turn \in [Turn -> TurnState]
  BY <1>2, <1>3
<1>6. bus \in [Sessions -> 0 .. Turns] /\ admin \in 0 .. MaxAdmin /\ balance \in Int
  BY <1>4, BillingAssumption DEF Nobody
<1>7. limited \in BOOLEAN
  BY <1>4, Zenon
<1> QED
  BY <1>5, <1>6, <1>7 DEF BillingTypeOK

\* What a step may do to the record of a turn.
TurnPcs == {"idle"} \union Busy \union {"paid", "ended"}

LEMMA PcUpdated == ASSUME NEW r \in TurnState, NEW to \in TurnPcs PROVE [r EXCEPT !.pc = to] \in TurnState
  BY DEF TurnState, TurnPcs
LEMMA CleanUpdated == ASSUME NEW r \in TurnState, NEW b \in BOOLEAN PROVE [r EXCEPT !.clean = b] \in TurnState
  BY DEF TurnState
LEMMA AloneUpdated == ASSUME NEW r \in TurnState, NEW b \in BOOLEAN PROVE [r EXCEPT !.alone = b] \in TurnState
  BY DEF TurnState
LEMMA HeldUpdated == ASSUME NEW r \in TurnState, NEW h \in 0 .. Turns PROVE [r EXCEPT !.held = h] \in TurnState
  BY DEF TurnState
LEMMA ChildUpdated == ASSUME NEW r \in TurnState, NEW n \in Nat PROVE [r EXCEPT !.child = n] \in TurnState
  BY DEF TurnState
LEMMA CostUpdated == ASSUME NEW r \in TurnState, NEW n \in Nat PROVE [r EXCEPT !.cost = n] \in TurnState
  BY DEF TurnState
LEMMA UsedUpdated == ASSUME NEW r \in TurnState, NEW n \in Nat PROVE [r EXCEPT !.used = n] \in TurnState
  BY DEF TurnState
LEMMA ChargedUpdated == ASSUME NEW r \in TurnState, NEW n \in Nat PROVE [r EXCEPT !.charged = n] \in TurnState
  BY DEF TurnState

LEMMA BillingTypeStep == BillingTypeOK /\ [BillingNext]_billingVars => BillingTypeOK'
<1> SUFFICES ASSUME BillingTypeOK, [BillingNext]_billingVars PROVE BillingTypeOK'
  OBVIOUS
<1> USE DEF BillingTypeOK
<1>0. Nobody \in 0 .. Turns /\ Turn \subseteq 0 .. Turns
  BY BillingAssumption DEF Nobody, Turn
<1>19. ASSUME NEW t \in Turn, NEW x \in TurnState, turn' = [turn EXCEPT ![t] = x],
              bus' \in [Sessions -> 0 .. Turns], UNCHANGED <<limited, balance, admin>>
       PROVE  BillingTypeOK'
  BY <1>19
<1>1. CASE UNCHANGED billingVars
  BY <1>1 DEF billingVars
<1>2. ASSUME NEW t \in Turn, NEW s \in Sessions, NEW kind \in {"stream", "plain"}, Begin(t, s, kind)
      PROVE BillingTypeOK'
  <2> DEFINE one == [turn[t] EXCEPT !.pc = "checking", !.session = s, !.kind = kind,
                                    !.clean = (Together(s) = {})]
             new(u) == IF u = t THEN one
                       ELSE IF u \in Together(s) THEN [turn[u] EXCEPT !.clean = FALSE] ELSE turn[u]
  <2>1. (Together(s) = {}) \in BOOLEAN
    OBVIOUS
  <2>2. one \in TurnState
    BY <2>1 DEF TurnState, Busy
  <2>3. \A u \in Turn : new(u) \in TurnState
    BY <2>2, CleanUpdated
  <2>4. turn' = [u \in Turn |-> new(u)] /\ UNCHANGED <<limited, balance, admin, bus>>
    BY <1>2 DEF Begin
  <2> HIDE DEF new
  <2> QED
    BY <2>3, <2>4
<1>3. ASSUME NEW t \in Turn, Abort(t) PROVE BillingTypeOK'
  BY <1>3 DEF Abort, TurnState, Busy
<1>4. ASSUME NEW t \in Turn, Refuse(t) PROVE BillingTypeOK'
  BY <1>4 DEF Refuse, TurnState, Busy
<1>5. ASSUME NEW t \in Turn, Pass(t) PROVE BillingTypeOK'
  <2> DEFINE one == [turn[t] EXCEPT !.pc = "running"]
             two == [one EXCEPT !.used = 1]
             x == [turn[t] EXCEPT !.pc = "running", !.used = 1, !.alone = TRUE]
  <2>1. one \in TurnState
    BY PcUpdated DEF TurnPcs, Busy
  <2>2. two \in TurnState
    BY <2>1, UsedUpdated
  <2>3. x = [two EXCEPT !.alone = TRUE]
    BY DEF TurnState
  <2> HIDE DEF two
  <2>4. x \in TurnState
    BY <2>2, <2>3, AloneUpdated
  <2>5. turn' = [turn EXCEPT ![t] = x] /\ UNCHANGED <<limited, balance, admin>>
    BY <1>5 DEF Pass
  <2>6. turn[t].session \in Sessions /\ t \in 0 .. Turns
    BY <1>0 DEF TurnState
  <2>7. bus' \in [Sessions -> 0 .. Turns]
    BY <1>5, <2>6 DEF Pass
  <2> HIDE DEF x
  <2> QED
    BY <1>19, <2>4, <2>5, <2>7
<1>6. ASSUME NEW t \in Turn, Delegate(t) PROVE BillingTypeOK'
  <2> DEFINE x == [turn[t] EXCEPT !.pc = "delegating", !.held = bus[turn[t].session], !.used = 2]
  <2>1. bus[turn[t].session] \in 0 .. Turns
    BY DEF TurnState
  <2>2. x \in TurnState
    BY <2>1 DEF TurnState, Busy
  <2>3. turn' = [turn EXCEPT ![t] = x] /\ UNCHANGED <<limited, balance, admin, bus>>
    BY <1>6 DEF Delegate
  <2> HIDE DEF x
  <2> QED
    BY <1>19, <2>2, <2>3
<1>7. ASSUME NEW t \in Turn, Return(t) PROVE BillingTypeOK'
  <2> DEFINE new(u) == [turn[u] EXCEPT !.child = IF u \in Held(t) THEN @ + 1 ELSE @,
                                       !.held = IF u = t THEN Nobody ELSE @,
                                       !.pc = IF u = t THEN "running" ELSE @]
  <2>1. ASSUME NEW u \in Turn PROVE new(u) \in TurnState
    <3> DEFINE n == IF u \in Held(t) THEN turn[u].child + 1 ELSE turn[u].child
               h == IF u = t THEN Nobody ELSE turn[u].held
               to == IF u = t THEN "running" ELSE turn[u].pc
               one == [turn[u] EXCEPT !.child = n]
               two == [one EXCEPT !.held = h]
               three == [two EXCEPT !.pc = to]
    <3>1. turn[u] \in TurnState
      OBVIOUS
    <3>2. n \in Nat /\ h \in 0 .. Turns /\ to \in TurnPcs
      BY <1>0, <3>1 DEF TurnState, TurnPcs, Busy
    <3>3. new(u) = three
      BY <3>1 DEF TurnState
    <3> HIDE DEF n, h, to, new
    <3>4. one \in TurnState
      BY <3>1, <3>2, ChildUpdated
    <3> HIDE DEF one
    <3>5. two \in TurnState
      BY <3>2, <3>4, HeldUpdated
    <3> HIDE DEF two
    <3>6. three \in TurnState
      BY <3>2, <3>5, PcUpdated
    <3> QED
      BY <3>3, <3>6
  <2>2. turn' = [u \in Turn |-> new(u)]
    BY <1>7 DEF Return
  <2>3. UNCHANGED <<limited, balance, admin, bus>>
    BY <1>7 DEF Return
  <2> HIDE DEF new
  <2> QED
    BY <2>1, <2>2, <2>3
<1>8. ASSUME NEW t \in Turn, ReturnError(t) PROVE BillingTypeOK'
  <2> DEFINE one == [turn[t] EXCEPT !.pc = "running"]
             two == [one EXCEPT !.held = Nobody]
             x == [turn[t] EXCEPT !.pc = "running", !.held = Nobody, !.clean = FALSE]
  <2>1. one \in TurnState
    BY PcUpdated DEF TurnPcs, Busy
  <2>2. two \in TurnState
    BY <1>0, <2>1, HeldUpdated
  <2>3. x = [two EXCEPT !.clean = FALSE]
    BY DEF TurnState
  <2> HIDE DEF two
  <2>4. x \in TurnState
    BY <2>2, <2>3, CleanUpdated
  <2>5. turn' = [turn EXCEPT ![t] = x] /\ UNCHANGED <<limited, balance, admin, bus>>
    BY <1>8 DEF ReturnError
  <2> HIDE DEF x
  <2> QED
    BY <1>19, <2>4, <2>5
<1>20. ASSUME NEW t \in Turn PROVE Removed(t) \in [Sessions -> 0 .. Turns]
  BY <1>0 DEF Removed
<1>9. ASSUME NEW t \in Turn, Complete(t) PROVE BillingTypeOK'
  <2> DEFINE x == [turn[t] EXCEPT !.pc = "closing", !.cost = Folded(t, 1)]
  <2>1. Folded(t, 1) \in Nat
    BY DEF Folded, TurnState
  <2>2. x \in TurnState
    BY <2>1 DEF TurnState, Busy
  <2>3. turn' = [turn EXCEPT ![t] = x] /\ bus' = Removed(t) /\ UNCHANGED <<limited, balance, admin>>
    BY <1>9 DEF Complete
  <2> HIDE DEF x
  <2> QED
    BY <1>19, <1>20, <2>2, <2>3
<1>10. ASSUME NEW t \in Turn, Interrupt(t) PROVE BillingTypeOK'
  <2> DEFINE to == IF turn[t].kind = "stream" THEN "closing" ELSE "ended"
             n == IF turn[t].kind = "stream" THEN Folded(t, 0) ELSE 0
             one == [turn[t] EXCEPT !.pc = to]
             two == [one EXCEPT !.held = Nobody]
             three == [two EXCEPT !.cost = n]
             x == [turn[t] EXCEPT !.clean = FALSE, !.held = Nobody, !.pc = to, !.cost = n]
  <2>1. n \in Nat /\ to \in TurnPcs
    BY DEF Folded, TurnState, TurnPcs, Busy
  <2>2. turn' = [turn EXCEPT ![t] = x] /\ bus' = Removed(t) /\ UNCHANGED <<limited, balance, admin>>
    BY <1>10 DEF Interrupt
  <2> HIDE DEF n, to
  <2>3. one \in TurnState
    BY <2>1, PcUpdated
  <2>4. two \in TurnState
    BY <1>0, <2>3, HeldUpdated
  <2>5. x = [three EXCEPT !.clean = FALSE]
    BY DEF TurnState
  <2> HIDE DEF two
  <2>6. three \in TurnState
    BY <2>1, <2>4, CostUpdated
  <2> HIDE DEF three
  <2>7. x \in TurnState
    BY <2>5, <2>6, CleanUpdated
  <2> HIDE DEF x
  <2> QED
    BY <1>19, <1>20, <2>2, <2>7
<1>11. ASSUME NEW t \in Turn, WriteLog(t) PROVE BillingTypeOK'
  BY <1>11 DEF WriteLog, TurnState, Busy
<1>12. ASSUME NEW t \in Turn, ReadBalance(t) PROVE BillingTypeOK'
  <2> DEFINE to == IF limited THEN "deducting" ELSE "ended"
             b == turn[t].clean /\ limited
             one == [turn[t] EXCEPT !.pc = to]
             x == [turn[t] EXCEPT !.pc = to, !.clean = b]
  <2>1. to \in TurnPcs /\ b \in BOOLEAN
    BY DEF Busy, TurnPcs
  <2>2. turn' = [turn EXCEPT ![t] = x] /\ UNCHANGED <<limited, balance, admin, bus>>
    BY <1>12 DEF ReadBalance
  <2> HIDE DEF to, b
  <2>3. one \in TurnState
    BY <2>1, PcUpdated
  <2>4. x = [one EXCEPT !.clean = b]
    BY <2>1 DEF TurnState
  <2> HIDE DEF one
  <2>5. x \in TurnState
    BY <2>1, <2>3, <2>4, CleanUpdated
  <2> HIDE DEF x
  <2> QED
    BY <1>19, <2>2, <2>5
<1>13. ASSUME NEW t \in Turn, Deduct(t) PROVE BillingTypeOK'
  <2> DEFINE b(u) == turn[u].alone /\ turn[t].cost = 0
             new(u) == CASE u = t -> [turn[t] EXCEPT !.pc = "paid", !.charged = turn[t].cost]
                         [] u \in Seen(t) -> [turn[u] EXCEPT !.alone = b(u)]
                         [] OTHER -> turn[u]
  <2>1. \A u \in Turn : b(u) \in BOOLEAN
    BY Zenon
  <2>2. turn' = [u \in Turn |-> new(u)]
    BY <1>13, Zenon DEF Deduct
  <2>3. [turn[t] EXCEPT !.pc = "paid", !.charged = turn[t].cost] \in TurnState
    BY DEF TurnState
  <2> HIDE DEF b
  <2>4. \A u \in Turn : [turn[u] EXCEPT !.alone = b(u)] \in TurnState
    BY <2>1, AloneUpdated
  <2>5. \A u \in Turn : new(u) \in TurnState
    BY <2>3, <2>4
  <2>6. balance' \in Int
    BY <1>13 DEF Deduct, TurnState
  <2> HIDE DEF new
  <2> QED
    BY <1>13, <2>2, <2>5, <2>6 DEF Deduct
<1>14. ASSUME NEW t \in Turn, BillFails(t) PROVE BillingTypeOK'
  <2> DEFINE one == [turn[t] EXCEPT !.pc = "ended"]
             x == [turn[t] EXCEPT !.pc = "ended", !.clean = FALSE]
  <2>1. turn' = [turn EXCEPT ![t] = x] /\ UNCHANGED <<limited, balance, admin, bus>>
    BY <1>14 DEF BillFails
  <2>2. one \in TurnState
    BY PcUpdated DEF TurnPcs, Busy
  <2>3. x = [one EXCEPT !.clean = FALSE]
    BY DEF TurnState
  <2> HIDE DEF one
  <2>4. x \in TurnState
    BY <2>2, <2>3, CleanUpdated
  <2> HIDE DEF x
  <2> QED
    BY <1>19, <2>1, <2>4
<1>15. CASE ProcessDies
  <2> DEFINE new(t) == IF turn[t].pc \in Busy THEN [turn[t] EXCEPT !.pc = "ended", !.clean = FALSE] ELSE turn[t]
  <2>1. ASSUME NEW t \in Turn PROVE new(t) \in TurnState
    <3> DEFINE one == [turn[t] EXCEPT !.pc = "ended"]
    <3>1. turn[t] \in TurnState
      OBVIOUS
    <3>2. one \in TurnState
      BY PcUpdated DEF TurnPcs
    <3>3. [turn[t] EXCEPT !.pc = "ended", !.clean = FALSE] = [one EXCEPT !.clean = FALSE]
      BY <3>1 DEF TurnState
    <3> HIDE DEF one
    <3>4. [one EXCEPT !.clean = FALSE] \in TurnState
      BY <3>2, CleanUpdated
    <3> QED
      BY <3>1, <3>3, <3>4
  <2>2. turn' = [t \in Turn |-> new(t)]
    BY <1>15 DEF ProcessDies
  <2> HIDE DEF new
  <2> QED
    BY <1>0, <1>15, <2>1, <2>2 DEF ProcessDies
<1>16. ASSUME ByAdmin PROVE turn' \in [Turn -> TurnState] /\ admin' \in 0 .. MaxAdmin /\ bus' = bus
  <2> DEFINE b(u) == turn[u].alone /\ turn[u].pc \notin Busy
             new(u) == [turn[u] EXCEPT !.alone = b(u)]
  <2>1. \A u \in Turn : b(u) \in BOOLEAN
    BY Zenon
  <2>2. turn' = [u \in Turn |-> new(u)]
    BY <1>16, Zenon DEF ByAdmin
  <2> HIDE DEF b
  <2>3. \A u \in Turn : new(u) \in TurnState
    BY <2>1, AloneUpdated
  <2> HIDE DEF new
  <2> QED
    BY <1>16, <2>2, <2>3, BillingAssumption DEF ByAdmin
<1>17. CASE AddFunds
  <2>1. balance' \in Int
    BY <1>17, BillingAssumption DEF AddFunds
  <2> QED
    BY <1>16, <1>17, <2>1 DEF AddFunds
<1>18. CASE LiftLimit
  <2>1. limited' = FALSE /\ balance' = 0 /\ ByAdmin
    BY <1>18, Zenon DEF LiftLimit
  <2>2. limited' \in BOOLEAN
    BY <2>1, Zenon
  <2>3. balance' \in Int
    BY <2>1
  <2> QED
    BY <1>16, <2>1, <2>2, <2>3
<1> QED
  BY <1>1, <1>2, <1>3, <1>4, <1>5, <1>6, <1>7, <1>8, <1>9, <1>10, <1>11, <1>12, <1>13, <1>14,
     <1>15, <1>17, <1>18 DEF BillingNext

\* Everything has its type, whatever the turns do.
THEOREM BillingTypeCorrect == BillingSpec => []BillingTypeOK
<1> QED
  BY BillingTyped, BillingTypeStep, PTL DEF BillingSpec

\* What the steps that change a Boolean field, or several turns, leave alone.
LEMMA ReturnKeeps ==
  ASSUME BillingTypeOK, NEW t \in Turn, Return(t), NEW u \in Turn
  PROVE  /\ UNCHANGED <<bus, limited, balance>> /\ turn[t].pc = "delegating"
         /\ turn'[u].pc = IF u = t THEN "running" ELSE turn[u].pc
         /\ turn'[u].held = IF u = t THEN Nobody ELSE turn[u].held
         /\ turn'[u].child = IF u \in Held(t) THEN turn[u].child + 1 ELSE turn[u].child
         /\ turn'[u].kind = turn[u].kind /\ turn'[u].session = turn[u].session
         /\ turn'[u].cost = turn[u].cost /\ turn'[u].used = turn[u].used
         /\ turn'[u].charged = turn[u].charged
         /\ turn'[u].alone = turn[u].alone /\ turn'[u].clean = turn[u].clean
<1>1. turn[u] \in TurnState
  BY DEF BillingTypeOK
<1> DEFINE child == IF u \in Held(t) THEN turn[u].child + 1 ELSE turn[u].child
           held == IF u = t THEN Nobody ELSE turn[u].held
           to == IF u = t THEN "running" ELSE turn[u].pc
<1>2. turn'[u] = [turn[u] EXCEPT !.child = child, !.held = held, !.pc = to]
  BY <1>1 DEF Return, TurnState
<1> HIDE DEF child, held, to
<1>3. /\ turn'[u].child = child /\ turn'[u].held = held /\ turn'[u].pc = to
      /\ turn'[u].kind = turn[u].kind /\ turn'[u].session = turn[u].session
      /\ turn'[u].cost = turn[u].cost /\ turn'[u].used = turn[u].used
      /\ turn'[u].charged = turn[u].charged
      /\ turn'[u].alone = turn[u].alone /\ turn'[u].clean = turn[u].clean
  BY <1>1, <1>2 DEF TurnState
<1>4. UNCHANGED <<bus, limited, balance>> /\ turn[t].pc = "delegating"
  BY DEF Return
<1> QED
  BY <1>3, <1>4 DEF child, held, to

LEMMA DeductKeeps ==
  ASSUME BillingTypeOK, NEW t \in Turn, Deduct(t), NEW u \in Turn
  PROVE  /\ bus' = bus /\ turn[t].pc = "deducting"
         /\ turn'[u].pc = IF u = t THEN "paid" ELSE turn[u].pc
         /\ turn'[u].charged = IF u = t THEN turn[t].cost ELSE turn[u].charged
         /\ u # t /\ turn[u].pc \in Busy => turn'[u].alone = (turn[u].alone /\ turn[t].cost = 0)
         /\ turn'[u].held = turn[u].held /\ turn'[u].child = turn[u].child
         /\ turn'[u].kind = turn[u].kind /\ turn'[u].session = turn[u].session
         /\ turn'[u].cost = turn[u].cost /\ turn'[u].used = turn[u].used
         /\ turn'[u].clean = turn[u].clean
<1>1. turn[u] \in TurnState
  BY DEF BillingTypeOK
<1>5. bus' = bus /\ turn[t].pc = "deducting"
  BY DEF Deduct
<1>2. CASE u = t
  <2>1. turn'[u] = [turn[u] EXCEPT !.pc = "paid", !.charged = turn[t].cost]
    BY <1>2 DEF Deduct, Seen
  <2> QED
    BY <1>1, <1>2, <1>5, <2>1 DEF TurnState
<1>3. CASE u # t /\ u \in Seen(t)
  <2> DEFINE b == turn[u].alone /\ turn[t].cost = 0
  <2>1. turn'[u] = [turn[u] EXCEPT !.alone = b]
    BY <1>3, Zenon DEF Deduct
  <2>2. b \in BOOLEAN
    BY Zenon
  <2> HIDE DEF b
  <2>3. /\ turn'[u].alone = b /\ turn'[u].pc = turn[u].pc /\ turn'[u].charged = turn[u].charged
        /\ turn'[u].held = turn[u].held /\ turn'[u].child = turn[u].child
        /\ turn'[u].kind = turn[u].kind /\ turn'[u].session = turn[u].session
        /\ turn'[u].cost = turn[u].cost /\ turn'[u].used = turn[u].used
        /\ turn'[u].clean = turn[u].clean
    BY <1>1, <2>1, <2>2 DEF TurnState
  <2> QED
    BY <1>3, <1>5, <2>3 DEF b
<1>4. CASE u # t /\ u \notin Seen(t)
  <2>1. turn'[u] = turn[u]
    BY <1>4, Zenon DEF Deduct
  <2>2. turn[u].pc \notin Busy
    BY <1>4 DEF Seen
  <2> QED
    BY <1>4, <1>5, <2>1, <2>2
<1> QED
  BY <1>2, <1>3, <1>4

LEMMA BeginKeeps ==
  ASSUME BillingTypeOK, NEW t \in Turn, NEW s \in Sessions, NEW kind \in {"stream", "plain"},
         Begin(t, s, kind), NEW u \in Turn
  PROVE  /\ UNCHANGED <<bus, limited, balance>> /\ turn[t].pc = "idle"
         /\ turn'[u].pc = IF u = t THEN "checking" ELSE turn[u].pc
         /\ turn'[u].session = IF u = t THEN s ELSE turn[u].session
         /\ turn'[u].kind = IF u = t THEN kind ELSE turn[u].kind
         /\ turn'[u].clean => u \notin Together(s) /\ (u = t => Together(s) = {})
         /\ turn'[u].clean /\ u # t => turn[u].clean
         /\ turn'[u].held = turn[u].held /\ turn'[u].child = turn[u].child
         /\ turn'[u].cost = turn[u].cost /\ turn'[u].used = turn[u].used
         /\ turn'[u].charged = turn[u].charged /\ turn'[u].alone = turn[u].alone
<1>1. turn[u] \in TurnState
  BY DEF BillingTypeOK
<1>6. UNCHANGED <<bus, limited, balance>> /\ turn[t].pc = "idle"
  BY DEF Begin
<1>2. t \notin Together(s)
  BY <1>6 DEF Together
<1>3. CASE u = t
  <2> DEFINE b == Together(s) = {}
  <2>1. turn'[u] = [turn[u] EXCEPT !.pc = "checking", !.session = s, !.kind = kind, !.clean = b]
    BY <1>3, Zenon DEF Begin
  <2>2. b \in BOOLEAN
    BY Zenon
  <2> HIDE DEF b
  <2>3. /\ turn'[u].pc = "checking" /\ turn'[u].session = s /\ turn'[u].kind = kind
        /\ turn'[u].clean = b
        /\ turn'[u].held = turn[u].held /\ turn'[u].child = turn[u].child
        /\ turn'[u].cost = turn[u].cost /\ turn'[u].used = turn[u].used
        /\ turn'[u].charged = turn[u].charged /\ turn'[u].alone = turn[u].alone
    BY <1>1, <2>1, <2>2 DEF TurnState
  <2> QED
    BY <1>2, <1>3, <1>6, <2>3 DEF b
<1>4. CASE u # t /\ u \in Together(s)
  <2>1. turn'[u] = [turn[u] EXCEPT !.clean = FALSE]
    BY <1>4 DEF Begin
  <2> QED
    BY <1>1, <1>4, <1>6, <2>1 DEF TurnState
<1>5. CASE u # t /\ u \notin Together(s)
  <2>1. turn'[u] = turn[u]
    BY <1>5 DEF Begin
  <2> QED
    BY <1>5, <1>6, <2>1
<1> QED
  BY <1>3, <1>4, <1>5

LEMMA AdminKeeps ==
  ASSUME BillingTypeOK, ByAdmin, NEW u \in Turn
  PROVE  /\ bus' = bus
         /\ turn'[u].pc = turn[u].pc /\ turn'[u].session = turn[u].session
         /\ turn'[u].kind = turn[u].kind /\ turn'[u].clean = turn[u].clean
         /\ turn'[u].held = turn[u].held /\ turn'[u].child = turn[u].child
         /\ turn'[u].cost = turn[u].cost /\ turn'[u].used = turn[u].used
         /\ turn'[u].charged = turn[u].charged
         /\ turn'[u].alone => turn[u].pc \notin Busy
<1> DEFINE b == turn[u].alone /\ turn[u].pc \notin Busy
<1>1. turn[u] \in TurnState
  BY DEF BillingTypeOK
<1>2. turn'[u] = [turn[u] EXCEPT !.alone = b]
  BY Zenon DEF ByAdmin
<1>3. bus' = bus
  BY DEF ByAdmin
<1>4. b \in BOOLEAN
  BY Zenon
<1> HIDE DEF b
<1>5. /\ turn'[u].pc = turn[u].pc /\ turn'[u].session = turn[u].session
      /\ turn'[u].kind = turn[u].kind /\ turn'[u].clean = turn[u].clean
      /\ turn'[u].held = turn[u].held /\ turn'[u].child = turn[u].child
      /\ turn'[u].cost = turn[u].cost /\ turn'[u].used = turn[u].used
      /\ turn'[u].charged = turn[u].charged /\ turn'[u].alone = b
  BY <1>1, <1>2, <1>4 DEF TurnState
<1>6. turn'[u].alone => turn[u].pc \notin Busy
  BY <1>5, Zenon DEF b
<1> QED
  BY <1>3, <1>5, <1>6

LEMMA ReadKeeps ==
  ASSUME BillingTypeOK, NEW t \in Turn, ReadBalance(t), NEW u \in Turn
  PROVE  /\ UNCHANGED <<bus, limited, balance>> /\ turn[t].pc = "logged"
         /\ turn'[u].pc = IF u = t THEN (IF limited THEN "deducting" ELSE "ended") ELSE turn[u].pc
         /\ turn'[u].clean => turn[u].clean /\ (u = t => limited)
         /\ turn'[u].session = turn[u].session /\ turn'[u].kind = turn[u].kind
         /\ turn'[u].held = turn[u].held /\ turn'[u].child = turn[u].child
         /\ turn'[u].cost = turn[u].cost /\ turn'[u].used = turn[u].used
         /\ turn'[u].charged = turn[u].charged /\ turn'[u].alone = turn[u].alone
<1>1. turn[u] \in TurnState /\ turn[t] \in TurnState
  BY DEF BillingTypeOK
<1>4. UNCHANGED <<bus, limited, balance>> /\ turn[t].pc = "logged"
  BY DEF ReadBalance
<1>2. CASE u # t
  BY <1>1, <1>2, <1>4 DEF ReadBalance, BillingTypeOK
<1>3. CASE u = t
  <2> DEFINE b == turn[t].clean /\ limited
             to == IF limited THEN "deducting" ELSE "ended"
  <2>1. turn'[t] = [turn[t] EXCEPT !.pc = to, !.clean = b]
    BY DEF ReadBalance, BillingTypeOK
  <2>2. b \in BOOLEAN
    BY Zenon
  <2> HIDE DEF b, to
  <2>3. /\ turn'[t].pc = to /\ turn'[t].clean = b
        /\ turn'[t].session = turn[t].session /\ turn'[t].kind = turn[t].kind
        /\ turn'[t].held = turn[t].held /\ turn'[t].child = turn[t].child
        /\ turn'[t].cost = turn[t].cost /\ turn'[t].used = turn[t].used
        /\ turn'[t].charged = turn[t].charged /\ turn'[t].alone = turn[t].alone
    BY <1>1, <2>1, <2>2 DEF TurnState
  <2>4. turn'[t].clean => turn[t].clean /\ limited
    BY <2>3, Zenon DEF b
  <2> QED
    BY <1>3, <1>4, <2>3, <2>4 DEF to
<1> QED
  BY <1>2, <1>3

LEMMA PassKeeps ==
  ASSUME BillingTypeOK, NEW t \in Turn, Pass(t), NEW u \in Turn
  PROVE  /\ UNCHANGED <<limited, balance>> /\ turn[t].pc = "checking" /\ ~Broke
         /\ bus' = IF turn[t].kind = "stream" THEN [bus EXCEPT ![turn[t].session] = t] ELSE bus
         /\ turn'[u].pc = IF u = t THEN "running" ELSE turn[u].pc
         /\ turn'[u].used = IF u = t THEN 1 ELSE turn[u].used
         /\ turn'[u].clean = turn[u].clean
         /\ turn'[u].session = turn[u].session /\ turn'[u].kind = turn[u].kind
         /\ turn'[u].held = turn[u].held /\ turn'[u].child = turn[u].child
         /\ turn'[u].cost = turn[u].cost /\ turn'[u].charged = turn[u].charged
         /\ u # t => turn'[u].alone = turn[u].alone
<1>1. turn[u] \in TurnState
  BY DEF BillingTypeOK
<1>4. /\ UNCHANGED <<limited, balance>> /\ turn[t].pc = "checking" /\ ~Broke
      /\ bus' = IF turn[t].kind = "stream" THEN [bus EXCEPT ![turn[t].session] = t] ELSE bus
  BY DEF Pass
<1>2. CASE u = t
  <2>1. turn'[u] = [turn[u] EXCEPT !.pc = "running", !.used = 1, !.alone = TRUE]
    BY <1>2 DEF Pass, BillingTypeOK
  <2>2. /\ turn'[u].pc = "running" /\ turn'[u].used = 1 /\ turn'[u].clean = turn[u].clean
        /\ turn'[u].session = turn[u].session /\ turn'[u].kind = turn[u].kind
        /\ turn'[u].held = turn[u].held /\ turn'[u].child = turn[u].child
        /\ turn'[u].cost = turn[u].cost /\ turn'[u].charged = turn[u].charged
    BY <1>1, <2>1 DEF TurnState
  <2> QED
    BY <1>2, <1>4, <2>2
<1>3. CASE u # t
  <2>1. turn'[u] = turn[u]
    BY <1>3 DEF Pass, BillingTypeOK
  <2> QED
    BY <1>3, <1>4, <2>1
<1> QED
  BY <1>2, <1>3

LEMMA CompleteKeeps ==
  ASSUME BillingTypeOK, NEW t \in Turn, Complete(t), NEW u \in Turn
  PROVE  /\ UNCHANGED <<limited, balance>> /\ turn[t].pc = "running" /\ bus' = Removed(t)
         /\ u # t => turn'[u] = turn[u]
         /\ turn'[t].pc = "closing" /\ turn'[t].cost = Folded(t, 1)
         /\ turn'[u].session = turn[u].session /\ turn'[u].kind = turn[u].kind
         /\ turn'[u].child = turn[u].child /\ turn'[u].used = turn[u].used
         /\ turn'[u].charged = turn[u].charged /\ turn'[u].alone = turn[u].alone
         /\ turn'[u].clean = turn[u].clean
<1>1. turn[t] \in TurnState
  BY DEF BillingTypeOK
<1> DEFINE n == Folded(t, 1)
<1>2. turn'[t] = [turn[t] EXCEPT !.pc = "closing", !.cost = n] /\ (u # t => turn'[u] = turn[u])
  BY DEF Complete, BillingTypeOK
<1> HIDE DEF n
<1>3. /\ turn'[t].pc = "closing" /\ turn'[t].cost = n
      /\ turn'[t].session = turn[t].session /\ turn'[t].kind = turn[t].kind
      /\ turn'[t].child = turn[t].child /\ turn'[t].used = turn[t].used
      /\ turn'[t].charged = turn[t].charged /\ turn'[t].alone = turn[t].alone
      /\ turn'[t].clean = turn[t].clean
  BY <1>1, <1>2 DEF TurnState
<1>4. UNCHANGED <<limited, balance>> /\ turn[t].pc = "running" /\ bus' = Removed(t)
  BY DEF Complete
<1> QED
  BY <1>2, <1>3, <1>4 DEF n

LEMMA InterruptKeeps ==
  ASSUME BillingTypeOK, NEW t \in Turn, Interrupt(t), NEW u \in Turn
  PROVE  /\ UNCHANGED <<limited, balance>> /\ turn[t].pc \in {"running", "delegating"}
         /\ bus' = Removed(t)
         /\ u # t => turn'[u] = turn[u]
         /\ turn'[t].pc = IF turn[t].kind = "stream" THEN "closing" ELSE "ended"
         /\ turn'[u].session = turn[u].session /\ turn'[u].kind = turn[u].kind
         /\ turn'[u].child = turn[u].child /\ turn'[u].used = turn[u].used
         /\ turn'[u].charged = turn[u].charged /\ turn'[u].alone = turn[u].alone
         /\ turn'[t].cost = IF turn[t].kind = "stream" THEN Folded(t, 0) ELSE 0
         /\ ~turn'[t].clean
<1>1. turn[t] \in TurnState
  BY DEF BillingTypeOK
<1> DEFINE to == IF turn[t].kind = "stream" THEN "closing" ELSE "ended"
           n == IF turn[t].kind = "stream" THEN Folded(t, 0) ELSE 0
<1>2. turn'[t] = [turn[t] EXCEPT !.clean = FALSE, !.held = Nobody, !.pc = to, !.cost = n]
      /\ (u # t => turn'[u] = turn[u])
  BY DEF Interrupt, BillingTypeOK
<1> HIDE DEF to, n
<1>3. /\ turn'[t].pc = to
      /\ turn'[t].session = turn[t].session /\ turn'[t].kind = turn[t].kind
      /\ turn'[t].child = turn[t].child /\ turn'[t].used = turn[t].used
      /\ turn'[t].charged = turn[t].charged /\ turn'[t].alone = turn[t].alone
      /\ turn'[t].cost = n /\ ~turn'[t].clean
  BY <1>1, <1>2 DEF TurnState
<1>4. UNCHANGED <<limited, balance>> /\ turn[t].pc \in {"running", "delegating"} /\ bus' = Removed(t)
  BY DEF Interrupt
<1> QED
  BY <1>2, <1>3, <1>4 DEF to, n

LEMMA DiesKeeps ==
  ASSUME BillingTypeOK, ProcessDies, NEW u \in Turn
  PROVE  /\ UNCHANGED <<limited, balance>> /\ bus' = [s \in Sessions |-> Nobody]
         /\ turn'[u].pc = IF turn[u].pc \in Busy THEN "ended" ELSE turn[u].pc
         /\ turn[u].pc \notin Busy => turn'[u] = turn[u]
         /\ turn[u].pc \in Busy => ~turn'[u].clean
         /\ turn'[u].charged = turn[u].charged
         /\ turn'[u].cost = turn[u].cost /\ turn'[u].used = turn[u].used
<1>1. turn[u] \in TurnState
  BY DEF BillingTypeOK
<1>2. UNCHANGED <<limited, balance>> /\ bus' = [s \in Sessions |-> Nobody]
  BY DEF ProcessDies
<1>3. CASE turn[u].pc \in Busy
  <2>1. turn'[u] = [turn[u] EXCEPT !.pc = "ended", !.clean = FALSE]
    BY <1>3 DEF ProcessDies
  <2>2. /\ turn'[u].pc = "ended" /\ ~turn'[u].clean /\ turn'[u].charged = turn[u].charged
        /\ turn'[u].cost = turn[u].cost /\ turn'[u].used = turn[u].used
    BY <1>1, <2>1 DEF TurnState
  <2> QED
    BY <1>2, <1>3, <2>2
<1>4. CASE turn[u].pc \notin Busy
  <2>1. turn'[u] = turn[u]
    BY <1>4 DEF ProcessDies
  <2> QED
    BY <1>2, <1>4, <2>1
<1> QED
  BY <1>3, <1>4

\* While a turn is to be billed, and nobody else has changed the balance since its
\* check, something is left.
Solvent ==
  \A t \in Turn :
    /\ turn[t].pc \in {"idle", "checking"} => turn[t].cost = 0
    /\ (\/ turn[t].pc \in {"running", "delegating"}
        \/ turn[t].pc \in {"closing", "logged", "deducting"} /\ turn[t].cost > 0)
       => (turn[t].alone /\ limited => balance > 0)

LEMMA SolventStep ==
  BillingTypeOK /\ Solvent /\ [BillingNext]_billingVars => Solvent'
<1> SUFFICES ASSUME BillingTypeOK, Solvent, [BillingNext]_billingVars PROVE Solvent'
  OBVIOUS
<1> USE DEF BillingTypeOK, Solvent, Busy
<1>1. CASE UNCHANGED billingVars
  BY <1>1 DEF billingVars
<1>2. ASSUME NEW t \in Turn, NEW s \in Sessions, NEW kind \in {"stream", "plain"},
              Begin(t, s, kind) PROVE Solvent'
  BY <1>2, BeginKeeps
<1>3. ASSUME NEW t \in Turn, Abort(t) PROVE Solvent'
  BY <1>3 DEF Abort, TurnState
<1>4. ASSUME NEW t \in Turn, Refuse(t) PROVE Solvent'
  BY <1>4 DEF Refuse, TurnState
<1>5. ASSUME NEW t \in Turn, Pass(t) PROVE Solvent'
  BY <1>5, PassKeeps DEF Broke
<1>6. ASSUME NEW t \in Turn, Delegate(t) PROVE Solvent'
  BY <1>6 DEF Delegate, TurnState
<1>7. ASSUME NEW t \in Turn, Return(t) PROVE Solvent'
  BY <1>7, ReturnKeeps
<1>8. ASSUME NEW t \in Turn, ReturnError(t) PROVE Solvent'
  BY <1>8 DEF ReturnError, TurnState
<1>9. ASSUME NEW t \in Turn, Complete(t) PROVE Solvent'
  BY <1>9, CompleteKeeps
<1>10. ASSUME NEW t \in Turn, Interrupt(t) PROVE Solvent'
  BY <1>10, InterruptKeeps
<1>11. ASSUME NEW t \in Turn, WriteLog(t) PROVE Solvent'
  BY <1>11 DEF WriteLog, TurnState
<1>12. ASSUME NEW t \in Turn, ReadBalance(t) PROVE Solvent'
  BY <1>12, ReadKeeps
<1>13. ASSUME NEW t \in Turn, Deduct(t) PROVE Solvent'
  <2>1. /\ limited' = limited /\ balance' = balance - turn[t].cost
        /\ turn[t].cost \in Nat /\ turn[t].pc = "deducting"
    BY <1>13 DEF Deduct, TurnState
  <2>2. ASSUME NEW u \in Turn, u # t, turn[u].pc \in Busy, turn'[u].alone
        PROVE  turn[u].alone /\ balance' = balance
    <3>1. turn[u].alone /\ turn[t].cost = 0
      BY <1>13, <2>2, DeductKeeps, Zenon
    <3> QED
      BY <2>1, <3>1
  <2> QED
    BY <1>13, <2>1, <2>2, DeductKeeps DEF Busy
<1>14. ASSUME NEW t \in Turn, BillFails(t) PROVE Solvent'
  BY <1>14 DEF BillFails, TurnState
<1>15. ASSUME ProcessDies PROVE Solvent'
  BY <1>15, DiesKeeps
<1>16. ASSUME AddFunds \/ LiftLimit PROVE Solvent'
  BY <1>16, AdminKeeps DEF AddFunds, LiftLimit
<1> QED
  BY <1>1, <1>2, <1>3, <1>4, <1>5, <1>6, <1>7, <1>8, <1>9,
     <1>10, <1>11, <1>12, <1>13, <1>14, <1>15, <1>16 DEF BillingNext

\* Only the deduction charges, and it charges the cost.
LEMMA OnlyDeducted ==
  ASSUME BillingTypeOK, [BillingNext]_billingVars,
         NEW u \in Turn, turn'[u].charged > turn[u].charged
  PROVE  Deduct(u) /\ turn[u].cost > 0
<1> USE DEF BillingTypeOK
<1>1. ASSUME NEW t \in Turn, NEW s \in Sessions, NEW kind \in {"stream", "plain"}, Begin(t, s, kind)
      PROVE  turn'[u].charged = turn[u].charged
  BY <1>1, BeginKeeps
<1>2. ASSUME NEW t \in Turn, Abort(t) \/ Refuse(t)
      PROVE  turn'[u].charged = turn[u].charged
  BY <1>2 DEF Abort, Refuse, TurnState
<1>12. ASSUME NEW t \in Turn, Delegate(t) \/ ReturnError(t)
       PROVE  turn'[u].charged = turn[u].charged
  <2>1. CASE Delegate(t)
    BY <2>1 DEF Delegate, TurnState
  <2>2. CASE ReturnError(t)
    BY <2>2 DEF ReturnError, TurnState
  <2> QED
    BY <1>12, <2>1, <2>2
<1>3. ASSUME NEW t \in Turn, Pass(t) \/ Return(t) \/ Complete(t) \/ Interrupt(t) \/ ReadBalance(t)
      PROVE  turn'[u].charged = turn[u].charged
  BY <1>3, PassKeeps, ReturnKeeps, CompleteKeeps, InterruptKeeps, ReadKeeps
<1>4. ASSUME NEW t \in Turn, WriteLog(t) \/ BillFails(t)
      PROVE  turn'[u].charged = turn[u].charged
  <2>1. CASE WriteLog(t)
    BY <2>1 DEF WriteLog, TurnState
  <2>2. CASE BillFails(t)
    BY <2>2 DEF BillFails, TurnState
  <2> QED
    BY <1>4, <2>1, <2>2
<1>5. ASSUME ProcessDies PROVE turn'[u].charged = turn[u].charged
  BY <1>5, DiesKeeps
<1>6. ASSUME AddFunds \/ LiftLimit PROVE turn'[u].charged = turn[u].charged
  BY <1>6, AdminKeeps DEF AddFunds, LiftLimit
<1>7. ASSUME NEW t \in Turn, t # u, Deduct(t)
      PROVE  turn'[u].charged = turn[u].charged
  BY <1>7, DeductKeeps
<1>8. ASSUME UNCHANGED billingVars PROVE turn'[u].charged = turn[u].charged
  BY <1>8 DEF billingVars
<1>9. turn[u].charged \in Nat /\ turn[u].cost \in Nat
  BY DEF TurnState
<1>10. Deduct(u)
  BY <1>1, <1>2, <1>3, <1>4, <1>5, <1>6, <1>7, <1>8, <1>9, <1>12 DEF BillingNext
<1>11. turn'[u].charged = turn[u].cost
  BY <1>10, DeductKeeps
<1> QED
  BY <1>9, <1>10, <1>11

\* A turn that nobody else spent beside is charged only while something is left.
THEOREM OverdraftNeedsCompany == BillingSpec => OverdraftHasCompany
<1>1. BillingInit => Solvent
  BY DEF BillingInit, Solvent, Unstarted
<1>2. ASSUME BillingTypeOK, Solvent, [BillingNext]_billingVars
      PROVE  [\A t \in Turn :
                turn'[t].charged > turn[t].charged /\ turn[t].alone => balance > 0]_billingVars
  BY <1>2, OnlyDeducted DEF Solvent, Deduct
<1> QED
  BY <1>1, <1>2, BillingTyped, BillingTypeStep, SolventStep, PTL DEF BillingSpec, OverdraftHasCompany

------------------------------------------------------------------------------
(* The usage of a turn that has its session to itself, up to its bill.      *)

\* What a turn is to be charged.
Due(t) == IF turn[t].kind = "stream" THEN turn[t].used ELSE (IF turn[t].used = 0 THEN 0 ELSE 1)

Live == {"checking", "running", "delegating"}

\* A clean turn has its session to itself.
Lone ==
  \A t, u \in Turn :
    t # u /\ turn[t].clean /\ turn[t].pc \in Live /\ turn[u].pc \in Live
    => turn[t].session # turn[u].session

\* A bus belongs to a stream of its session that is running.
Owned ==
  \A s \in Sessions : bus[s] # Nobody =>
    /\ turn[bus[s]].session = s /\ turn[bus[s]].kind = "stream"
    /\ turn[bus[s]].pc \in {"running", "delegating"}

\* A turn whose bus is held by the sub-agent of another one is not clean.
Foreign ==
  \A t, u \in Turn :
    t # u /\ turn[u].pc = "delegating" /\ turn[u].held = t
    => ~turn[t].clean /\ turn[t].pc \notin {"idle", "checking"}

\* The usage of a clean turn, from its start to its bill.
Exact(t) ==
  /\ turn[t].pc \in {"idle", "checking"} =>
       turn[t].used = 0 /\ turn[t].child = 0 /\ turn[t].cost = 0 /\ turn[t].charged = 0
  /\ turn[t].clean /\ turn[t].pc \in {"running", "delegating"} =>
       /\ turn[t].used \in {1, 2} /\ turn[t].charged = 0
       /\ turn[t].pc = "delegating" => turn[t].used = 2
       /\ turn[t].kind = "stream" =>
            /\ bus[turn[t].session] = t
            /\ turn[t].pc = "running" => turn[t].child = turn[t].used - 1
            /\ turn[t].pc = "delegating" => turn[t].child = 0 /\ turn[t].held = t
  /\ turn[t].clean /\ turn[t].pc \in {"closing", "logged", "deducting"} =>
       turn[t].charged = 0 /\ turn[t].cost = Due(t)
  /\ turn[t].clean /\ turn[t].pc \in {"paid", "ended"} => turn[t].charged = Due(t)

Exactly == \A t \in Turn : Exact(t)

Accounted == Lone /\ Owned /\ Foreign /\ Exactly

LEMMA LoneStep ==
  BillingTypeOK /\ Lone /\ [BillingNext]_billingVars => Lone'
<1> SUFFICES ASSUME BillingTypeOK, Lone, [BillingNext]_billingVars PROVE Lone'
  OBVIOUS
<1> USE DEF BillingTypeOK, Lone, Live
<1>1. CASE UNCHANGED billingVars
  BY <1>1 DEF billingVars
<1>2. ASSUME NEW t \in Turn, NEW s \in Sessions, NEW kind \in {"stream", "plain"},
              Begin(t, s, kind) PROVE Lone'
  <2> SUFFICES ASSUME NEW v \in Turn, NEW w \in Turn, v # w, turn'[v].clean,
                      turn'[v].pc \in Live, turn'[w].pc \in Live
               PROVE  turn'[v].session # turn'[w].session
    OBVIOUS
  <2>1. CASE v = t
    <3>1. w \notin Together(s) /\ turn[w].pc \in Live /\ turn'[w].session = turn[w].session
      BY <1>2, <2>1, BeginKeeps
    <3>2. turn'[v].session = s
      BY <1>2, <2>1, BeginKeeps
    <3> QED
      BY <3>1, <3>2 DEF Together
  <2>2. CASE w = t
    <3>1. v \notin Together(s) /\ turn[v].pc \in Live /\ turn'[v].session = turn[v].session
      BY <1>2, <2>2, BeginKeeps
    <3>2. turn'[w].session = s
      BY <1>2, <2>2, BeginKeeps
    <3> QED
      BY <3>1, <3>2 DEF Together
  <2>3. CASE v # t /\ w # t
    BY <1>2, <2>3, BeginKeeps
  <2> QED
    BY <2>1, <2>2, <2>3
<1>3. ASSUME NEW t \in Turn, Abort(t) PROVE Lone'
  BY <1>3 DEF Abort, TurnState
<1>4. ASSUME NEW t \in Turn, Refuse(t) PROVE Lone'
  BY <1>4 DEF Refuse, TurnState
<1>5. ASSUME NEW t \in Turn, Pass(t) PROVE Lone'
  BY <1>5, PassKeeps
<1>6. ASSUME NEW t \in Turn, Delegate(t) PROVE Lone'
  BY <1>6 DEF Delegate, TurnState
<1>7. ASSUME NEW t \in Turn, Return(t) PROVE Lone'
  BY <1>7, ReturnKeeps
<1>8. ASSUME NEW t \in Turn, ReturnError(t) PROVE Lone'
  BY <1>8 DEF ReturnError, TurnState
<1>9. ASSUME NEW t \in Turn, Complete(t) PROVE Lone'
  BY <1>9, CompleteKeeps
<1>10. ASSUME NEW t \in Turn, Interrupt(t) PROVE Lone'
  BY <1>10, InterruptKeeps
<1>11. ASSUME NEW t \in Turn, WriteLog(t) PROVE Lone'
  BY <1>11 DEF WriteLog, TurnState
<1>12. ASSUME NEW t \in Turn, ReadBalance(t) PROVE Lone'
  BY <1>12, ReadKeeps
<1>13. ASSUME NEW t \in Turn, Deduct(t) PROVE Lone'
  BY <1>13, DeductKeeps
<1>14. ASSUME NEW t \in Turn, BillFails(t) PROVE Lone'
  BY <1>14 DEF BillFails, TurnState
<1>15. ASSUME ProcessDies PROVE Lone'
  BY <1>15, DiesKeeps DEF Busy
<1>16. ASSUME AddFunds \/ LiftLimit PROVE Lone'
  BY <1>16, AdminKeeps DEF AddFunds, LiftLimit
<1> QED
  BY <1>1, <1>2, <1>3, <1>4, <1>5, <1>6, <1>7, <1>8, <1>9,
     <1>10, <1>11, <1>12, <1>13, <1>14, <1>15, <1>16 DEF BillingNext

LEMMA OwnedStep ==
  BillingTypeOK /\ Owned /\ [BillingNext]_billingVars => Owned'
<1> SUFFICES ASSUME BillingTypeOK, Owned, [BillingNext]_billingVars PROVE Owned'
  OBVIOUS
<1> USE DEF BillingTypeOK, Owned, Nobody, Turn
<1>1. CASE UNCHANGED billingVars
  BY <1>1 DEF billingVars
<1>2. ASSUME NEW t \in Turn, NEW s \in Sessions, NEW kind \in {"stream", "plain"},
              Begin(t, s, kind) PROVE Owned'
  BY <1>2, BeginKeeps
<1>3. ASSUME NEW t \in Turn, Abort(t) PROVE Owned'
  BY <1>3 DEF Abort, TurnState
<1>4. ASSUME NEW t \in Turn, Refuse(t) PROVE Owned'
  BY <1>4 DEF Refuse, TurnState
<1>5. ASSUME NEW t \in Turn, Pass(t) PROVE Owned'
  BY <1>5, PassKeeps
<1>6. ASSUME NEW t \in Turn, Delegate(t) PROVE Owned'
  BY <1>6 DEF Delegate, TurnState
<1>7. ASSUME NEW t \in Turn, Return(t) PROVE Owned'
  BY <1>7, ReturnKeeps
<1>8. ASSUME NEW t \in Turn, ReturnError(t) PROVE Owned'
  BY <1>8 DEF ReturnError, TurnState
<1>9. ASSUME NEW t \in Turn, Complete(t) PROVE Owned'
  BY <1>9, CompleteKeeps DEF Removed
<1>10. ASSUME NEW t \in Turn, Interrupt(t) PROVE Owned'
  BY <1>10, InterruptKeeps DEF Removed
<1>11. ASSUME NEW t \in Turn, WriteLog(t) PROVE Owned'
  BY <1>11 DEF WriteLog, TurnState
<1>12. ASSUME NEW t \in Turn, ReadBalance(t) PROVE Owned'
  BY <1>12, ReadKeeps
<1>13. ASSUME NEW t \in Turn, Deduct(t) PROVE Owned'
  BY <1>13, DeductKeeps
<1>14. ASSUME NEW t \in Turn, BillFails(t) PROVE Owned'
  BY <1>14 DEF BillFails, TurnState
<1>15. ASSUME ProcessDies PROVE Owned'
  BY <1>15 DEF ProcessDies
<1>16. ASSUME AddFunds \/ LiftLimit PROVE Owned'
  <2>1. ByAdmin
    BY <1>16 DEF AddFunds, LiftLimit
  <2>2. bus' = bus
    BY <2>1 DEF ByAdmin
  <2>3. \A u \in Turn : turn'[u].pc = turn[u].pc /\ turn'[u].session = turn[u].session
                        /\ turn'[u].kind = turn[u].kind
    BY <2>1, AdminKeeps
  <2> QED
    BY <2>2, <2>3
<1> QED
  BY <1>1, <1>2, <1>3, <1>4, <1>5, <1>6, <1>7, <1>8, <1>9,
     <1>10, <1>11, <1>12, <1>13, <1>14, <1>15, <1>16 DEF BillingNext

LEMMA ForeignStep ==
  BillingTypeOK /\ Lone /\ Owned /\ Foreign /\ [BillingNext]_billingVars => Foreign'
<1> SUFFICES ASSUME BillingTypeOK, Lone /\ Owned /\ Foreign, [BillingNext]_billingVars PROVE Foreign'
  OBVIOUS
<1> USE DEF BillingTypeOK, Lone, Owned, Foreign, Live, Nobody
<1>1. CASE UNCHANGED billingVars
  BY <1>1 DEF billingVars
<1>2. ASSUME NEW t \in Turn, NEW s \in Sessions, NEW kind \in {"stream", "plain"},
              Begin(t, s, kind) PROVE Foreign'
  BY <1>2, BeginKeeps
<1>3. ASSUME NEW t \in Turn, Abort(t) PROVE Foreign'
  BY <1>3 DEF Abort, TurnState
<1>4. ASSUME NEW t \in Turn, Refuse(t) PROVE Foreign'
  BY <1>4 DEF Refuse, TurnState
<1>5. ASSUME NEW t \in Turn, Pass(t) PROVE Foreign'
  BY <1>5, PassKeeps
<1>6. ASSUME NEW t \in Turn, Delegate(t) PROVE Foreign'
  <2> SUFFICES ASSUME NEW v \in Turn, NEW w \in Turn, v # w, turn'[w].pc = "delegating", turn'[w].held = v
               PROVE  ~turn'[v].clean /\ turn'[v].pc \notin {"idle", "checking"}
    OBVIOUS
  <2>1. turn[t].pc = "running" /\ bus[turn[t].session] \in 0 .. Turns
    BY <1>6 DEF Delegate, TurnState
  <2>2. CASE w = t
    <3>1. turn'[v] = turn[v] /\ v = bus[turn[t].session]
      BY <1>6, <2>2 DEF Delegate, TurnState
    <3>2. turn[v].session = turn[t].session /\ turn[v].pc \in {"running", "delegating"}
      BY <2>1, <3>1 DEF TurnState, Turn
    <3>3. ~turn[v].clean
      BY <2>1, <2>2, <3>2
    <3> QED
      BY <3>1, <3>2, <3>3
  <2>3. CASE w # t
    <3>1. turn'[w] = turn[w]
      BY <1>6, <2>3 DEF Delegate
    <3>2. ~turn[v].clean /\ turn[v].pc \notin {"idle", "checking"}
      BY <2>3, <3>1
    <3>3. turn'[v].clean = turn[v].clean /\ turn'[v].pc \in {turn[v].pc, "delegating"}
      BY <1>6 DEF Delegate, TurnState
    <3> QED
      BY <3>2, <3>3
  <2> QED
    BY <2>2, <2>3
<1>7. ASSUME NEW t \in Turn, Return(t) PROVE Foreign'
  BY <1>7, ReturnKeeps
<1>8. ASSUME NEW t \in Turn, ReturnError(t) PROVE Foreign'
  BY <1>8 DEF ReturnError, TurnState
<1>9. ASSUME NEW t \in Turn, Complete(t) PROVE Foreign'
  BY <1>9, CompleteKeeps
<1>10. ASSUME NEW t \in Turn, Interrupt(t) PROVE Foreign'
  BY <1>10, InterruptKeeps
<1>11. ASSUME NEW t \in Turn, WriteLog(t) PROVE Foreign'
  BY <1>11 DEF WriteLog, TurnState
<1>12. ASSUME NEW t \in Turn, ReadBalance(t) PROVE Foreign'
  BY <1>12, ReadKeeps
<1>13. ASSUME NEW t \in Turn, Deduct(t) PROVE Foreign'
  BY <1>13, DeductKeeps
<1>14. ASSUME NEW t \in Turn, BillFails(t) PROVE Foreign'
  BY <1>14 DEF BillFails, TurnState
<1>15. ASSUME ProcessDies PROVE Foreign'
  <2> SUFFICES ASSUME NEW v \in Turn, NEW w \in Turn, v # w, turn'[w].pc = "delegating", turn'[w].held = v
               PROVE  FALSE
    OBVIOUS
  <2> QED
    BY <1>15, DiesKeeps DEF Busy
<1>16. ASSUME AddFunds \/ LiftLimit PROVE Foreign'
  BY <1>16, AdminKeeps DEF AddFunds, LiftLimit
<1> QED
  BY <1>1, <1>2, <1>3, <1>4, <1>5, <1>6, <1>7, <1>8, <1>9,
     <1>10, <1>11, <1>12, <1>13, <1>14, <1>15, <1>16 DEF BillingNext

LEMMA ExactStep ==
  BillingTypeOK /\ Accounted /\ [BillingNext]_billingVars => Exactly'
<1> SUFFICES ASSUME BillingTypeOK, Accounted, [BillingNext]_billingVars PROVE Exactly'
  OBVIOUS
<1> USE DEF BillingTypeOK, Accounted, Exact, Due, Exactly, Live
<1>1. CASE UNCHANGED billingVars
  BY <1>1 DEF billingVars
<1>2. ASSUME NEW t \in Turn, NEW s \in Sessions, NEW kind \in {"stream", "plain"},
              Begin(t, s, kind) PROVE Exactly'
  BY <1>2, BeginKeeps
<1>3. ASSUME NEW t \in Turn, Abort(t) PROVE Exactly'
  BY <1>3 DEF Abort, TurnState
<1>4. ASSUME NEW t \in Turn, Refuse(t) PROVE Exactly'
  BY <1>4 DEF Refuse, TurnState
<1>5. ASSUME NEW t \in Turn, Pass(t) PROVE Exactly'
  <2> SUFFICES ASSUME NEW u \in Turn PROVE Exact(u)'
    BY DEF Exactly
  <2>1. turn[t].pc = "checking"
    BY <1>5, PassKeeps
  <2>2. CASE u = t
    <3>1. turn[t].used = 0 /\ turn[t].child = 0 /\ turn[t].cost = 0 /\ turn[t].charged = 0
      BY <2>1
    <3>2. turn[t].kind = "stream" => bus'[turn[t].session] = t
      BY <1>5, PassKeeps DEF TurnState
    <3>3. /\ turn'[t].pc = "running" /\ turn'[t].used = 1 /\ turn'[t].child = turn[t].child
          /\ turn'[t].charged = turn[t].charged /\ turn'[t].cost = turn[t].cost
          /\ turn'[t].session = turn[t].session /\ turn'[t].kind = turn[t].kind
      BY <1>5, PassKeeps
    <3> QED
      BY <2>2, <3>1, <3>2, <3>3
  <2>3. CASE u # t
    <3>1. /\ turn'[u].pc = turn[u].pc /\ turn'[u].used = turn[u].used /\ turn'[u].child = turn[u].child
          /\ turn'[u].charged = turn[u].charged /\ turn'[u].cost = turn[u].cost
          /\ turn'[u].session = turn[u].session /\ turn'[u].kind = turn[u].kind
          /\ turn'[u].clean = turn[u].clean /\ turn'[u].held = turn[u].held
      BY <1>5, <2>3, PassKeeps
    <3>2. turn[u].clean /\ turn[u].pc \in {"running", "delegating"} => turn[u].session # turn[t].session
      BY <2>1, <2>3 DEF Lone
    <3>3. turn[u].session # turn[t].session => bus'[turn[u].session] = bus[turn[u].session]
      BY <1>5, PassKeeps DEF TurnState
    <3> QED
      BY <3>1, <3>2, <3>3
  <2> QED
    BY <2>2, <2>3
<1>6. ASSUME NEW t \in Turn, Delegate(t) PROVE Exactly'
  BY <1>6 DEF Delegate, TurnState
<1>7. ASSUME NEW t \in Turn, Return(t) PROVE Exactly'
  <2> SUFFICES ASSUME NEW u \in Turn PROVE Exact(u)'
    BY DEF Exactly
  <2>1. /\ bus' = bus /\ turn[t].pc = "delegating"
        /\ turn'[u].pc = IF u = t THEN "running" ELSE turn[u].pc
        /\ turn'[u].held = IF u = t THEN Nobody ELSE turn[u].held
        /\ turn'[u].child = IF u = turn[t].held THEN turn[u].child + 1 ELSE turn[u].child
        /\ turn'[u].kind = turn[u].kind /\ turn'[u].session = turn[u].session
        /\ turn'[u].cost = turn[u].cost /\ turn'[u].used = turn[u].used
        /\ turn'[u].charged = turn[u].charged /\ turn'[u].clean = turn[u].clean
    BY <1>7, ReturnKeeps DEF Held
  <2>2. CASE u = t
    BY <2>1, <2>2
  <2>3. CASE u # t
    <3>1. u = turn[t].held => ~turn[u].clean /\ turn[u].pc \notin {"idle", "checking"}
      BY <2>1, <2>3 DEF Foreign
    <3> QED
      BY <2>1, <2>3, <3>1
  <2> QED
    BY <2>2, <2>3
<1>8. ASSUME NEW t \in Turn, ReturnError(t) PROVE Exactly'
  BY <1>8 DEF ReturnError, TurnState
<1>9. ASSUME NEW t \in Turn, Complete(t) PROVE Exactly'
  <2> SUFFICES ASSUME NEW u \in Turn PROVE Exact(u)'
    BY DEF Exactly
  <2>2. CASE u = t
    <3>1. /\ turn[t].pc = "running" /\ turn'[t].pc = "closing" /\ turn'[t].cost = Folded(t, 1)
          /\ turn'[t].charged = turn[t].charged /\ turn'[t].clean = turn[t].clean
          /\ turn'[t].used = turn[t].used /\ turn'[t].kind = turn[t].kind
      BY <1>9, CompleteKeeps
    <3>2. turn[t].kind \in {"stream", "plain"} /\ turn[t].child \in Nat
      BY DEF TurnState
    <3>3. turn[t].clean => Folded(t, 1) = Due(t)
      BY <3>1, <3>2 DEF Folded
    <3> QED
      BY <2>2, <3>1, <3>3
  <2>3. CASE u # t
    <3>1. turn'[u] = turn[u] /\ turn[t].pc \in {"running", "delegating"} /\ bus' = Removed(t)
      BY <1>9, <2>3, CompleteKeeps
    <3>2. turn[u].clean /\ turn[u].pc \in {"running", "delegating"} => turn[u].session # turn[t].session
      BY <2>3, <3>1 DEF Lone
    <3>3. turn[u].session # turn[t].session => bus'[turn[u].session] = bus[turn[u].session]
      BY <3>1 DEF Removed, TurnState
    <3> QED
      BY <3>1, <3>2, <3>3
  <2> QED
    BY <2>2, <2>3
<1>10. ASSUME NEW t \in Turn, Interrupt(t) PROVE Exactly'
  <2> SUFFICES ASSUME NEW u \in Turn PROVE Exact(u)'
    BY DEF Exactly
  <2>2. CASE u = t
    <3>1. turn'[t].pc \in {"closing", "ended"} /\ ~turn'[t].clean
      BY <1>10, InterruptKeeps
    <3> QED
      BY <2>2, <3>1
  <2>3. CASE u # t
    <3>1. turn'[u] = turn[u] /\ turn[t].pc \in {"running", "delegating"} /\ bus' = Removed(t)
      BY <1>10, <2>3, InterruptKeeps
    <3>2. turn[u].clean /\ turn[u].pc \in {"running", "delegating"} => turn[u].session # turn[t].session
      BY <2>3, <3>1 DEF Lone
    <3>3. turn[u].session # turn[t].session => bus'[turn[u].session] = bus[turn[u].session]
      BY <3>1 DEF Removed, TurnState
    <3> QED
      BY <3>1, <3>2, <3>3
  <2> QED
    BY <2>2, <2>3
<1>11. ASSUME NEW t \in Turn, WriteLog(t) PROVE Exactly'
  BY <1>11 DEF WriteLog, TurnState
<1>12. ASSUME NEW t \in Turn, ReadBalance(t) PROVE Exactly'
  BY <1>12, ReadKeeps
<1>13. ASSUME NEW t \in Turn, Deduct(t) PROVE Exactly'
  BY <1>13, DeductKeeps
<1>14. ASSUME NEW t \in Turn, BillFails(t) PROVE Exactly'
  BY <1>14 DEF BillFails, TurnState
<1>15. ASSUME ProcessDies PROVE Exactly'
  <2> SUFFICES ASSUME NEW u \in Turn PROVE Exact(u)'
    BY DEF Exactly
  <2>1. CASE turn[u].pc \in Busy
    <3>1. turn'[u].pc = "ended" /\ ~turn'[u].clean
      BY <1>15, <2>1, DiesKeeps
    <3> QED
      BY <3>1
  <2>2. CASE turn[u].pc \notin Busy
    <3>1. turn'[u] = turn[u]
      BY <1>15, <2>2, DiesKeeps
    <3> QED
      BY <2>2, <3>1 DEF Busy
  <2> QED
    BY <2>1, <2>2
<1>16. ASSUME AddFunds \/ LiftLimit PROVE Exactly'
  BY <1>16, AdminKeeps DEF AddFunds, LiftLimit
<1> HIDE DEF BillingTypeOK, Due, Live, Exact, Exactly, Accounted
<1> QED
  BY <1>1, <1>2, <1>3, <1>4, <1>5, <1>6, <1>7, <1>8, <1>9,
     <1>10, <1>11, <1>12, <1>13, <1>14, <1>15, <1>16 DEF BillingNext

\* A turn that ran to its end, alone in its session, is charged what was used for it.
THEOREM TurnsAreBilled == BillingSpec => []UsageBilled
<1>1. BillingInit => Accounted
  BY DEF BillingInit, Accounted, Lone, Owned, Foreign, Exactly, Exact, Due, Unstarted, Live
<1>2. BillingTypeOK /\ Accounted /\ [BillingNext]_billingVars => Accounted'
  BY LoneStep, OwnedStep, ForeignStep, ExactStep DEF Accounted
<1>3. Accounted => UsageBilled
  BY DEF Accounted, Exactly, Exact, Due, UsageBilled
<1> QED
  BY <1>1, <1>2, <1>3, BillingTyped, BillingTypeStep, PTL DEF BillingSpec

------------------------------------------------------------------------------
(* No usage is billed twice.  Sums over the turns come first.               *)

\* The sums of g up to each turn.
Sums(g, n, s) ==
  s \in [0 .. n -> Nat] /\ s[0] = 0 /\ \A t \in 1 .. n : s[t] = g[t] + s[t - 1]

LEMMA SumsExist ==
  ASSUME NEW g \in [Turn -> Nat], NEW n \in 0 .. Turns
  PROVE  \E s : Sums(g, n, s)
<1> DEFINE T == {k \in 0 .. Turns : ~ \E s : Sums(g, k, s)}
<1>1. Turns \in Nat /\ Turn = 1 .. Turns
  BY BillingAssumption DEF Turn
<1> SUFFICES ASSUME T # {} PROVE FALSE
  OBVIOUS
<1>2. PICK k \in T : \A j \in T : k <= j
  <2>1. T \in SUBSET Nat
    BY <1>1
  <2> QED
    BY <2>1, LeastOf
<1>3. k \in 0 .. Turns
  OBVIOUS
<1>4. CASE k = 0
  <2>1. Sums(g, 0, [t \in 0 .. 0 |-> 0])
    BY DEF Sums
  <2> QED
    BY <1>4, <2>1
<1>5. CASE k # 0
  <2>1. k - 1 \in 0 .. Turns /\ ~(k <= k - 1)
    BY <1>1, <1>3, <1>5
  <2>2. PICK s : Sums(g, k - 1, s)
    BY <1>2, <2>1
  <2> DEFINE longer == [t \in 0 .. k |-> IF t = k THEN g[k] + s[k - 1] ELSE s[t]]
  <2>3. g[k] \in Nat /\ s[k - 1] \in Nat
    BY <1>1, <1>3, <1>5, <2>2 DEF Sums
  <2>4. longer \in [0 .. k -> Nat] /\ longer[0] = 0
    BY <1>1, <1>3, <1>5, <2>2, <2>3 DEF Sums
  <2>5. ASSUME NEW t \in 1 .. k PROVE longer[t] = g[t] + longer[t - 1]
    BY <1>1, <1>3, <1>5, <2>2, <2>3 DEF Sums
  <2> HIDE DEF longer
  <2>6. Sums(g, k, longer)
    BY <2>4, <2>5 DEF Sums
  <2> QED
    BY <2>6
<1> QED
  BY <1>4, <1>5

LEMMA SumIs ==
  ASSUME NEW g \in [Turn -> Nat]
  PROVE  \E s : Sums(g, Turns, s) /\ SumOf(g) = s[Turns]
<1>1. Turns \in Nat /\ Turn = 1 .. Turns
  BY BillingAssumption DEF Turn
<1> DEFINE Body(x) == [t \in 0 .. Turns |-> IF t = 0 THEN 0 ELSE g[t] + x[t - 1]]
           upTo == CHOOSE x : x = Body(x)
<1>2. SumOf(g) = upTo[Turns]
  BY DEF SumOf
<1>3. PICK s : Sums(g, Turns, s)
  BY <1>1, SumsExist
<1>4. s = Body(s)
  BY <1>1, <1>3 DEF Sums
<1>5. upTo = Body(upTo)
  BY <1>4, Zenon
<1> HIDE DEF upTo
<1>6. /\ upTo[0] = 0
      /\ \A t \in 1 .. Turns : upTo[t] = g[t] + upTo[t - 1]
      /\ DOMAIN upTo = 0 .. Turns
  <2> DEFINE next == Body(upTo)
  <2>1. \A t \in 0 .. Turns : next[t] = IF t = 0 THEN 0 ELSE g[t] + upTo[t - 1]
    OBVIOUS
  <2>2. DOMAIN next = 0 .. Turns
    OBVIOUS
  <2>3. upTo = next
    BY <1>5
  <2> HIDE DEF next
  <2>4. \A t \in 0 .. Turns : upTo[t] = IF t = 0 THEN 0 ELSE g[t] + upTo[t - 1]
    BY <2>1, <2>3, Zenon
  <2>5. DOMAIN upTo = 0 .. Turns
    BY <2>2, <2>3, Zenon
  <2> QED
    BY <1>1, <2>4, <2>5
<1> DEFINE T == {k \in 0 .. Turns : upTo[k] # s[k]}
<1>7. T = {}
  <2> SUFFICES ASSUME T # {} PROVE FALSE
    OBVIOUS
  <2>1. T \in SUBSET Nat
    BY <1>1
  <2>2. PICK k \in T : \A j \in T : k <= j
    BY <2>1, LeastOf
  <2>3. k # 0 /\ k \in 0 .. Turns
    BY <1>3, <1>6 DEF Sums
  <2>4. k - 1 \in 0 .. Turns /\ k \in 1 .. Turns /\ ~(k <= k - 1)
    BY <1>1, <2>3
  <2>5. upTo[k - 1] = s[k - 1]
    BY <2>2, <2>4
  <2>6. upTo[k] = s[k]
    BY <1>3, <1>6, <2>4, <2>5 DEF Sums
  <2> QED
    BY <2>6
<1>8. Turns \in 0 .. Turns
  BY <1>1
<1> QED
  BY <1>2, <1>3, <1>7, <1>8

LEMMA SumMonotone ==
  ASSUME NEW g \in [Turn -> Nat], NEW h \in [Turn -> Nat], \A t \in Turn : g[t] <= h[t]
  PROVE  SumOf(g) <= SumOf(h) /\ SumOf(g) \in Nat /\ SumOf(h) \in Nat
<1>1. Turns \in Nat /\ Turn = 1 .. Turns /\ Turns \in 0 .. Turns
  BY BillingAssumption DEF Turn
<1>2. PICK s : Sums(g, Turns, s) /\ SumOf(g) = s[Turns]
  BY SumIs
<1>3. PICK r : Sums(h, Turns, r) /\ SumOf(h) = r[Turns]
  BY SumIs
<1> DEFINE T == {k \in 0 .. Turns : ~(s[k] <= r[k])}
<1>4. T = {}
  <2> SUFFICES ASSUME T # {} PROVE FALSE
    OBVIOUS
  <2>1. T \in SUBSET Nat
    BY <1>1
  <2>2. PICK k \in T : \A j \in T : k <= j
    BY <2>1, LeastOf
  <2>3. k # 0 /\ k \in 0 .. Turns
    BY <1>2, <1>3 DEF Sums
  <2>4. k - 1 \in 0 .. Turns /\ k \in 1 .. Turns /\ ~(k <= k - 1)
    BY <1>1, <2>3
  <2>5. s[k - 1] <= r[k - 1]
    BY <2>2, <2>4
  <2>6. /\ s[k] = g[k] + s[k - 1] /\ r[k] = h[k] + r[k - 1] /\ g[k] <= h[k]
        /\ s[k - 1] \in Nat /\ r[k - 1] \in Nat /\ g[k] \in Nat /\ h[k] \in Nat
    BY <1>1, <1>2, <1>3, <2>4 DEF Sums
  <2>7. s[k] <= r[k]
    BY <2>5, <2>6
  <2> QED
    BY <2>7
<1>5. s[Turns] <= r[Turns] /\ s[Turns] \in Nat /\ r[Turns] \in Nat
  BY <1>1, <1>2, <1>3, <1>4 DEF Sums
<1> QED
  BY <1>2, <1>3, <1>5

\* One more in one place.
Plus(g, k) == [t \in Turn |-> IF t = k THEN g[t] + 1 ELSE g[t]]

LEMMA SumPlus ==
  ASSUME NEW g \in [Turn -> Nat], NEW n \in Turn
  PROVE  Plus(g, n) \in [Turn -> Nat] /\ SumOf(Plus(g, n)) = SumOf(g) + 1
<1>1. Turns \in Nat /\ Turn = 1 .. Turns /\ Turns \in 0 .. Turns /\ n <= Turns
  BY BillingAssumption DEF Turn
<1>2. Plus(g, n) \in [Turn -> Nat]
  BY DEF Plus
<1>3. PICK s : Sums(g, Turns, s) /\ SumOf(g) = s[Turns]
  BY SumIs
<1>4. PICK r : Sums(Plus(g, n), Turns, r) /\ SumOf(Plus(g, n)) = r[Turns]
  BY <1>2, SumIs
<1> DEFINE T == {k \in 0 .. Turns : r[k] # IF k < n THEN s[k] ELSE s[k] + 1}
<1>5. T = {}
  <2> SUFFICES ASSUME T # {} PROVE FALSE
    OBVIOUS
  <2>1. T \in SUBSET Nat
    BY <1>1
  <2>2. PICK k \in T : \A j \in T : k <= j
    BY <2>1, LeastOf
  <2>3. k # 0 /\ k \in 0 .. Turns
    BY <1>1, <1>3, <1>4 DEF Sums
  <2>4. k - 1 \in 0 .. Turns /\ k \in 1 .. Turns /\ ~(k <= k - 1)
    BY <1>1, <2>3
  <2>5. r[k - 1] = IF k - 1 < n THEN s[k - 1] ELSE s[k - 1] + 1
    BY <2>2, <2>4
  <2>6. /\ s[k] = g[k] + s[k - 1] /\ s[k - 1] \in Nat /\ g[k] \in Nat
        /\ r[k] = (IF k = n THEN g[k] + 1 ELSE g[k]) + r[k - 1]
    BY <1>1, <1>3, <1>4, <2>4 DEF Sums, Plus
  <2>7. r[k] = IF k < n THEN s[k] ELSE s[k] + 1
    <3>1. k \in Nat /\ n \in Nat
      BY <1>1, <2>4
    <3>2. CASE k < n
      BY <2>5, <2>6, <3>1, <3>2
    <3>3. CASE k = n
      BY <2>5, <2>6, <3>1, <3>3
    <3>4. CASE n < k
      <4>1. ~(k - 1 < n) /\ k # n /\ ~(k < n)
        BY <3>1, <3>4
      <4> QED
        BY <2>5, <2>6, <4>1
    <3> QED
      BY <3>1, <3>2, <3>3, <3>4
  <2> QED
    BY <2>7
<1>6. r[Turns] = s[Turns] + 1
  BY <1>1, <1>5
<1> QED
  BY <1>2, <1>3, <1>4, <1>6

LEMMA SumsKeep ==
  ASSUME NEW g \in [Turn -> Nat], NEW h \in [Turn -> Nat],
         NEW g2 \in [Turn -> Nat], NEW h2 \in [Turn -> Nat], SumOf(g) <= SumOf(h),
         \/ \A t \in Turn : g2[t] <= g[t] /\ h[t] <= h2[t]
         \/ \E k \in Turn : \A t \in Turn : g2[t] <= Plus(g, k)[t] /\ Plus(h, k)[t] <= h2[t]
         \/ \E j \in Turn, k \in Turn : \A t \in Turn : Plus(g2, j)[t] <= Plus(g, k)[t] /\ h[t] <= h2[t]
  PROVE  SumOf(g2) <= SumOf(h2)
<1>1. /\ SumOf(g) \in Nat /\ SumOf(h) \in Nat /\ SumOf(g2) \in Nat /\ SumOf(h2) \in Nat
  <2>1. \A x \in [Turn -> Nat] : \A t \in Turn : x[t] <= x[t]
    OBVIOUS
  <2> QED
    BY <2>1, SumMonotone
<1>2. CASE \A t \in Turn : g2[t] <= g[t] /\ h[t] <= h2[t]
  <2>1. SumOf(g2) <= SumOf(g) /\ SumOf(h) <= SumOf(h2)
    BY <1>2, SumMonotone
  <2> QED
    BY <1>1, <2>1
<1>3. CASE \E k \in Turn : \A t \in Turn : g2[t] <= Plus(g, k)[t] /\ Plus(h, k)[t] <= h2[t]
  <2>1. PICK k \in Turn : \A t \in Turn : g2[t] <= Plus(g, k)[t] /\ Plus(h, k)[t] <= h2[t]
    BY <1>3
  <2>2. /\ Plus(g, k) \in [Turn -> Nat] /\ SumOf(Plus(g, k)) = SumOf(g) + 1
        /\ Plus(h, k) \in [Turn -> Nat] /\ SumOf(Plus(h, k)) = SumOf(h) + 1
    BY SumPlus
  <2>3. SumOf(g2) <= SumOf(Plus(g, k)) /\ SumOf(Plus(h, k)) <= SumOf(h2)
    BY <2>1, <2>2, SumMonotone
  <2> QED
    BY <1>1, <2>2, <2>3
<1>4. CASE \E j \in Turn, k \in Turn : \A t \in Turn : Plus(g2, j)[t] <= Plus(g, k)[t] /\ h[t] <= h2[t]
  <2>1. PICK j \in Turn, k \in Turn : \A t \in Turn : Plus(g2, j)[t] <= Plus(g, k)[t] /\ h[t] <= h2[t]
    BY <1>4
  <2>2. /\ Plus(g, k) \in [Turn -> Nat] /\ SumOf(Plus(g, k)) = SumOf(g) + 1
        /\ Plus(g2, j) \in [Turn -> Nat] /\ SumOf(Plus(g2, j)) = SumOf(g2) + 1
    BY SumPlus
  <2>3. SumOf(Plus(g2, j)) <= SumOf(Plus(g, k)) /\ SumOf(h) <= SumOf(h2)
    BY <2>1, <2>2, SumMonotone
  <2> QED
    BY <1>1, <2>2, <2>3
<1> QED
  BY <1>2, <1>3, <1>4

\* What is in the bill of a turn, or may yet come to be in it: its own call, the
\* call that its sub-agent has on the way to whichever bus, and what is on its own bus.
Owes(t) ==
  CASE turn[t].pc \in {"idle", "checking"} -> turn[t].child
    [] turn[t].pc = "running" -> turn[t].child + 1
    [] turn[t].pc = "delegating" -> turn[t].child + 2
    [] OTHER -> turn[t].cost

Owed == [t \in Turn |-> Owes(t)]
Made == [t \in Turn |-> turn[t].used]

\* A turn has no bill before its end, and is charged for that, if at all.
Billable ==
  \A t \in Turn :
    /\ turn[t].pc \in {"idle", "checking"} => turn[t].used = 0
    /\ turn[t].pc \in {"idle"} \union Live => turn[t].cost = 0
    /\ turn[t].charged = IF turn[t].pc = "paid" THEN turn[t].cost ELSE 0

BillsCovered == SumOf(Owed) <= SumOf(Made)

\* How a step changes them: nothing is owed but for a call that is made, and a
\* sub-agent's call goes from one turn to at most one.
Keeps == \A u \in Turn : Owes(u)' <= Owes(u) /\ turn'[u].used = turn[u].used

Calls(t) ==
  \A u \in Turn : /\ Owes(u)' <= IF u = t THEN Owes(u) + 1 ELSE Owes(u)
                  /\ turn'[u].used = IF u = t THEN turn[u].used + 1 ELSE turn[u].used

HandsOver(t, to) ==
  \A u \in Turn : /\ turn'[u].used = turn[u].used
                  /\ (IF u = t THEN Owes(u)' + 1 ELSE Owes(u)') <= IF u = to THEN Owes(u) + 1 ELSE Owes(u)

LEMMA OwesNat == ASSUME BillingTypeOK PROVE \A t \in Turn : Owes(t) \in Nat /\ turn[t].used \in Nat
BY DEF BillingTypeOK, Owes, TurnState, Busy

LEMMA CoveredStep ==
  ASSUME BillingTypeOK, BillingTypeOK', BillsCovered,
         \/ Keeps
         \/ \E t \in Turn : Calls(t)
         \/ \E t \in Turn, to \in Turn : HandsOver(t, to)
  PROVE  BillsCovered'
<1> DEFINE g2 == [t \in Turn |-> Owes(t)']
           h2 == [t \in Turn |-> turn'[t].used]
<1>1. Owed \in [Turn -> Nat] /\ Made \in [Turn -> Nat]
  BY OwesNat DEF Owed, Made
<1>2. \A t \in Turn : Owes(t)' \in Nat /\ turn'[t].used \in Nat
  BY DEF BillingTypeOK, Owes, TurnState, Busy
<1>3. g2 \in [Turn -> Nat] /\ h2 \in [Turn -> Nat]
  BY <1>2
<1>4. \A t \in Turn : /\ g2[t] = Owes(t)' /\ h2[t] = turn'[t].used
                      /\ Owed[t] = Owes(t) /\ Made[t] = turn[t].used
                      /\ Owes(t) \in Nat /\ turn[t].used \in Nat
  BY OwesNat DEF Owed, Made
<1>5. Owed' = g2 /\ Made' = h2
  BY DEF Owed, Made
<1> HIDE DEF g2, h2
<1>6. \/ \A t \in Turn : g2[t] <= Owed[t] /\ Made[t] <= h2[t]
      \/ \E k \in Turn : \A t \in Turn : g2[t] <= Plus(Owed, k)[t] /\ Plus(Made, k)[t] <= h2[t]
      \/ \E j \in Turn, k \in Turn : \A t \in Turn : Plus(g2, j)[t] <= Plus(Owed, k)[t] /\ Made[t] <= h2[t]
  <2>1. ASSUME Keeps, NEW t \in Turn PROVE g2[t] <= Owed[t] /\ Made[t] <= h2[t]
    <3>1. Owes(t)' <= Owes(t) /\ turn'[t].used = turn[t].used
      BY <2>1 DEF Keeps
    <3> QED
      BY <1>4, <3>1
  <2>2. ASSUME NEW k \in Turn, Calls(k)
        PROVE  \A t \in Turn : g2[t] <= Plus(Owed, k)[t] /\ Plus(Made, k)[t] <= h2[t]
    BY <1>4, <2>2 DEF Calls, Plus
  <2>3. ASSUME NEW j \in Turn, NEW k \in Turn, HandsOver(j, k)
        PROVE  \A t \in Turn : Plus(g2, j)[t] <= Plus(Owed, k)[t] /\ Made[t] <= h2[t]
    BY <1>4, <2>3 DEF HandsOver, Plus
  <2> QED
    BY <2>1, <2>2, <2>3
<1>7. SumOf(g2) <= SumOf(h2)
  BY <1>1, <1>3, <1>6, SumsKeep DEF BillsCovered
<1> QED
  BY <1>5, <1>7 DEF BillsCovered

LEMMA BillingMoves ==
  ASSUME BillingTypeOK, Billable, [BillingNext]_billingVars
  PROVE  /\ Billable'
         /\ \/ Keeps
            \/ \E t \in Turn : Calls(t)
            \/ \E t \in Turn, to \in Turn : HandsOver(t, to)
<1> DEFINE Goal == /\ Billable'
                   /\ \/ Keeps
                      \/ \E t \in Turn : Calls(t)
                      \/ \E t \in Turn, to \in Turn : HandsOver(t, to)
<1>a. \A t \in Turn : turn[t] \in TurnState /\ turn[t].child \in Nat /\ turn[t].cost \in Nat /\ turn[t].used \in Nat
  BY DEF BillingTypeOK, TurnState
<1>1. CASE UNCHANGED billingVars
  BY <1>1, <1>a DEF billingVars, Keeps, Owes, Billable, Live
<1>2. ASSUME NEW t \in Turn, NEW s \in Sessions, NEW kind \in {"stream", "plain"}, Begin(t, s, kind)
      PROVE  Goal
  <2>1. \A u \in Turn : /\ turn[t].pc = "idle" /\ turn'[u].pc = IF u = t THEN "checking" ELSE turn[u].pc
                        /\ turn'[u].child = turn[u].child /\ turn'[u].cost = turn[u].cost
                        /\ turn'[u].used = turn[u].used /\ turn'[u].charged = turn[u].charged
    BY <1>2, BeginKeeps
  <2>2. Keeps
    BY <1>a, <2>1 DEF Keeps, Owes
  <2>3. Billable'
    BY <2>1 DEF Billable, Live
  <2> QED
    BY <2>2, <2>3
<1>3. ASSUME NEW t \in Turn, NEW to \in TurnPcs, turn' = [turn EXCEPT ![t].pc = to],
             \/ turn[t].pc = "checking" /\ to \in {"closing", "ended"}
             \/ turn[t].pc = "closing" /\ to = "logged"
      PROVE  Goal
  <2>1. /\ turn'[t].pc = to /\ turn'[t].child = turn[t].child /\ turn'[t].cost = turn[t].cost
        /\ turn'[t].used = turn[t].used /\ turn'[t].charged = turn[t].charged
        /\ \A u \in Turn \ {t} : turn'[u] = turn[u]
    BY <1>3 DEF BillingTypeOK, TurnState
  <2>2. Keeps
    BY <1>3, <1>a, <2>1 DEF Keeps, Owes, Billable, Live
  <2>3. Billable'
    BY <1>3, <2>1 DEF Billable, Live
  <2> QED
    BY <2>2, <2>3
<1>4. ASSUME NEW t \in Turn, Abort(t) \/ Refuse(t) \/ WriteLog(t) PROVE Goal
  BY <1>3, <1>4 DEF Abort, Refuse, WriteLog, TurnPcs, Busy
<1>5. ASSUME NEW t \in Turn, Pass(t) PROVE Goal
  <2>1. \A u \in Turn : /\ turn[t].pc = "checking" /\ turn'[u].pc = IF u = t THEN "running" ELSE turn[u].pc
                        /\ turn'[u].child = turn[u].child /\ turn'[u].cost = turn[u].cost
                        /\ turn'[u].used = IF u = t THEN 1 ELSE turn[u].used
                        /\ turn'[u].charged = turn[u].charged
    BY <1>5, PassKeeps
  <2>2. turn[t].used = 0
    BY <2>1 DEF Billable
  <2>3. Calls(t)
    BY <1>a, <2>1, <2>2 DEF Calls, Owes
  <2>4. Billable'
    BY <2>1 DEF Billable, Live
  <2> QED
    BY <2>3, <2>4
<1>6. ASSUME NEW t \in Turn, Delegate(t) PROVE Goal
  <2>1. /\ turn[t].pc = "running" /\ turn[t].used = 1
        /\ turn'[t].pc = "delegating" /\ turn'[t].child = turn[t].child /\ turn'[t].cost = turn[t].cost
        /\ turn'[t].used = 2 /\ turn'[t].charged = turn[t].charged
        /\ \A u \in Turn \ {t} : turn'[u] = turn[u]
    BY <1>6 DEF Delegate, BillingTypeOK, TurnState
  <2>2. Calls(t)
    BY <1>a, <2>1 DEF Calls, Owes
  <2>3. Billable'
    BY <2>1 DEF Billable, Live
  <2> QED
    BY <2>2, <2>3
<1>7. ASSUME NEW t \in Turn, Return(t) PROVE Goal
  <2>1. \A u \in Turn : /\ turn[t].pc = "delegating" /\ turn'[u].pc = IF u = t THEN "running" ELSE turn[u].pc
                        /\ turn'[u].child = IF u = turn[t].held THEN turn[u].child + 1 ELSE turn[u].child
                        /\ turn'[u].cost = turn[u].cost
                        /\ turn'[u].used = turn[u].used /\ turn'[u].charged = turn[u].charged
    BY <1>7, ReturnKeeps DEF Held
  <2>2. Billable'
    BY <2>1 DEF Billable, Live
  <2>3. CASE turn[t].held \in Turn
    <3>1. HandsOver(t, turn[t].held)
      BY <1>a, <2>1, <2>3 DEF HandsOver, Owes
    <3> QED
      BY <2>2, <2>3, <3>1
  <2>4. CASE turn[t].held \notin Turn
    <3>1. Keeps
      BY <1>a, <2>1, <2>4 DEF Keeps, Owes
    <3> QED
      BY <2>2, <3>1
  <2> QED
    BY <2>3, <2>4
<1>8. ASSUME NEW t \in Turn, ReturnError(t) PROVE Goal
  <2>1. /\ turn[t].pc = "delegating" /\ turn'[t].pc = "running"
        /\ turn'[t].child = turn[t].child /\ turn'[t].cost = turn[t].cost
        /\ turn'[t].used = turn[t].used /\ turn'[t].charged = turn[t].charged
        /\ \A u \in Turn \ {t} : turn'[u] = turn[u]
    BY <1>8 DEF ReturnError, BillingTypeOK, TurnState
  <2>2. Keeps
    BY <1>a, <2>1 DEF Keeps, Owes
  <2>3. Billable'
    BY <2>1 DEF Billable, Live
  <2> QED
    BY <2>2, <2>3
<1>9. ASSUME NEW t \in Turn, Complete(t) \/ Interrupt(t) PROVE Goal
  <2>1. /\ turn[t].pc \in {"running", "delegating"} /\ turn'[t].pc \in {"closing", "ended"}
        /\ turn'[t].used = turn[t].used /\ turn'[t].charged = turn[t].charged
        /\ \A u \in Turn \ {t} : turn'[u] = turn[u]
    BY <1>9, CompleteKeeps, InterruptKeeps
  <2>2. turn'[t].cost \in Nat /\ turn'[t].cost <= turn[t].child + 1
    <3>1. Folded(t, 0) \in Nat /\ Folded(t, 0) <= turn[t].child + 1 /\ Folded(t, 1) \in Nat /\ Folded(t, 1) <= turn[t].child + 1
      BY <1>a DEF Folded
    <3> QED
      BY <1>9, <1>a, <3>1, CompleteKeeps, InterruptKeeps
  <2>3. Keeps
    BY <1>a, <2>1, <2>2 DEF Keeps, Owes
  <2>4. Billable'
    BY <2>1 DEF Billable, Live
  <2> QED
    BY <2>3, <2>4
<1>10. ASSUME NEW t \in Turn, ReadBalance(t) PROVE Goal
  <2>1. \A u \in Turn : /\ turn[t].pc = "logged"
                        /\ turn'[u].pc = IF u = t THEN (IF limited THEN "deducting" ELSE "ended") ELSE turn[u].pc
                        /\ turn'[u].child = turn[u].child /\ turn'[u].cost = turn[u].cost
                        /\ turn'[u].used = turn[u].used /\ turn'[u].charged = turn[u].charged
    BY <1>10, ReadKeeps
  <2>2. Keeps
    BY <1>a, <2>1 DEF Keeps, Owes
  <2>3. Billable'
    BY <2>1 DEF Billable, Live
  <2> QED
    BY <2>2, <2>3
<1>11. ASSUME NEW t \in Turn, Deduct(t) PROVE Goal
  <2>1. \A u \in Turn : /\ turn[t].pc = "deducting" /\ turn'[u].pc = IF u = t THEN "paid" ELSE turn[u].pc
                        /\ turn'[u].charged = IF u = t THEN turn[t].cost ELSE turn[u].charged
                        /\ turn'[u].child = turn[u].child /\ turn'[u].cost = turn[u].cost
                        /\ turn'[u].used = turn[u].used
    BY <1>11, DeductKeeps
  <2>2. Keeps
    BY <1>a, <2>1 DEF Keeps, Owes
  <2>3. Billable'
    BY <2>1 DEF Billable, Live
  <2> QED
    BY <2>2, <2>3
<1>12. ASSUME NEW t \in Turn, BillFails(t) PROVE Goal
  <2>1. /\ turn[t].pc \in {"closing", "logged", "deducting"} /\ turn'[t].pc = "ended"
        /\ turn'[t].child = turn[t].child /\ turn'[t].cost = turn[t].cost
        /\ turn'[t].used = turn[t].used /\ turn'[t].charged = turn[t].charged
        /\ \A u \in Turn \ {t} : turn'[u] = turn[u]
    BY <1>12 DEF BillFails, BillingTypeOK, TurnState
  <2>2. Keeps
    BY <1>a, <2>1 DEF Keeps, Owes
  <2>3. Billable'
    BY <2>1 DEF Billable, Live
  <2> QED
    BY <2>2, <2>3
<1>13. CASE ProcessDies
  <2>1. \A u \in Turn : /\ turn'[u].pc = IF turn[u].pc \in Busy THEN "ended" ELSE turn[u].pc
                        /\ turn'[u].cost = turn[u].cost /\ turn'[u].used = turn[u].used
                        /\ turn'[u].charged = turn[u].charged
                        /\ turn[u].pc \notin Busy => turn'[u] = turn[u]
    BY <1>13, DiesKeeps
  <2>2. Keeps
    BY <1>a, <2>1 DEF Keeps, Owes, Busy, Billable, Live
  <2>3. Billable'
    BY <2>1 DEF Billable, Live, Busy
  <2> QED
    BY <2>2, <2>3
<1>14. CASE AddFunds \/ LiftLimit
  <2>1. \A u \in Turn : /\ turn'[u].pc = turn[u].pc /\ turn'[u].child = turn[u].child
                        /\ turn'[u].cost = turn[u].cost /\ turn'[u].used = turn[u].used
                        /\ turn'[u].charged = turn[u].charged
    BY <1>14, AdminKeeps DEF AddFunds, LiftLimit
  <2>2. Keeps
    BY <1>a, <2>1 DEF Keeps, Owes
  <2>3. Billable'
    BY <2>1 DEF Billable, Live
  <2> QED
    BY <2>2, <2>3
<1> QED
  BY <1>1, <1>2, <1>4, <1>5, <1>6, <1>7, <1>8, <1>9, <1>10, <1>11, <1>12, <1>13, <1>14 DEF BillingNext

\* However turns of a session overlap, and whichever bus a sub-agent has found: of all
\* calls that were made none is in two bills, and no turn is charged more than its bill.
THEOREM NothingBilledTwice == BillingSpec => []BilledOnce
<1>1. BillingInit => Billable /\ BillsCovered
  <2> SUFFICES ASSUME BillingInit PROVE Billable /\ BillsCovered
    OBVIOUS
  <2>1. \A t \in Turn : /\ turn[t].pc = "idle" /\ turn[t].used = 0 /\ turn[t].child = 0
                        /\ turn[t].cost = 0 /\ turn[t].charged = 0
    BY DEF BillingInit, Unstarted
  <2>2. BillingTypeOK
    BY BillingTyped
  <2>3. Owed \in [Turn -> Nat] /\ Made \in [Turn -> Nat]
    BY <2>2, OwesNat DEF Owed, Made
  <2>4. \A t \in Turn : Owed[t] <= Made[t]
    BY <2>1 DEF Owed, Made, Owes
  <2>5. BillsCovered
    BY <2>3, <2>4, SumMonotone DEF BillsCovered
  <2>6. Billable
    BY <2>1 DEF Billable
  <2> QED
    BY <2>5, <2>6
<1>2. BillingTypeOK /\ Billable /\ BillsCovered /\ [BillingNext]_billingVars => Billable' /\ BillsCovered'
  BY BillingMoves, BillingTypeStep, CoveredStep
<1>3. BillingTypeOK /\ Billable /\ BillsCovered => BilledOnce
  <2> SUFFICES ASSUME BillingTypeOK, Billable, BillsCovered PROVE BilledOnce
    OBVIOUS
  <2> DEFINE cost == [t \in Turn |-> turn[t].cost]
  <2>1. Owed \in [Turn -> Nat] /\ Made \in [Turn -> Nat]
    BY OwesNat DEF Owed, Made
  <2>2. \A t \in Turn : turn[t].cost \in Nat /\ turn[t].child \in Nat /\ turn[t].pc \in TurnPcs
    BY DEF BillingTypeOK, TurnState, TurnPcs
  <2>3. cost \in [Turn -> Nat]
    BY <2>2
  <2>4. \A t \in Turn : turn[t].cost <= Owes(t)
    BY <2>2 DEF Owes, Billable, Live
  <2>5. \A t \in Turn : cost[t] <= Owed[t]
    BY <2>4 DEF Owed
  <2> HIDE DEF cost
  <2>6. SumOf(cost) <= SumOf(Owed) /\ SumOf(cost) \in Nat /\ SumOf(Owed) \in Nat
    BY <2>1, <2>3, <2>5, SumMonotone
  <2>7. SumOf(Made) \in Nat
    <3>1. \A t \in Turn : Made[t] <= Made[t]
      BY <2>1
    <3> QED
      BY <2>1, <3>1, SumMonotone
  <2>8. SumOf(cost) <= SumOf(Made)
    BY <2>6, <2>7 DEF BillsCovered
  <2>9. \A t \in Turn : turn[t].charged \in {0, turn[t].cost}
    BY DEF Billable
  <2> QED
    BY <2>8, <2>9 DEF BilledOnce, Made, cost
<1> QED
  BY <1>1, <1>2, <1>3, BillingTyped, BillingTypeStep, PTL DEF BillingSpec

------------------------------------------------------------------------------
(* The circuit breaker.                                                     *)

\* A failure that is being recorded has counted records that are there.
Counts == \A c \in Callers : call[c].pc = "counting" => call[c].seen <= Len(log)

LEMMA CircuitTyped == CircuitInit => CircuitTypeOK /\ Counts
<1> SUFFICES ASSUME CircuitInit PROVE CircuitTypeOK /\ Counts
  OBVIOUS
<1>1. clock = 0 /\ circuit = Closed /\ log = <<>> /\ call = [c \in Callers |-> NoCall]
  BY DEF CircuitInit
<1>2. Closed \in Circuit /\ Closed.failures = 0
  BY CircuitAssumption DEF Closed, Circuit, NotSet, Time
<1>3. NoCall \in CallState /\ NoCall.pc = "idle"
  BY CircuitAssumption DEF NoCall, CallState, Time
<1>4. log \in Seq(Record) /\ Len(log) = 0 /\ clock \in Time
  BY <1>1, CircuitAssumption DEF Time
<1> QED
  BY <1>1, <1>2, <1>3, <1>4, CircuitAssumption DEF CircuitTypeOK, Counts

LEMMA Appended ==
  ASSUME NEW l \in Seq(Record), NEW r \in Record
  PROVE  /\ Append(l, r) \in Seq(Record) /\ Len(Append(l, r)) = Len(l) + 1
         /\ Append(l, r)[Len(l) + 1] = r
         /\ \A i \in 1 .. Len(l) : Append(l, r)[i] = l[i]
  OBVIOUS

\* What the hash and the log become, and one call.
LEMMA CircuitMove ==
  ASSUME CircuitTypeOK, Counts, NEW c \in Callers, NEW x \in CallState, NEW r \in Record,
         x.pc # "counting", call' = [call EXCEPT ![c] = x],
         log' = Append(log, r), Len(log) < MaxRecords,
         circuit' \in Circuit, circuit'.failures <= Len(log) + 1, clock' = clock
  PROVE  CircuitTypeOK' /\ Counts'
<1>1. log' \in Seq(Record) /\ Len(log') = Len(log) + 1 /\ Len(log) \in Nat
  BY Appended DEF CircuitTypeOK
<1>2. Len(log') <= MaxRecords
  BY <1>1, CircuitAssumption
<1>3. call' \in [Callers -> CallState]
  BY DEF CircuitTypeOK
<1>4. ASSUME NEW d \in Callers, call'[d].pc = "counting"
      PROVE  call'[d].failures <= call'[d].seen + 1 /\ call'[d].seen <= Len(log')
  <2>1. d # c /\ call'[d] = call[d]
    BY <1>4 DEF CircuitTypeOK
  <2>2. call[d].seen \in Nat
    BY CircuitAssumption DEF CircuitTypeOK, CallState
  <2> QED
    BY <1>1, <1>4, <2>1, <2>2 DEF CircuitTypeOK, Counts
<1> QED
  BY <1>1, <1>2, <1>3, <1>4 DEF CircuitTypeOK, Counts

LEMMA Refreshes == CircuitTypeOK => Refreshed \in 0 .. MaxClock + 2 * Cooldown
  BY CircuitAssumption DEF CircuitTypeOK, Refreshed, Time

LEMMA CircuitTypeStep ==
  CircuitTypeOK /\ Counts /\ [CircuitNext]_circuitVars => CircuitTypeOK' /\ Counts'
<1> SUFFICES ASSUME CircuitTypeOK, Counts, [CircuitNext]_circuitVars PROVE CircuitTypeOK' /\ Counts'
  OBVIOUS
<1>0. Len(log) \in Nat /\ clock \in Time /\ circuit \in Circuit
  BY DEF CircuitTypeOK
<1>9. NoCall \in CallState /\ NoCall.pc = "idle"
  BY CircuitAssumption DEF NoCall, CallState, Time
<1>10. Closed \in Circuit /\ Closed.failures = 0
  BY CircuitAssumption DEF Closed, Circuit, NotSet, Time
<1>11. ASSUME NEW c \in Callers, NEW x \in CallState, call' = [call EXCEPT ![c] = x],
              x.pc = "counting" => x.failures <= x.seen + 1 /\ x.seen <= Len(log),
              UNCHANGED <<clock, circuit, log>>
       PROVE  CircuitTypeOK' /\ Counts'
  BY <1>11 DEF CircuitTypeOK, Counts
<1>1. CASE UNCHANGED circuitVars
  BY <1>1 DEF circuitVars, CircuitTypeOK, Counts
<1>2. ASSUME NEW c \in Callers, BeforeCall(c) PROVE CircuitTypeOK' /\ Counts'
  <2> DEFINE x == [call[c] EXCEPT !.pc = "sending"]
  <2>1. call' = [call EXCEPT ![c] = x] /\ UNCHANGED <<clock, circuit, log>>
    BY <1>2 DEF BeforeCall
  <2>2. x \in CallState /\ x.pc = "sending"
    BY DEF CircuitTypeOK, CallState
  <2> HIDE DEF x
  <2> QED
    BY <1>11, <2>1, <2>2
<1>3. ASSUME NEW c \in Callers, RecordSuccess(c) PROVE CircuitTypeOK' /\ Counts'
  <2> DEFINE r == [what |-> "success", at |-> clock, seen |-> Len(log)]
  <2>1. r \in Record
    BY <1>0, <1>3 DEF Record, CircuitTypeOK, CallState
  <2>2. Succeeded \in Circuit /\ Succeeded.failures = 0
    BY <1>10, Refreshes DEF Succeeded, Circuit
  <2>3. /\ call' = [call EXCEPT ![c] = NoCall] /\ log' = Append(log, r) /\ Len(log) < MaxRecords
        /\ circuit' = Succeeded /\ clock' = clock
    BY <1>3 DEF RecordSuccess
  <2>4. circuit' \in Circuit /\ circuit'.failures <= Len(log) + 1
    BY <1>0, <2>2, <2>3
  <2>5. NoCall.pc # "counting"
    BY <1>9
  <2> HIDE DEF r
  <2> QED
    BY <1>9, <2>1, <2>3, <2>4, <2>5, CircuitMove
<1>4. ASSUME NEW c \in Callers, CountFailure(c) PROVE CircuitTypeOK' /\ Counts'
  <2> DEFINE x == [call[c] EXCEPT !.pc = "counting", !.failures = FailuresNow, !.at = clock, !.seen = Len(log)]
  <2>1. call' = [call EXCEPT ![c] = x] /\ UNCHANGED <<clock, circuit, log>> /\ Len(log) < MaxRecords
    BY <1>4 DEF CountFailure
  <2>2. FailuresNow \in 0 .. MaxRecords /\ FailuresNow <= Len(log) + 1
    BY <1>0, <2>1, CircuitAssumption DEF FailuresNow, Circuit, CircuitTypeOK
  <2>3. Len(log) \in 0 .. MaxRecords
    BY <1>0, <2>1, CircuitAssumption
  <2>4. x \in CallState /\ x.failures = FailuresNow /\ x.seen = Len(log)
    BY <1>0, <2>2, <2>3 DEF CircuitTypeOK, CallState
  <2> HIDE DEF x
  <2> QED
    <3>1. x.failures <= x.seen + 1 /\ x.seen <= Len(log)
      BY <1>0, <2>2, <2>4
    <3>2. UNCHANGED <<clock, circuit, log>>
      BY <2>1
    <3> QED
      BY <1>11, <2>1, <2>4, <3>1, <3>2
<1>5. ASSUME NEW c \in Callers, RecordFailure(c) PROVE CircuitTypeOK' /\ Counts'
  <2> DEFINE r == [what |-> "failure", at |-> call[c].at, seen |-> call[c].seen]
             h == [failures |-> call[c].failures, last |-> call[c].at, expires |-> Refreshed,
                   degraded |-> IF call[c].failures >= Threshold THEN call[c].at ELSE circuit.degraded]
  <2>1. call[c] \in CallState /\ call[c].pc = "counting"
    BY <1>5 DEF RecordFailure, CircuitTypeOK
  <2>2. r \in Record
    BY <2>1 DEF Record, CallState
  <2>3. h \in Circuit
    BY <1>0, <2>1, Refreshes DEF Circuit, CallState
  <2>4. h.failures <= Len(log) + 1
    <3>1. call[c].failures <= call[c].seen + 1 /\ call[c].seen <= Len(log)
      BY <2>1 DEF CircuitTypeOK, Counts
    <3>2. call[c].failures \in Int /\ call[c].seen \in Int
      BY <2>1, CircuitAssumption DEF CallState
    <3> QED
      BY <1>0, <3>1, <3>2
  <2>5. /\ call' = [call EXCEPT ![c] = NoCall] /\ log' = Append(log, r) /\ Len(log) < MaxRecords
        /\ circuit' = h /\ clock' = clock
    BY <1>5 DEF RecordFailure
  <2> HIDE DEF r, h
  <2> QED
    BY <1>9, <2>2, <2>3, <2>4, <2>5, CircuitMove
<1>6. ASSUME NEW c \in Callers, Abandon(c) PROVE CircuitTypeOK' /\ Counts'
  BY <1>6, <1>9, <1>11 DEF Abandon
<1>7. CASE Reset
  <2> DEFINE r == [what |-> "reset", at |-> clock, seen |-> Len(log)]
  <2>1. r \in Record
    <3>1. Len(log) \in 0 .. MaxRecords
      BY <1>0 DEF CircuitTypeOK
    <3> QED
      BY <1>0, <3>1 DEF Record
  <2>2. log' = Append(log, r) /\ Len(log) < MaxRecords /\ circuit' = Closed /\ UNCHANGED <<clock, call>>
    BY <1>7 DEF Reset
  <2> HIDE DEF r
  <2>3. log' \in Seq(Record) /\ Len(log') = Len(log) + 1
    BY <2>1, <2>2, Appended DEF CircuitTypeOK
  <2>4. Len(log') <= MaxRecords
    BY <1>0, <2>2, <2>3, CircuitAssumption
  <2>5. \A d \in Callers : call[d].seen \in Nat
    BY CircuitAssumption DEF CircuitTypeOK, CallState
  <2> QED
    BY <1>0, <1>10, <2>2, <2>3, <2>4, <2>5 DEF CircuitTypeOK, Counts
<1>8. CASE PassTime
  <2>1. clock' \in Time /\ UNCHANGED <<call, log>> /\ circuit' \in {circuit, Closed}
    BY <1>0, <1>8, CircuitAssumption DEF PassTime, Time
  <2> QED
    BY <1>0, <1>10, <2>1 DEF CircuitTypeOK, Counts
<1> QED
  BY <1>1, <1>2, <1>3, <1>4, <1>5, <1>6, <1>7, <1>8 DEF CircuitNext

\* The counter never exceeds the failures there were, and everything has its type.
THEOREM CircuitTypeCorrect == CircuitSpec => []CircuitTypeOK
<1> QED
  BY CircuitTyped, CircuitTypeStep, PTL DEF CircuitSpec

\* A chain of n failures in a log, by the places of its records.
Links(l, n, e) ==
  /\ e \in [1 .. n -> 1 .. Len(l)]
  /\ \A i \in 1 .. n : l[e[i]].what = "failure"
  /\ \A i \in 1 .. n : i # 1 => l[e[i]].seen = e[i - 1] /\ l[e[i]].at - l[e[i - 1]].at < Window

\* A chain that ends with a record of that time.
Linked(l, n, last, at) == \E e : Links(l, n, e) /\ e[n] = last /\ l[last].at = at

LEMMA LinksGrow ==
  ASSUME NEW l \in Seq(Record), NEW r \in Record, NEW n \in Nat, NEW e, Links(l, n, e)
  PROVE  Links(Append(l, r), n, e)
<1>1. Len(l) \in Nat /\ \A i \in 1 .. n : e[i] \in 1 .. Len(l)
  BY DEF Links
<1>2. \A i \in 1 .. n : i # 1 => i - 1 \in 1 .. n
  OBVIOUS
<1>3. Len(Append(l, r)) = Len(l) + 1 /\ \A i \in 1 .. Len(l) : Append(l, r)[i] = l[i]
  BY Appended
<1>4. e \in [1 .. n -> 1 .. Len(l) + 1]
  BY <1>1 DEF Links
<1> HIDE DEF Links
<1> DEFINE m == Append(l, r)
<1>5. Len(m) = Len(l) + 1 /\ \A i \in 1 .. Len(l) : m[i] = l[i]
  BY <1>3
<1> HIDE DEF m
<1>6. Links(m, n, e)
  BY <1>1, <1>2, <1>4, <1>5 DEF Links
<1> QED
  BY <1>6 DEF m

LEMMA LinkedGrows ==
  ASSUME NEW l \in Seq(Record), NEW r \in Record, NEW n \in Nat \ {0}, NEW last, NEW at,
         Linked(l, n, last, at)
  PROVE  Linked(Append(l, r), n, last, at)
<1>1. PICK e : Links(l, n, e) /\ e[n] = last /\ l[last].at = at
  BY DEF Linked
<1>2. Links(Append(l, r), n, e)
  BY <1>1, LinksGrow
<1>3. last \in 1 .. Len(l)
  BY <1>1 DEF Links
<1>4. Append(l, r)[last] = l[last]
  BY <1>3, Appended
<1> QED
  BY <1>1, <1>2, <1>4 DEF Linked

\* The first failure of a chain.
LEMMA LinkedFirst ==
  ASSUME NEW l \in Seq(Record), NEW r \in Record, r.what = "failure"
  PROVE  Linked(Append(l, r), 1, Len(l) + 1, r.at)
<1> DEFINE m == Append(l, r)
           e == [i \in 1 .. 1 |-> Len(l) + 1]
<1>1. Len(m) = Len(l) + 1 /\ m[Len(l) + 1] = r /\ Len(l) \in Nat
  BY Appended
<1> HIDE DEF m
<1>2. Links(m, 1, e) /\ e[1] = Len(l) + 1 /\ m[Len(l) + 1].at = r.at
  BY <1>1 DEF Links
<1> QED
  BY <1>2 DEF Linked, m

\* One more failure, that has seen the last one of the chain.
LEMMA LinkedNext ==
  ASSUME NEW l \in Seq(Record), NEW r \in Record, r.what = "failure",
         NEW n \in Nat \ {0}, NEW at \in Int, Linked(l, n, r.seen, at), r.at - at < Window
  PROVE  Linked(Append(l, r), n + 1, Len(l) + 1, r.at)
<1>1. PICK e : Links(l, n, e) /\ e[n] = r.seen /\ l[r.seen].at = at
  BY DEF Linked
<1> DEFINE m == Append(l, r)
           f == [i \in 1 .. n + 1 |-> IF i = n + 1 THEN Len(l) + 1 ELSE e[i]]
<1>2. /\ Len(m) = Len(l) + 1 /\ m[Len(l) + 1] = r /\ Len(l) \in Nat
      /\ \A i \in 1 .. Len(l) : m[i] = l[i]
  BY Appended
<1>3. Links(m, n, e)
  BY <1>1, LinksGrow
<1> HIDE DEF m
<1>4. \A i \in 1 .. n : e[i] \in 1 .. Len(l) /\ f[i] = e[i]
  BY <1>1 DEF Links
<1>5. f[n + 1] = Len(l) + 1 /\ n + 1 \in 1 .. n + 1
  OBVIOUS
<1>6. f \in [1 .. n + 1 -> 1 .. Len(m)]
  <2>1. \A i \in 1 .. n + 1 : f[i] \in 1 .. Len(m)
    <3>1. \A i \in 1 .. n + 1 : i = n + 1 \/ i \in 1 .. n
      OBVIOUS
    <3> HIDE DEF f
    <3>2. Len(l) + 1 \in 1 .. Len(m) /\ \A i \in 1 .. n : f[i] \in 1 .. Len(m)
      BY <1>2, <1>4
    <3> QED
      BY <1>5, <3>1, <3>2
  <2> DEFINE g(i) == IF i = n + 1 THEN Len(l) + 1 ELSE e[i]
  <2>2. f = [i \in 1 .. n + 1 |-> g(i)] /\ \A i \in 1 .. n + 1 : f[i] = g(i)
    OBVIOUS
  <2> HIDE DEF f, g
  <2> QED
    BY <2>1, <2>2
<1>7. m[f[n + 1]] = r /\ f[n] = r.seen /\ m[f[n]].at = at
  BY <1>1, <1>2, <1>4, <1>5
<1> HIDE DEF f
<1>8. \A i \in 1 .. n + 1 : m[f[i]].what = "failure"
  <2> SUFFICES ASSUME NEW i \in 1 .. n + 1 PROVE m[f[i]].what = "failure"
    OBVIOUS
  <2>1. CASE i = n + 1
    BY <1>7, <2>1
  <2>2. CASE i \in 1 .. n
    BY <1>3, <1>4, <2>2 DEF Links
  <2> QED
    BY <2>1, <2>2
<1>9. \A i \in 1 .. n + 1 : i # 1 => m[f[i]].seen = f[i - 1] /\ m[f[i]].at - m[f[i - 1]].at < Window
  <2> SUFFICES ASSUME NEW i \in 1 .. n + 1, i # 1
               PROVE  m[f[i]].seen = f[i - 1] /\ m[f[i]].at - m[f[i - 1]].at < Window
    OBVIOUS
  <2>1. CASE i = n + 1
    <3>1. i - 1 = n
      BY <2>1
    <3> QED
      BY <1>7, <2>1, <3>1
  <2>2. CASE i \in 1 .. n
    <3>1. i - 1 \in 1 .. n
      BY <2>2
    <3> QED
      BY <1>3, <1>4, <2>2, <3>1 DEF Links
  <2> QED
    BY <2>1, <2>2
<1>10. Links(m, n + 1, f)
  BY <1>6, <1>8, <1>9 DEF Links
<1> QED
  BY <1>5, <1>7, <1>10 DEF Linked, m

\* The end of a chain is a chain.
LEMMA LinkedEnd ==
  ASSUME NEW l \in Seq(Record), NEW n \in Nat \ {0}, NEW last, NEW at, Linked(l, n, last, at),
         NEW k \in 1 .. n
  PROVE  Linked(l, k, last, at)
<1>1. PICK e : Links(l, n, e) /\ e[n] = last /\ l[last].at = at
  BY DEF Linked
<1> DEFINE f == [i \in 1 .. k |-> e[n - k + i]]
<1>2. \A i \in 1 .. k : n - k + i \in 1 .. n /\ f[i] = e[n - k + i]
  OBVIOUS
<1>3. f \in [1 .. k -> 1 .. Len(l)] /\ f[k] = last
  BY <1>1, <1>2 DEF Links
<1> HIDE DEF f
<1>4. \A i \in 1 .. k : l[f[i]].what = "failure"
  BY <1>1, <1>2 DEF Links
<1>5. ASSUME NEW i \in 1 .. k, i # 1
      PROVE  l[f[i]].seen = f[i - 1] /\ l[f[i]].at - l[f[i - 1]].at < Window
  <2>1. i - 1 \in 1 .. k /\ (n - k + i) - 1 = n - k + (i - 1) /\ n - k + i # 1
    BY <1>5
  <2>2. f[i] = e[n - k + i] /\ f[i - 1] = e[(n - k + i) - 1]
    BY <1>2, <2>1
  <2> QED
    BY <1>1, <1>2, <2>1, <2>2 DEF Links
<1> QED
  BY <1>1, <1>3, <1>4, <1>5 DEF Linked, Links

\* The counter, a count that is about to be written, and an open circuit each rest
\* on a chain.
Founded ==
  /\ circuit.failures > 0 =>
       circuit.last # NotSet /\ Linked(log, circuit.failures, Len(log), circuit.last)
  /\ \A c \in Callers : call[c].pc = "counting" =>
       /\ call[c].failures > 0
       /\ call[c].failures > 1 =>
            \E at \in Time : /\ call[c].at - at < Window
                             /\ Linked(log, call[c].failures - 1, call[c].seen, at)
  /\ circuit.degraded # NotSet =>
       \E last : Linked(log, Threshold, last, circuit.degraded)

\* The record of a failure makes the chain longer.
LEMMA Recorded ==
  ASSUME CircuitTypeOK, Founded, NEW c \in Callers, call[c].pc = "counting", NEW r \in Record,
         r.what = "failure", r.at = call[c].at, r.seen = call[c].seen
  PROVE  Linked(Append(log, r), call[c].failures, Len(log) + 1, call[c].at)
<1>1. log \in Seq(Record) /\ call[c].failures \in Nat /\ call[c].failures > 0
  BY CircuitAssumption DEF CircuitTypeOK, CallState, Founded
<1>2. CASE call[c].failures = 1
  BY <1>1, <1>2, LinkedFirst
<1>3. CASE call[c].failures > 1
  <2>1. PICK at \in Time : /\ call[c].at - at < Window
                           /\ Linked(log, call[c].failures - 1, call[c].seen, at)
    BY <1>3 DEF Founded
  <2>2. call[c].failures - 1 \in Nat \ {0} /\ at \in Int /\ (call[c].failures - 1) + 1 = call[c].failures
    BY <1>1, <1>3, CircuitAssumption DEF Time
  <2> QED
    BY <1>1, <2>1, <2>2, LinkedNext
<1> QED
  BY <1>1, <1>2, <1>3

\* What the log has founded stays founded when it grows.
LEMMA FoundedGrows ==
  ASSUME CircuitTypeOK, Founded, NEW c \in Callers, NEW r \in Record, log' = Append(log, r)
  PROVE  /\ call[c].pc = "counting" =>
              /\ call[c].failures > 0
              /\ call[c].failures > 1 =>
                   \E at \in Time : /\ call[c].at - at < Window
                                    /\ Linked(log', call[c].failures - 1, call[c].seen, at)
         /\ circuit.degraded # NotSet => \E last : Linked(log', Threshold, last, circuit.degraded)
<1>1. log \in Seq(Record) /\ call[c].failures \in Nat
  BY CircuitAssumption DEF CircuitTypeOK, CallState
<1>2. ASSUME call[c].pc = "counting", call[c].failures > 1
      PROVE  \E at \in Time : /\ call[c].at - at < Window
                              /\ Linked(log', call[c].failures - 1, call[c].seen, at)
  <2>1. PICK at \in Time : /\ call[c].at - at < Window
                           /\ Linked(log, call[c].failures - 1, call[c].seen, at)
    BY <1>2 DEF Founded
  <2>2. call[c].failures - 1 \in Nat \ {0}
    BY <1>1, <1>2
  <2> QED
    BY <1>1, <2>1, <2>2, LinkedGrows
<1>3. ASSUME circuit.degraded # NotSet PROVE \E last : Linked(log', Threshold, last, circuit.degraded)
  BY <1>1, <1>3, LinkedGrows, CircuitAssumption DEF Founded
<1> QED
  BY <1>2, <1>3 DEF Founded

LEMMA FoundedStep ==
  CircuitTypeOK /\ Counts /\ Founded /\ [CircuitNext]_circuitVars => Founded'
<1> SUFFICES ASSUME CircuitTypeOK, Counts, Founded, [CircuitNext]_circuitVars PROVE Founded'
  OBVIOUS
<1>0. log \in Seq(Record) /\ Len(log) \in Nat /\ clock \in Time /\ circuit \in Circuit
  BY DEF CircuitTypeOK
<1>1. CASE UNCHANGED circuitVars
  BY <1>1 DEF circuitVars, Founded
<1>2. ASSUME NEW c \in Callers, BeforeCall(c) \/ Abandon(c) PROVE Founded'
  <2>1. \A d \in Callers : call'[d].pc = "counting" => d # c /\ call'[d] = call[d]
    <3>1. CASE BeforeCall(c)
      <4> DEFINE x == [call[c] EXCEPT !.pc = "sending"]
      <4>1. call' = [call EXCEPT ![c] = x]
        BY <3>1 DEF BeforeCall
      <4>2. x.pc = "sending"
        BY DEF CircuitTypeOK, CallState
      <4> HIDE DEF x
      <4> QED
        BY <4>1, <4>2 DEF CircuitTypeOK
    <3>2. CASE Abandon(c)
      BY <3>2 DEF Abandon, CircuitTypeOK, NoCall
    <3> QED
      BY <1>2, <3>1, <3>2
  <2>2. UNCHANGED <<circuit, log>>
    BY <1>2 DEF BeforeCall, Abandon
  <2> QED
    BY <2>1, <2>2 DEF Founded
<1>3. ASSUME NEW c \in Callers, CountFailure(c) PROVE Founded'
  <2> DEFINE x == [call[c] EXCEPT !.pc = "counting", !.failures = FailuresNow, !.at = clock, !.seen = Len(log)]
  <2>1. call' = [call EXCEPT ![c] = x] /\ UNCHANGED <<circuit, log>>
    BY <1>3 DEF CountFailure
  <2>2. x.failures = FailuresNow /\ x.at = clock /\ x.seen = Len(log)
    BY DEF CircuitTypeOK, CallState
  <2> HIDE DEF x
  <2>3. FailuresNow > 0
    BY <1>0, CircuitAssumption DEF FailuresNow, Circuit
  <2>4. ASSUME FailuresNow > 1
        PROVE  \E at \in Time : clock - at < Window /\ Linked(log, FailuresNow - 1, Len(log), at)
    <3>1. FailuresNow = 1 + circuit.failures /\ circuit.failures > 0
          /\ ~(circuit.last # NotSet /\ clock - circuit.last >= Window)
      BY <1>0, <2>4, CircuitAssumption DEF FailuresNow, Circuit
    <3>2. circuit.last # NotSet /\ Linked(log, circuit.failures, Len(log), circuit.last)
      BY <3>1 DEF Founded
    <3>3. circuit.last \in Time
      BY <1>0, <3>2 DEF Circuit
    <3>4. clock - circuit.last < Window /\ FailuresNow - 1 = circuit.failures
      BY <1>0, <3>1, <3>2, <3>3, CircuitAssumption DEF Time, Circuit
    <3> QED
      BY <3>2, <3>3, <3>4
  <2>5. \A d \in Callers : call'[d] = IF d = c THEN x ELSE call[d]
    BY <2>1 DEF CircuitTypeOK
  <2> QED
    BY <2>1, <2>2, <2>3, <2>4, <2>5 DEF Founded
<1>4. ASSUME NEW c \in Callers, RecordFailure(c) PROVE Founded'
  <2> DEFINE r == [what |-> "failure", at |-> call[c].at, seen |-> call[c].seen]
  <2>1. call[c] \in CallState /\ call[c].pc = "counting"
    BY <1>4 DEF RecordFailure, CircuitTypeOK
  <2>2. r \in Record /\ r.what = "failure" /\ r.at = call[c].at /\ r.seen = call[c].seen
    BY <2>1 DEF Record, CallState
  <2>3. /\ call' = [call EXCEPT ![c] = NoCall] /\ log' = Append(log, r)
        /\ circuit'.failures = call[c].failures /\ circuit'.last = call[c].at
        /\ circuit'.degraded = IF call[c].failures >= Threshold THEN call[c].at ELSE circuit.degraded
    BY <1>4 DEF RecordFailure
  <2> HIDE DEF r
  <2>4. Len(log') = Len(log) + 1 /\ log' \in Seq(Record)
    BY <1>0, <2>2, <2>3, Appended
  <2>5. Linked(log', call[c].failures, Len(log'), call[c].at)
    BY <2>1, <2>2, <2>3, <2>4, Recorded
  <2>6. call[c].failures \in Nat /\ call[c].failures > 0 /\ call[c].at # NotSet
    BY <2>1, CircuitAssumption DEF CallState, Time, NotSet, Founded
  <2>7. circuit'.degraded # NotSet => \E last : Linked(log', Threshold, last, circuit'.degraded)
    <3>1. CASE call[c].failures >= Threshold
      <4>1. call[c].failures \in Nat \ {0} /\ Threshold \in 1 .. call[c].failures
        BY <2>6, <3>1, CircuitAssumption
      <4> QED
        BY <2>3, <2>4, <2>5, <3>1, <4>1, LinkedEnd
    <3>2. CASE ~(call[c].failures >= Threshold)
      BY <2>2, <2>3, <3>2, FoundedGrows
    <3> QED
      BY <3>1, <3>2
  <2>8. \A d \in Callers : call'[d] = IF d = c THEN NoCall ELSE call[d]
    BY <2>3 DEF CircuitTypeOK
  <2>9. ASSUME NEW d \in Callers, call'[d].pc = "counting"
        PROVE  /\ call'[d].failures > 0
               /\ call'[d].failures > 1 =>
                    \E at \in Time : /\ call'[d].at - at < Window
                                     /\ Linked(log', call'[d].failures - 1, call'[d].seen, at)
    <3>1. d # c /\ call'[d] = call[d]
      BY <2>8, <2>9 DEF NoCall
    <3> QED
      BY <2>2, <2>3, <2>9, <3>1, FoundedGrows
  <2> QED
    BY <2>3, <2>5, <2>6, <2>7, <2>9 DEF Founded
<1>5. ASSUME NEW r \in Record, log' = Append(log, r), circuit'.failures = 0, circuit'.degraded = NotSet,
             \A d \in Callers : call'[d] \in {call[d], NoCall}
      PROVE  Founded'
  <2>1. ASSUME NEW d \in Callers, call'[d].pc = "counting"
        PROVE  /\ call'[d].failures > 0
               /\ call'[d].failures > 1 =>
                    \E at \in Time : /\ call'[d].at - at < Window
                                     /\ Linked(log', call'[d].failures - 1, call'[d].seen, at)
    <3>1. call'[d] = call[d]
      BY <1>5, <2>1 DEF NoCall
    <3> QED
      BY <1>5, <2>1, <3>1, FoundedGrows
  <2> QED
    BY <1>5, <2>1 DEF Founded
<1>6. ASSUME NEW c \in Callers, RecordSuccess(c) PROVE Founded'
  <2> DEFINE r == [what |-> "success", at |-> clock, seen |-> Len(log)]
  <2>1. log' = Append(log, r) /\ circuit' = Succeeded /\ call' = [call EXCEPT ![c] = NoCall]
        /\ Len(log) < MaxRecords
    BY <1>6 DEF RecordSuccess
  <2>2. r \in Record
    BY <1>0, <2>1 DEF Record, CircuitTypeOK, CallState
  <2>3. circuit'.failures = 0 /\ circuit'.degraded = NotSet
    BY <2>1 DEF Succeeded, Closed
  <2>4. \A d \in Callers : call'[d] \in {call[d], NoCall}
    BY <2>1 DEF CircuitTypeOK
  <2> HIDE DEF r
  <2> QED
    BY <1>5, <2>1, <2>2, <2>3, <2>4
<1>7. CASE Reset
  <2> DEFINE r == [what |-> "reset", at |-> clock, seen |-> Len(log)]
  <2>1. log' = Append(log, r) /\ circuit' = Closed /\ call' = call
    BY <1>7 DEF Reset
  <2>2. r \in Record
    <3>1. Len(log) \in 0 .. MaxRecords
      BY <1>0 DEF CircuitTypeOK
    <3> QED
      BY <1>0, <3>1 DEF Record
  <2>3. circuit'.failures = 0 /\ circuit'.degraded = NotSet
    BY <2>1 DEF Closed
  <2> HIDE DEF r
  <2> QED
    BY <1>5, <2>1, <2>2, <2>3
<1>8. CASE PassTime
  <2>1. UNCHANGED <<call, log>> /\ circuit' \in {circuit, Closed}
    BY <1>8 DEF PassTime
  <2>2. CASE circuit' = circuit
    BY <2>1, <2>2 DEF Founded
  <2>3. CASE circuit' = Closed
    <3>1. circuit'.failures = 0 /\ circuit'.degraded = NotSet
      BY <2>3 DEF Closed
    <3> QED
      BY <2>1, <3>1 DEF Founded
  <2> QED
    BY <2>1, <2>2, <2>3
<1> QED
  BY <1>1, <1>2, <1>3, <1>4, <1>6, <1>7, <1>8 DEF CircuitNext

\* An open circuit has a cause, however the calls that share it interleave.
THEOREM OpenCircuitHasCause == CircuitSpec => []OpenHasCause
<1>1. CircuitInit => Founded
  <2> SUFFICES ASSUME CircuitInit PROVE Founded
    OBVIOUS
  <2>1. circuit.failures = 0 /\ circuit.degraded = NotSet
    BY DEF CircuitInit, Closed
  <2>2. \A c \in Callers : call[c].pc # "counting"
    BY DEF CircuitInit, NoCall
  <2> QED
    BY <2>1, <2>2 DEF Founded
<1>2. CircuitTypeOK /\ Founded => OpenHasCause
  <2> SUFFICES ASSUME CircuitTypeOK, Founded, circuit.degraded # NotSet
               PROVE  \E entries \in [1 .. Threshold -> DOMAIN log] :
                        Chain(entries) /\ log[entries[Threshold]].at = circuit.degraded
    BY DEF OpenHasCause
  <2>1. DOMAIN log = 1 .. Len(log) /\ Threshold \in Nat \ {0}
    BY CircuitAssumption DEF CircuitTypeOK
  <2>2. PICK last, e : Links(log, Threshold, e) /\ e[Threshold] = last /\ log[last].at = circuit.degraded
    BY DEF Founded, Linked
  <2>3. e \in [1 .. Threshold -> DOMAIN log] /\ DOMAIN e = 1 .. Threshold
    BY <2>1, <2>2 DEF Links
  <2>4. Chain(e)
    BY <2>2, <2>3 DEF Chain, Links
  <2> QED
    BY <2>2, <2>3, <2>4
<1> QED
  BY <1>1, <1>2, CircuitTyped, CircuitTypeStep, FoundedStep, PTL DEF CircuitSpec

------------------------------------------------------------------------------
(* An open circuit blocks.                                                  *)

\* The records from the i-th to the j-th are failures, each counted when the one
\* before it was the latest record, and less than the window after it.
Unbroken(l, i, j) ==
  /\ \A k \in i .. j : l[k].what = "failure"
  /\ \A k \in i + 1 .. j : l[k].seen = k - 1 /\ l[k].at - l[k - 1].at < Window

\* The hash knows of the failures that end the log, unless it outlived its life.
Remembered ==
  Len(log) > 0 /\ log[Len(log)].what = "failure" =>
    \/ clock >= log[Len(log)].at + 2 * Cooldown
    \/ /\ circuit.last = log[Len(log)].at
       /\ circuit.expires >= log[Len(log)].at + 2 * Cooldown
       /\ \A i \in 1 .. Len(log) :
            Unbroken(log, i, Len(log)) => circuit.failures >= Len(log) - i + 1

\* So does a failure that is being recorded, as long as no record came between.
Counted ==
  \A c \in Callers : call[c].pc = "counting" =>
    /\ call[c].at <= clock /\ call[c].failures >= 1
    /\ \A i \in 1 .. Len(log) :
         /\ call[c].seen = Len(log) /\ Unbroken(log, i, Len(log))
         /\ call[c].at - log[Len(log)].at < Window
         => call[c].failures >= Len(log) - i + 2

\* The circuit is open for the cooldown after Threshold failures.
Blocked ==
  \A first, last \in 1 .. Len(log) :
    /\ last = first + Threshold - 1 /\ Unbroken(log, first, last)
    /\ \A i \in first .. Len(log) : log[i].what = "failure"
    /\ \A i \in last .. Len(log) : log[i].at >= log[last].at
    /\ clock - log[last].at < Cooldown
    => circuit.degraded # NotSet /\ circuit.degraded >= log[last].at

Vigilant == Remembered /\ Counted /\ Blocked

LEMMA LogTyped ==
  ASSUME CircuitTypeOK
  PROVE  /\ log \in Seq(Record) /\ Len(log) \in Nat /\ clock \in Nat
         /\ \A i \in 1 .. Len(log) : log[i] \in Record /\ log[i].at \in Nat
         /\ circuit.failures \in Nat /\ circuit.expires \in Nat
         /\ circuit.last \in Nat \union {NotSet} /\ circuit.degraded \in Nat \union {NotSet}
         /\ \A c \in Callers : /\ call[c] \in CallState /\ call[c].at \in Nat
                               /\ call[c].failures \in Nat /\ call[c].seen \in Nat
<1>1. log \in Seq(Record) /\ circuit \in Circuit /\ clock \in Time
  BY DEF CircuitTypeOK
<1>2. \A i \in 1 .. Len(log) : log[i] \in Record
  BY <1>1
<1>3. \A i \in 1 .. Len(log) : log[i].at \in Nat
  BY <1>2, CircuitAssumption DEF Record, Time
<1>4. ASSUME NEW c \in Callers
      PROVE  /\ call[c] \in CallState /\ call[c].at \in Nat
             /\ call[c].failures \in Nat /\ call[c].seen \in Nat
  BY CircuitAssumption DEF CircuitTypeOK, CallState, Time
<1> QED
  BY <1>1, <1>2, <1>3, <1>4, CircuitAssumption DEF Circuit, Time

\* A longer log is as unbroken in its old records.
LEMMA UnbrokenGrows ==
  ASSUME NEW l \in Seq(Record), NEW r \in Record
  PROVE  /\ \A i \in 1 .. Len(l), j \in 1 .. Len(l) :
              Unbroken(Append(l, r), i, j) => Unbroken(l, i, j)
         /\ \A i \in 1 .. Len(l) :
              Unbroken(Append(l, r), i, Len(l) + 1) =>
                /\ Unbroken(l, i, Len(l))
                /\ r.seen = Len(l) /\ r.at - l[Len(l)].at < Window
<1> DEFINE m == Append(l, r)
           n == Len(l)
<1>1. m[n + 1] = r /\ n \in Nat /\ \A i \in 1 .. n : m[i] = l[i]
  BY Appended
<1> HIDE DEF m, n
<1>2. ASSUME NEW i \in 1 .. n, NEW j \in 1 .. n, Unbroken(m, i, j) PROVE Unbroken(l, i, j)
  <2>1. \A k \in i .. j : k \in 1 .. n /\ m[k] = l[k] /\ m[k].what = "failure"
    BY <1>1, <1>2 DEF Unbroken
  <2>2. \A k \in i + 1 .. j : /\ k \in 1 .. n /\ k - 1 \in 1 .. n
                              /\ m[k].seen = k - 1 /\ m[k].at - m[k - 1].at < Window
    BY <1>1, <1>2 DEF Unbroken
  <2>3. \A k \in i + 1 .. j : l[k].seen = k - 1 /\ l[k].at - l[k - 1].at < Window
    BY <1>1, <2>2
  <2> QED
    BY <2>1, <2>3 DEF Unbroken
<1>3. ASSUME NEW i \in 1 .. n, Unbroken(m, i, n + 1)
      PROVE  Unbroken(l, i, n) /\ r.seen = n /\ r.at - l[n].at < Window
  <2>1. n + 1 \in i + 1 .. n + 1 /\ n \in 1 .. n /\ (n + 1) - 1 = n
    BY <1>1
  <2>2. m[n + 1].seen = n /\ m[n + 1].at - m[n].at < Window
    BY <1>3, <2>1 DEF Unbroken
  <2>3. Unbroken(m, i, n)
    BY <1>1, <1>3 DEF Unbroken
  <2> QED
    BY <1>1, <1>2, <2>1, <2>2, <2>3
<1> QED
  BY <1>2, <1>3 DEF m, n

LEMMA VigilantRecord ==
  ASSUME CircuitTypeOK, CircuitTypeOK', Counts, Vigilant, Window <= 2 * Cooldown,
         NEW c \in Callers, RecordFailure(c)
  PROVE  Vigilant'
<1> DEFINE r == [what |-> "failure", at |-> call[c].at, seen |-> call[c].seen]
           n == Len(log)
<1>1. /\ call[c] \in CallState /\ call[c].pc = "counting"
      /\ call[c].at \in Nat /\ call[c].failures \in Nat /\ call[c].seen \in Nat
  BY LogTyped DEF RecordFailure
<1>2. r \in Record /\ r.what = "failure" /\ r.at = call[c].at /\ r.seen = call[c].seen
  BY <1>1 DEF Record, CallState
<1>3. /\ call' = [call EXCEPT ![c] = NoCall] /\ log' = Append(log, r) /\ clock' = clock
      /\ circuit'.failures = call[c].failures /\ circuit'.last = call[c].at
      /\ circuit'.expires = clock + 2 * Cooldown
      /\ circuit'.degraded = IF call[c].failures >= Threshold THEN call[c].at ELSE circuit.degraded
  BY DEF RecordFailure, Refreshed
<1> HIDE DEF r
<1>4. /\ log' \in Seq(Record) /\ Len(log') = n + 1 /\ log'[n + 1] = r
      /\ n \in Nat /\ \A i \in 1 .. n : log'[i] = log[i] /\ log[i].at \in Nat
  BY <1>2, <1>3, Appended, LogTyped
<1>5. /\ \A i, j \in 1 .. n : Unbroken(log', i, j) => Unbroken(log, i, j)
      /\ \A i \in 1 .. n : Unbroken(log', i, n + 1) =>
           Unbroken(log, i, n) /\ r.seen = n /\ r.at - log[n].at < Window
  BY <1>2, <1>3, UnbrokenGrows, LogTyped
<1>6. call[c].at <= clock /\ call[c].failures >= 1 /\ clock \in Nat
  BY <1>1, LogTyped DEF Vigilant, Counted
<1> HIDE DEF n
<1>7. ASSUME NEW i \in 1 .. n + 1, Unbroken(log', i, n + 1)
      PROVE  call[c].failures >= (n + 1) - i + 1
  <2>1. CASE i = n + 1
    <3>1. n \in Nat
      BY <1>4
    <3>2. (n + 1) - i + 1 = 1
      BY <3>1, <2>1
    <3>3. call[c].failures \in Nat /\ call[c].failures >= 1
      BY <1>1, <1>6
    <3> QED
      BY <3>2, <3>3
  <2>2. CASE i # n + 1
    <3>1. i \in 1 .. n
      BY <1>4, <2>2
    <3>2. Unbroken(log, i, n) /\ call[c].seen = n /\ call[c].at - log[n].at < Window
      BY <1>2, <1>5, <1>7, <3>1
    <3>3. call[c].failures >= n - i + 2
      BY <1>1, <3>1, <3>2 DEF Vigilant, Counted, n
    <3> QED
      BY <1>1, <1>4, <3>1, <3>3
  <2> QED
    BY <2>1, <2>2
<1>8. Remembered'
  <2>1. circuit'.expires >= log'[Len(log')].at + 2 * Cooldown /\ circuit'.last = log'[Len(log')].at
    BY <1>1, <1>2, <1>3, <1>4, <1>6, CircuitAssumption
  <2>2. \A i \in 1 .. Len(log') :
          Unbroken(log', i, Len(log')) => circuit'.failures >= Len(log') - i + 1
    BY <1>3, <1>4, <1>7
  <2> QED
    BY <2>1, <2>2 DEF Remembered, Unbroken
<1>9. Counted'
  <2> SUFFICES ASSUME NEW d \in Callers, call'[d].pc = "counting"
               PROVE  /\ call'[d].at <= clock' /\ call'[d].failures >= 1
                      /\ call'[d].seen # Len(log')
    BY DEF Counted, Unbroken
  <2>1. call'[d] = call[d]
    BY <1>3 DEF CircuitTypeOK, NoCall
  <2>2. call[d].seen <= n /\ call[d].seen \in Nat
    BY <2>1, LogTyped DEF Counts, n
  <2> QED
    BY <1>3, <1>4, <2>1, <2>2 DEF Vigilant, Counted
<1>10. ASSUME NEW first \in 1 .. n + 1, NEW last \in 1 .. n + 1,
              last = first + Threshold - 1, Unbroken(log', first, last),
              \A i \in first .. n + 1 : log'[i].what = "failure",
              \A i \in last .. n + 1 : log'[i].at >= log'[last].at,
              clock - log'[last].at < Cooldown
       PROVE  circuit'.degraded # NotSet /\ circuit'.degraded >= log'[last].at
  <2>1. CASE last = n + 1
    <3>1. call[c].failures >= (n + 1) - first + 1
      BY <1>7, <1>10, <2>1
    <3>2. call[c].failures >= Threshold
      BY <1>1, <1>4, <2>1, <3>1, <1>10, CircuitAssumption
    <3> QED
      BY <1>1, <1>2, <1>3, <1>4, <2>1, <3>2 DEF NotSet
  <2>2. CASE last # n + 1
    <3>1. last \in 1 .. n /\ first \in 1 .. n /\ log'[last] = log[last] /\ log[last].at \in Nat
      BY <1>4, <1>10, <2>2, CircuitAssumption
    <3>2. Unbroken(log, first, last)
      BY <1>5, <1>10, <3>1
    <3>3. \A i \in first .. n : log[i].what = "failure"
      BY <1>4, <1>10, <3>1
    <3>4. \A i \in last .. n : log[i].at >= log[last].at
      BY <1>4, <1>10, <3>1
    <3>5. circuit.degraded # NotSet /\ circuit.degraded >= log[last].at
      BY <1>3, <1>4, <1>10, <3>1, <3>2, <3>3, <3>4 DEF Vigilant, Blocked, n
    <3>6. n + 1 \in last .. n + 1 /\ call[c].at >= log[last].at
      BY <1>2, <1>4, <1>10, <3>1
    <3> QED
      BY <1>1, <1>3, <3>1, <3>5, <3>6 DEF NotSet
  <2> QED
    BY <2>1, <2>2
<1>11. Blocked'
  <2>1. Len(log') = n + 1 /\ clock' = clock
    BY <1>3, <1>4
  <2> SUFFICES ASSUME NEW first \in 1 .. Len(log'), NEW last \in 1 .. Len(log'),
                      last = first + Threshold - 1, Unbroken(log', first, last),
                      \A i \in first .. Len(log') : log'[i].what = "failure",
                      \A i \in last .. Len(log') : log'[i].at >= log'[last].at,
                      clock' - log'[last].at < Cooldown
               PROVE  circuit'.degraded # NotSet /\ circuit'.degraded >= log'[last].at
    BY DEF Blocked, Unbroken
  <2> QED
    BY <1>10, <2>1
<1> QED
  BY <1>8, <1>9, <1>11 DEF Vigilant

LEMMA VigilantStep ==
  ASSUME CircuitTypeOK, CircuitTypeOK', Counts, Vigilant, [CircuitNext]_circuitVars,
         Window <= 2 * Cooldown
  PROVE  Vigilant'
<1>0. /\ log \in Seq(Record) /\ Len(log) \in Nat /\ clock \in Nat
      /\ circuit.failures \in Nat /\ circuit.expires \in Nat
      /\ circuit.last \in Nat \union {NotSet}
  BY LogTyped
<1>1. CASE UNCHANGED circuitVars
  BY <1>1 DEF circuitVars, Vigilant, Remembered, Counted, Blocked, Unbroken
<1>2. ASSUME UNCHANGED <<clock, circuit, log>>,
             \A d \in Callers : call'[d].pc = "counting" =>
               \/ call'[d] = call[d]
               \/ /\ call'[d].at = clock /\ call'[d].failures = FailuresNow /\ call'[d].seen = Len(log)
      PROVE  Vigilant'
  <2>1. Remembered' /\ Blocked'
    BY <1>2 DEF Vigilant, Remembered, Blocked, Unbroken
  <2>2. ASSUME NEW d \in Callers, call'[d].pc = "counting"
        PROVE  /\ call'[d].at <= clock /\ call'[d].failures >= 1
               /\ \A i \in 1 .. Len(log) :
                    /\ call'[d].seen = Len(log) /\ Unbroken(log, i, Len(log))
                    /\ call'[d].at - log[Len(log)].at < Window
                    => call'[d].failures >= Len(log) - i + 2
    <3>1. CASE call'[d] = call[d]
      BY <2>2, <3>1 DEF Vigilant, Counted
    <3>2. CASE /\ call'[d].at = clock /\ call'[d].failures = FailuresNow
               /\ call'[d].seen = Len(log)
      <4>1. FailuresNow \in Nat /\ FailuresNow >= 1
        BY <1>0 DEF FailuresNow
      <4>2. ASSUME NEW i \in 1 .. Len(log), Unbroken(log, i, Len(log)),
                   clock - log[Len(log)].at < Window
            PROVE  FailuresNow >= Len(log) - i + 2
        <5>1. log[Len(log)].what = "failure" /\ log[Len(log)].at \in Nat
          BY <1>0, <4>2, LogTyped DEF Unbroken
        <5>2. ~(clock >= log[Len(log)].at + 2 * Cooldown)
          BY <1>0, <4>2, <5>1, CircuitAssumption
        <5>3. circuit.last = log[Len(log)].at /\ circuit.failures >= Len(log) - i + 1
          BY <1>0, <4>2, <5>1, <5>2 DEF Vigilant, Remembered
        <5>4. FailuresNow = 1 + circuit.failures
          BY <1>0, <4>2, <5>1, <5>3, CircuitAssumption DEF FailuresNow
        <5> QED
          BY <1>0, <5>3, <5>4
      <4> QED
        BY <1>0, <3>2, <4>1, <4>2
    <3> QED
      BY <1>2, <2>2, <3>1, <3>2
  <2>3. Counted'
    BY <1>2, <2>2 DEF Counted, Unbroken
  <2> QED
    BY <2>1, <2>3 DEF Vigilant
<1>3. ASSUME NEW c \in Callers, BeforeCall(c) \/ Abandon(c) PROVE Vigilant'
  <2>1. UNCHANGED <<clock, circuit, log>>
    BY <1>3 DEF BeforeCall, Abandon
  <2>2. \A d \in Callers : call'[d].pc = "counting" => call'[d] = call[d]
    <3>1. CASE BeforeCall(c)
      <4> DEFINE x == [call[c] EXCEPT !.pc = "sending"]
      <4>1. call' = [call EXCEPT ![c] = x]
        BY <3>1 DEF BeforeCall
      <4>2. x.pc = "sending"
        BY DEF CircuitTypeOK, CallState
      <4> HIDE DEF x
      <4> QED
        BY <4>1, <4>2 DEF CircuitTypeOK
    <3>2. CASE Abandon(c)
      BY <3>2 DEF Abandon, CircuitTypeOK, NoCall
    <3> QED
      BY <1>3, <3>1, <3>2
  <2> QED
    BY <1>2, <2>1, <2>2
<1>4. ASSUME NEW c \in Callers, CountFailure(c) PROVE Vigilant'
  <2> DEFINE x == [call[c] EXCEPT !.pc = "counting", !.failures = FailuresNow, !.at = clock, !.seen = Len(log)]
  <2>1. call' = [call EXCEPT ![c] = x] /\ UNCHANGED <<clock, circuit, log>>
    BY <1>4 DEF CountFailure
  <2>2. x.failures = FailuresNow /\ x.at = clock /\ x.seen = Len(log)
    BY DEF CircuitTypeOK, CallState
  <2> HIDE DEF x
  <2>3. \A d \in Callers : call'[d] = IF d = c THEN x ELSE call[d]
    BY <2>1 DEF CircuitTypeOK
  <2> QED
    BY <1>2, <2>1, <2>2, <2>3
<1>5. ASSUME NEW c \in Callers, RecordFailure(c) PROVE Vigilant'
  BY <1>5, VigilantRecord
<1>6. ASSUME NEW r \in Record, r.what # "failure", log' = Append(log, r), clock' = clock,
             \A d \in Callers : call'[d] \in {call[d], NoCall}
      PROVE  Vigilant'
  <2>1. Len(log') = Len(log) + 1 /\ log'[Len(log')] = r
    BY <1>0, <1>6, Appended
  <2>2. Remembered' /\ Blocked'
    <3>1. Len(log') \in Nat /\ log'[Len(log')].what # "failure"
      BY <1>0, <1>6, <2>1
    <3>2. \A first \in 1 .. Len(log') : Len(log') \in first .. Len(log')
      BY <3>1
    <3> QED
      BY <3>1, <3>2 DEF Remembered, Blocked, Unbroken
  <2>3. Counted'
    <3> SUFFICES ASSUME NEW d \in Callers, call'[d].pc = "counting"
                 PROVE  /\ call'[d].at <= clock' /\ call'[d].failures >= 1
                        /\ call'[d].seen # Len(log')
      BY DEF Counted, Unbroken
    <3>1. call'[d] = call[d]
      BY <1>6 DEF NoCall
    <3>2. call[d].seen <= Len(log) /\ call[d].seen \in Nat
      BY <3>1, LogTyped DEF Counts
    <3> QED
      BY <1>0, <1>6, <2>1, <3>1, <3>2 DEF Vigilant, Counted
  <2> QED
    BY <2>2, <2>3 DEF Vigilant
<1>7. ASSUME NEW c \in Callers, RecordSuccess(c) PROVE Vigilant'
  <2> DEFINE r == [what |-> "success", at |-> clock, seen |-> Len(log)]
  <2>1. log' = Append(log, r) /\ call' = [call EXCEPT ![c] = NoCall] /\ clock' = clock
        /\ Len(log) < MaxRecords
    BY <1>7 DEF RecordSuccess
  <2>2. r \in Record /\ r.what # "failure"
    BY <1>0, <2>1 DEF Record, CircuitTypeOK
  <2>3. \A d \in Callers : call'[d] \in {call[d], NoCall}
    BY <2>1 DEF CircuitTypeOK
  <2> HIDE DEF r
  <2> QED
    BY <1>6, <2>1, <2>2, <2>3
<1>8. CASE Reset
  <2> DEFINE r == [what |-> "reset", at |-> clock, seen |-> Len(log)]
  <2>1. log' = Append(log, r) /\ call' = call /\ clock' = clock /\ Len(log) < MaxRecords
    BY <1>8 DEF Reset
  <2>2. r \in Record /\ r.what # "failure"
    BY <1>0, <2>1 DEF Record, CircuitTypeOK
  <2> HIDE DEF r
  <2> QED
    BY <1>6, <2>1, <2>2
<1>9. CASE PassTime
  <2>1. /\ UNCHANGED <<call, log>> /\ clock' = clock + 1
        /\ circuit' = IF circuit.expires <= clock + 1 THEN Closed ELSE circuit
    BY <1>9 DEF PassTime
  <2>2. Counted'
    <3> SUFFICES ASSUME NEW d \in Callers, call[d].pc = "counting" PROVE call[d].at <= clock + 1
      BY <2>1 DEF Vigilant, Counted, Unbroken
    <3> QED
      BY <1>0, LogTyped DEF Vigilant, Counted
  <2>3. Remembered'
    <3> SUFFICES ASSUME Len(log) > 0, log[Len(log)].what = "failure"
                 PROVE  \/ clock + 1 >= log[Len(log)].at + 2 * Cooldown
                        \/ /\ circuit'.last = log[Len(log)].at
                           /\ circuit'.expires >= log[Len(log)].at + 2 * Cooldown
                           /\ \A i \in 1 .. Len(log) :
                                Unbroken(log, i, Len(log)) => circuit'.failures >= Len(log) - i + 1
      BY <2>1 DEF Remembered, Unbroken
    <3>1. log[Len(log)].at \in Nat
      BY <1>0, LogTyped
    <3>2. CASE clock >= log[Len(log)].at + 2 * Cooldown
      BY <1>0, <3>1, <3>2, CircuitAssumption
    <3>3. CASE /\ circuit.expires >= log[Len(log)].at + 2 * Cooldown
               /\ circuit.expires <= clock + 1
      BY <1>0, <3>1, <3>3, CircuitAssumption
    <3>4. CASE /\ ~(clock >= log[Len(log)].at + 2 * Cooldown)
               /\ ~(circuit.expires <= clock + 1)
      BY <2>1, <3>4 DEF Vigilant, Remembered
    <3> QED
      BY <3>2, <3>3, <3>4 DEF Vigilant, Remembered
  <2>4. Blocked'
    <3> SUFFICES ASSUME NEW first \in 1 .. Len(log), NEW last \in 1 .. Len(log),
                        last = first + Threshold - 1, Unbroken(log, first, last),
                        \A i \in first .. Len(log) : log[i].what = "failure",
                        \A i \in last .. Len(log) : log[i].at >= log[last].at,
                        (clock + 1) - log[last].at < Cooldown
                 PROVE  circuit'.degraded # NotSet /\ circuit'.degraded >= log[last].at
      BY <2>1 DEF Blocked, Unbroken
    <3>0. clock \in Nat /\ circuit.expires \in Nat /\ Cooldown \in Nat \ {0}
      BY <1>0, CircuitAssumption
    <3>1. /\ log[Len(log)].at \in Nat /\ log[last].at \in Nat /\ log[Len(log)].what = "failure"
          /\ log[Len(log)].at >= log[last].at /\ Len(log) > 0
      BY <1>0, LogTyped
    <3>2. clock - log[last].at < Cooldown
      BY <3>0, <3>1
    <3>3. circuit.degraded # NotSet /\ circuit.degraded >= log[last].at
      BY <3>2 DEF Vigilant, Blocked
    <3>4. ~(clock >= log[Len(log)].at + 2 * Cooldown)
      BY <3>0, <3>1, <3>2
    <3>5. circuit.expires >= log[Len(log)].at + 2 * Cooldown
      BY <3>1, <3>4 DEF Vigilant, Remembered
    <3>6. ~(circuit.expires <= clock + 1)
      BY <3>0, <3>1, <3>5
    <3> QED
      BY <2>1, <3>3, <3>6
  <2> QED
    BY <2>2, <2>3, <2>4 DEF Vigilant
<1> QED
  BY <1>1, <1>3, <1>4, <1>5, <1>7, <1>8, <1>9 DEF CircuitNext

\* After Threshold failures no call begins until the cooldown is over.
THEOREM OpenCircuitBlocks == CircuitSpec => OpenBlocks
<1> DEFINE Watch == Window <= 2 * Cooldown => Vigilant
           Sound == Window <= 2 * Cooldown =>
             \A c \in Callers : Begins(c) =>
               \A first \in DOMAIN log :
                 LET last == first + Threshold - 1 IN
                 /\ last \in DOMAIN log /\ FailingSince(first)
                 /\ \A i \in first + 1 .. last : log[i].seen = i - 1 /\ log[i].at - log[i - 1].at < Window
                 /\ \A i \in last .. Len(log) : log[i].at >= log[last].at
                 => clock - log[last].at >= Cooldown
<1>1. CircuitInit => Watch
  BY DEF CircuitInit, Vigilant, Remembered, Counted, Blocked, NoCall
<1>2. CircuitTypeOK /\ CircuitTypeOK' /\ Counts /\ Watch /\ [CircuitNext]_circuitVars => Watch'
  BY VigilantStep
<1>3. CircuitTypeOK /\ Watch /\ [CircuitNext]_circuitVars => [Sound]_circuitVars
  <2> SUFFICES ASSUME CircuitTypeOK, Vigilant, CircuitNext, Window <= 2 * Cooldown,
                      NEW c \in Callers, Begins(c), NEW first \in DOMAIN log, NEW last,
                      last = first + Threshold - 1, last \in DOMAIN log, FailingSince(first),
                      \A i \in first + 1 .. last : log[i].seen = i - 1 /\ log[i].at - log[i - 1].at < Window,
                      \A i \in last .. Len(log) : log[i].at >= log[last].at
               PROVE  clock - log[last].at >= Cooldown
    OBVIOUS
  <2>1. /\ first \in 1 .. Len(log) /\ last \in 1 .. Len(log) /\ Len(log) \in Nat
        /\ clock \in Nat /\ log[last].at \in Nat /\ circuit.degraded \in Nat \union {NotSet}
    <3>1. DOMAIN log = 1 .. Len(log)
      BY LogTyped
    <3> QED
      BY <3>1, LogTyped
  <2>2. \A i \in first .. Len(log) : log[i].what = "failure"
    BY DEF FailingSince
  <2>3. Unbroken(log, first, last)
    BY <2>1, <2>2 DEF Unbroken
  <2>4. clock - log[last].at < Cooldown => circuit.degraded # NotSet /\ circuit.degraded >= log[last].at
    BY <2>1, <2>2, <2>3 DEF Vigilant, Blocked
  <2>5. circuit.degraded # NotSet => clock - circuit.degraded >= Cooldown
    <3>1. PICK d \in Callers : BeforeCall(d) \/ Abandon(d) \/ CountFailure(d)
                               \/ RecordSuccess(d) \/ RecordFailure(d)
      BY DEF CircuitNext, Begins, Reset, PassTime
    <3>2. BeforeCall(d)
      BY <3>1 DEF Begins, Abandon, CountFailure, RecordSuccess, RecordFailure, CircuitTypeOK, NoCall, CallState
    <3> QED
      BY <3>2 DEF BeforeCall, CooledDown
  <2> QED
    BY <2>1, <2>4, <2>5, CircuitAssumption
<1> QED
  BY <1>1, <1>2, <1>3, CircuitTyped, CircuitTypeStep, PTL DEF CircuitSpec, OpenBlocks

------------------------------------------------------------------------------
(* The composition.                                                         *)

\* Whichever of them runs, a behaviour of MCTurn is one of each of its components.
LEMMA TurnIsEach ==
  TurnSpec => Spec /\ BillingSpec /\ TempSpec /\ CircuitSpec /\ ConversationSpec
<1>1. TurnInit => Init /\ BillingInit /\ TempInit /\ CircuitInit /\ ConversationInit
  BY Zenon DEF TurnInit, ConversationStart
<1>2. [TurnNext]_turnVars => [Next]_vars
  BY Zenon DEF TurnNext, turnVars
<1>3. [TurnNext]_turnVars => [BillingNext]_billingVars
  BY Zenon DEF TurnNext, turnVars, BillingStep
<1>4. [TurnNext]_turnVars => [TempNext]_tempVars
  BY Zenon DEF TurnNext, turnVars, TempStep
<1>5. [TurnNext]_turnVars => [CircuitNext]_circuitVars
  BY Zenon DEF TurnNext, turnVars
<1>6. [TurnNext]_turnVars => [ConversationNext]_conversationVars
  BY Zenon DEF TurnNext, turnVars, ConversationStep
<1> QED
  BY <1>1, <1>2, <1>3, <1>4, <1>5, <1>6, PTL
     DEF TurnSpec, Spec, BillingSpec, TempSpec, CircuitSpec, ConversationSpec

\* Everything that the turns of a session share has its type, in the composition
\* that the run "session" checks.
THEOREM TurnTypeCorrect == TurnSpec => []TurnTypeOK
  BY TurnIsEach, StreamsTypeCorrect, BillingTypeCorrect, TempTypeCorrect, CircuitTypeCorrect,
     ConversationTypeCorrect, PTL DEF TurnTypeOK

\* Every other safety property that the run "session" checks, of the behaviours that
\* it checks them of, whatever the bounds.
THEOREM TurnsAreSafe ==
  TurnSpec => /\ [](LoneRunFound /\ CancelDiesWithRun)
              /\ [](UsageBilled /\ BilledOnce) /\ OverdraftHasCompany
              /\ [](MessagesKept /\ MarkedIsSummarized /\ DeletedStayDeleted)
              /\ []OpenHasCause /\ OpenBlocks
              /\ [](AnswersHaveQuestions /\ FilesAreThere) /\ KeepsTranscript
  BY TurnIsEach, LoneFound, CancelDies, TurnsAreBilled, NothingBilledTwice, OverdraftNeedsCompany,
     AppendedStays, MarkedIsIn, DeletedStays, OpenCircuitHasCause, OpenCircuitBlocks,
     AnswersKeepQuestions, ListedFilesAreThere, IsTranscript, PTL
==============================================================================
