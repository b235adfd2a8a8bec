---------------------------- MODULE Events_proofs ----------------------------
(***************************************************************************)
(* An event is applied once, and acknowledged after that: the gateway      *)
(* implements EventLedger, for any deliveries, requests, events and        *)
(* faults, as long as the commit precedes the response.                    *)
(***************************************************************************)
EXTENDS PayGateway_proofs

(***************************************************************************)
(* Why it is once: the committed rows are all processed ones, at most one  *)
(* delivery of an event is past its INSERT, and only while there is no     *)
(* committed row of it.                                                    *)
(***************************************************************************)
AllProcessed == \A x \in webhook_events : x.processed

OneInserting ==
  /\ \A w \in Workers : Inserting(w) => ~Stored(hook[w].event)
  /\ \A v, w \in Workers :
       Inserting(v) /\ Inserting(w) /\ hook[v].event = hook[w].event => v = w

HandledIsProcessed == \A w \in Workers : hook[w].pc = "handled" => Processed(hook[w].event)

AckedInOrder == CommitBeforeResponse => AckedIsProcessed

OnceInv == /\ EventAppliedOnce
           /\ AllProcessed
           /\ OneInserting
           /\ HandledIsProcessed
           /\ AckedInOrder

LEMMA OnceInit == Init => OnceInv
BY DEF Init, DbInit, StripeInit, WebhookInit, Waiting, OnceInv, EventAppliedOnce, AllProcessed,
       OneInserting, Inserting, HandledIsProcessed, AckedInOrder, AckedIsProcessed, EmptyBag,
       SetToBag, BagToSet

\* What requests, customers and Stripe do not touch.
LEMMA DeliveriesAlone ==
  ASSUME OnceInv, UNCHANGED <<webhook_events, acked, hook>>,
         \/ UNCHANGED audit_log
         \/ \E action, k : \E by \in Requests : LogAction(action, k, by)
  PROVE  OnceInv'
<1>1. EventAppliedOnce'
  <2>1. CASE UNCHANGED audit_log
    BY <2>1 DEF OnceInv, EventAppliedOnce, Processed, BagToSet
  <2>2. CASE \E action, k : \E by \in Requests : LogAction(action, k, by)
    <3>1. PICK action, k : \E by \in Requests : LogAction(action, k, by)
      BY <2>2
    <3>2. PICK by \in Requests : LogAction(action, k, by)
      BY <3>1
    <3> QED
      BY <3>2 DEF OnceInv, EventAppliedOnce, Processed, LogAction, SetToBag, BagToSet, (+)
  <2> QED
    BY <2>1, <2>2
<1>2. AllProcessed' /\ OneInserting' /\ HandledIsProcessed' /\ AckedInOrder'
  BY DEF OnceInv, AllProcessed, OneInserting, Inserting, HandledIsProcessed, AckedInOrder,
         AckedIsProcessed, Stored, Processed
<1> QED
  BY <1>1, <1>2 DEF OnceInv
InsertingStates == {"stored", "found", "loaded", "answered"}

\* A delivery moves without a commit.  It gets past its INSERT only if nobody
\* else is, and there is no row yet.
LEMMA DeliveryMovesOnce ==
  ASSUME Inv, OnceInv, NEW w \in Workers, NEW state, hook' = [hook EXCEPT ![w] = state],
         UNCHANGED <<webhook_events, audit_log>>,
         \/ UNCHANGED acked
         \/ /\ acked' = acked \cup {hook[w].event}
            /\ CommitBeforeResponse => Processed(hook[w].event),
         state.pc \in InsertingStates =>
           /\ state.event = hook[w].event
           /\ \/ Inserting(w)
              \/ /\ ~Stored(hook[w].event)
                 /\ ~ \E o \in Workers : Inserting(o) /\ hook[o].event = hook[w].event,
         state.pc = "handled" => Processed(state.event)
  PROVE  OnceInv'
<1>1. hook'[w] = state /\ \A o \in Workers \ {w} : hook'[o] = hook[o]
  BY DEF Inv, TypeOK
<1>2. EventAppliedOnce' /\ AllProcessed'
  BY DEF OnceInv, EventAppliedOnce, AllProcessed, Processed, BagToSet
<1>3. HandledIsProcessed'
  <2>1. \A d : Processed(d)' = Processed(d)
    BY DEF Processed
  <2> QED
    BY <1>1, <2>1 DEF OnceInv, HandledIsProcessed
<1>4. AckedInOrder'
  BY DEF OnceInv, AckedInOrder, AckedIsProcessed, Processed
<1>5. OneInserting'
  BY <1>1 DEF OnceInv, OneInserting, Inserting, InsertingStates, Stored
<1> QED
  BY <1>2, <1>3, <1>4, <1>5 DEF OnceInv

LEMMA ReleaseOnce ==
  ASSUME Inv, OnceInv, NEW w \in Workers, Release(w), UNCHANGED <<webhook_events, audit_log>>,
         \/ UNCHANGED acked
         \/ /\ acked' = acked \cup {hook[w].event}
            /\ CommitBeforeResponse => Processed(hook[w].event)
  PROVE  OnceInv'
<1>1. Waiting.pc = "idle"
  BY DEF Waiting
<1> QED
  BY <1>1, DeliveryMovesOnce DEF Release, InsertingStates

LEMMA GotoOnce ==
  ASSUME Inv, OnceInv, NEW w \in Workers, NEW pc \in {"stored", "loaded", "answered", "raised"},
         Goto(w, pc), UNCHANGED <<webhook_events, audit_log>>,
         \/ UNCHANGED acked
         \/ ~CommitBeforeResponse /\ acked' = acked \cup {hook[w].event},
         \/ Inserting(w)
         \/ /\ ~Stored(hook[w].event)
            /\ ~ \E o \in Workers : Inserting(o) /\ hook[o].event = hook[w].event
  PROVE  OnceInv'
<1> DEFINE state == [hook[w] EXCEPT !.pc = pc]
<1>1. hook[w] \in DeliveryStates
  BY DEF Inv, TypeOK
<1>2. state.pc = pc /\ state.event = hook[w].event
  BY <1>1 DEF DeliveryStates
<1>3. hook' = [hook EXCEPT ![w] = state]
  BY <1>1 DEF Goto
<1> HIDE DEF state
<1> QED
  BY <1>2, <1>3, DeliveryMovesOnce

LEMMA DeliverOnce ==
  ASSUME Inv, OnceInv, NEW w \in Workers, NEW e, Deliver(w, e)
  PROVE  OnceInv'
<1> DEFINE pc == IF Processed(e) THEN "handled" ELSE IF Stored(e) THEN "stored" ELSE "new"
           state == [Waiting EXCEPT !.event = e, !.pc = pc]
<1>1. /\ UNCHANGED <<webhook_events, audit_log, acked>>
      /\ hook' = [hook EXCEPT ![w] = state]
  BY DEF Deliver, dbVars, stripeVars
<1>2. Stored(e) => Processed(e)
  <2> SUFFICES ASSUME NEW x \in webhook_events, x.event = e
               PROVE  Processed(e)
    BY DEF Stored
  <2>1. x \in [event : 1 .. MaxEvents, processed : BOOLEAN] /\ x.processed
    BY DEF Inv, TypeOK, DatabaseTypeOK, OnceInv, AllProcessed
  <2>2. x = [event |-> e, processed |-> TRUE]
    BY <2>1
  <2> QED
    BY <2>2 DEF Processed
<1>3. pc = IF Processed(e) THEN "handled" ELSE "new"
  BY <1>2
<1> HIDE DEF pc
<1>4. state.event = e /\ state.pc = pc
  BY DEF Waiting
<1> HIDE DEF state
<1> QED
  BY <1>1, <1>3, <1>4, DeliveryMovesOnce DEF InsertingStates

\* What a commit adds: the event's row, and at most one audit row.
Commit(w) ==
  /\ Inserting(w)
  /\ webhook_events' = webhook_events \cup {[event |-> hook[w].event, processed |-> TRUE]}
  /\ \/ UNCHANGED audit_log
     \/ \E action \in AuditActions :
          hook[w].pay \in IdemKeys /\ LogAction(action, hook[w].pay, hook[w].event)
  /\ IF CommitBeforeResponse THEN Goto(w, "handled") ELSE Release(w)
  /\ UNCHANGED stripeVars

LEMMA HandleEventCommits ==
  ASSUME Inv, NEW w \in Workers, HandleEvent(w)
  PROVE  Commit(w)
<1>1. ReadyToCommit(w) /\ MarkProcessed(w)
  BY DEF HandleEvent, HandleNothing, HandlePaymentSucceeded, HandlePaymentFailed,
         HandlePaymentCanceled, HandlePaymentProcessing, HandlePaymentRequiresAction,
         HandleChargeRefunded, HandleDisputeCreated, Handling
<1>2. hook[w].pay \in IdemKeys \/ hook[w].pay = None
  BY DEF Inv, TypeOK, DeliveryStates
<1>3. \/ UNCHANGED audit_log
      \/ \E action \in AuditActions :
           hook[w].pay # None /\ LogAction(action, hook[w].pay, hook[w].event)
  BY DEF HandleEvent, HandleNothing, HandlePaymentSucceeded, HandlePaymentFailed,
         HandlePaymentCanceled, HandlePaymentProcessing, HandlePaymentRequiresAction,
         HandleChargeRefunded, HandleDisputeCreated, Handling, LogApplied, AuditActions
<1> QED
  BY <1>1, <1>2, <1>3 DEF ReadyToCommit, MarkProcessed, Inserting, Commit

LEMMA CommitOnce ==
  ASSUME Inv, OnceInv, NEW w \in Workers, Commit(w)
  PROVE  OnceInv'
<1>9. PICK e : e = hook[w].event
  OBVIOUS
<1> USE <1>9
<1>1. hook[w] \in DeliveryStates /\ Processed(e)' /\ \A d : Processed(d) => Processed(d)'
  <2>1. hook[w] \in DeliveryStates
    BY DEF Inv, TypeOK
  <2>2. webhook_events' = webhook_events \cup {[event |-> e, processed |-> TRUE]}
    BY DEF Commit
  <2>3. Processed(e)'
    BY <2>2 DEF Processed
  <2>4. \A d : Processed(d) => Processed(d)'
    BY <2>2 DEF Processed
  <2> QED
    BY <2>1, <2>3, <2>4
<1>0. ~Processed(e)
  <2>1. ~Stored(e)
    BY DEF Commit, OnceInv, OneInserting
  <2>2. ASSUME Processed(e)
        PROVE  Stored(e)
    <3> DEFINE x == [event |-> e, processed |-> TRUE]
    <3>1. x \in webhook_events /\ x.event = e
      BY <2>2 DEF Processed
    <3> HIDE DEF x
    <3> QED
      BY <3>1 DEF Stored
  <2> QED
    BY <2>1, <2>2
<1>2. AllProcessed'
  BY DEF OnceInv, AllProcessed, Commit
<1>3. EventAppliedOnce'
  <2>1. CASE UNCHANGED audit_log
    BY <1>1, <2>1 DEF OnceInv, EventAppliedOnce, BagToSet
  <2>2. ASSUME NEW action, LogAction(action, hook[w].pay, e)
        PROVE  EventAppliedOnce'
    <3> DEFINE new == [action |-> action, pay |-> hook[w].pay, by |-> e]
    <3>1. audit_log' = audit_log (+) SetToBag({new})
      BY <2>2 DEF LogAction
    <3>2. e \notin Requests => new \notin DOMAIN audit_log
      BY <1>0 DEF OnceInv, EventAppliedOnce, BagToSet
    <3>3. /\ DOMAIN audit_log' = DOMAIN audit_log \cup {new}
          /\ \A x \in DOMAIN audit_log \ {new} : audit_log'[x] = audit_log[x] + 0
          /\ new \notin DOMAIN audit_log => audit_log'[new] = 0 + 1
      BY <3>1 DEF SetToBag, (+)
    <3>4. new.by = e
      OBVIOUS
    <3> HIDE DEF new
    <3>5. ASSUME NEW x \in DOMAIN audit_log', x.by \notin Requests
          PROVE  audit_log'[x] = 1 /\ Processed(x.by)'
      <4>1. CASE x = new
        <5>1. Processed(x.by)'
          BY <1>1, <3>4, <4>1 DEF Processed
        <5> QED
          BY <3>2, <3>3, <3>4, <3>5, <4>1, <5>1
      <4>2. CASE x # new
        <5>1. x \in DOMAIN audit_log /\ audit_log[x] = 1 /\ Processed(x.by)
          BY <3>3, <3>5, <4>2 DEF OnceInv, EventAppliedOnce, BagToSet
        <5> QED
          BY <1>1, <3>3, <4>2, <5>1
      <4> QED
        BY <4>1, <4>2
    <3> QED
      BY <3>5 DEF EventAppliedOnce, BagToSet
  <2> QED
    BY <2>1, <2>2 DEF Commit
<1>4. AckedInOrder'
  BY <1>1 DEF OnceInv, AckedInOrder, AckedIsProcessed, Commit, stripeVars
<1>5. PICK state : /\ hook' = [hook EXCEPT ![w] = state]
                   /\ state.pc \in {"idle", "handled"}
                   /\ state.pc = "handled" => state.event = e
  <2> DEFINE handled == [hook[w] EXCEPT !.pc = "handled"]
  <2>1. Waiting.pc = "idle" /\ handled.pc = "handled" /\ handled.event = e
    BY <1>1 DEF DeliveryStates, Waiting
  <2>2. hook' = [hook EXCEPT ![w] = handled] \/ hook' = [hook EXCEPT ![w] = Waiting]
    BY DEF Commit, Goto, Release
  <2> HIDE DEF handled
  <2> QED
    BY <2>1, <2>2
<1>6. hook'[w] = state /\ \A o \in Workers \ {w} : hook'[o] = hook[o]
  BY <1>5 DEF Inv, TypeOK
<1>7. HandledIsProcessed'
  BY <1>1, <1>5, <1>6 DEF OnceInv, HandledIsProcessed
<1>8. OneInserting'
  <2>1. \A o \in Workers : Inserting(o)' => o # w /\ Inserting(o) /\ hook'[o] = hook[o]
    BY <1>5, <1>6 DEF Inserting
  <2>2. \A o \in Workers \ {w} : Inserting(o) => hook[o].event # e
    BY DEF OnceInv, OneInserting, Commit
  <2> QED
    BY <2>1, <2>2 DEF OnceInv, OneInserting, Stored, Commit
<1> QED
  BY <1>2, <1>3, <1>4, <1>7, <1>8 DEF OnceInv

LEMMA DeliveryStepOnce ==
  ASSUME Inv, OnceInv, WebhookServiceNext
  PROVE  OnceInv'
<1>1. ASSUME NEW w \in Workers, StoreEvent(w)
      PROVE  OnceInv'
  <2>1. UNCHANGED <<webhook_events, audit_log, acked>>
    BY <1>1 DEF StoreEvent, dbVars, stripeVars
  <2> QED
    BY <1>1, <2>1, ReleaseOnce, GotoOnce DEF StoreEvent
<1>2. ASSUME NEW w \in Workers, FindPayment(w) \/ LoadRefunds(w)
      PROVE  OnceInv'
  <2>1. Inserting(w) /\ UNCHANGED <<webhook_events, audit_log, acked>>
    BY <1>2 DEF FindPayment, LoadRefunds, Inserting, dbVars, stripeVars
  <2>2. hook[w] \in DeliveryStates
    BY DEF Inv, TypeOK
  <2>3. PICK state : /\ hook' = [hook EXCEPT ![w] = state] /\ state.event = hook[w].event
                     /\ state.pc \in {"found", "loaded"}
    <3>1. CASE Goto(w, "loaded")
      <4>1. [hook[w] EXCEPT !.pc = "loaded"].event = hook[w].event
            /\ [hook[w] EXCEPT !.pc = "loaded"].pc = "loaded"
        BY <2>2 DEF DeliveryStates
      <4> QED
        BY <3>1, <4>1 DEF Goto
    <3>2. ASSUME NEW k, NEW pc \in {"found", "loaded"},
                 hook' = [hook EXCEPT ![w].pc = pc, ![w].pay = k, ![w].row = payments[k]]
          PROVE  \E state : /\ hook' = [hook EXCEPT ![w] = state]
                            /\ state.event = hook[w].event
                            /\ state.pc \in {"found", "loaded"}
      <4> DEFINE state == [hook[w] EXCEPT !.pc = pc, !.pay = k, !.row = payments[k]]
      <4>1. state.event = hook[w].event /\ state.pc = pc
        BY <2>2 DEF DeliveryStates
      <4>2. hook' = [hook EXCEPT ![w] = state]
        BY <2>2, <3>2 DEF Inv, TypeOK
      <4> HIDE DEF state
      <4> QED
        BY <4>1, <4>2
    <3>3. ASSUME NEW total, NEW refund,
                 hook' = [hook EXCEPT ![w].pc = "loaded", ![w].total = total,
                                      ![w].refund = refund]
          PROVE  \E state : /\ hook' = [hook EXCEPT ![w] = state]
                            /\ state.event = hook[w].event
                            /\ state.pc \in {"found", "loaded"}
      <4> DEFINE state == [hook[w] EXCEPT !.pc = "loaded", !.total = total,
                                          !.refund = refund]
      <4>1. state.event = hook[w].event /\ state.pc = "loaded"
        BY <2>2 DEF DeliveryStates
      <4>2. hook' = [hook EXCEPT ![w] = state]
        BY <2>2, <3>3 DEF Inv, TypeOK
      <4> HIDE DEF state
      <4> QED
        BY <4>1, <4>2
    <3> QED
      BY <1>2, <3>1, <3>2, <3>3 DEF FindPayment, LoadRefunds
  <2> QED
    BY <2>1, <2>3, DeliveryMovesOnce
<1>3. ASSUME NEW w \in Workers, AnswerFirst(w) \/ HandlerRaises(w)
      PROVE  OnceInv'
  <2>1. Inserting(w) /\ UNCHANGED <<webhook_events, audit_log>>
    BY <1>3 DEF AnswerFirst, HandlerRaises, Inserting, dbVars
  <2> QED
    BY <1>3, <2>1, GotoOnce DEF AnswerFirst, HandlerRaises, stripeVars
<1>4. ASSUME NEW w \in Workers, AnswerOk(w) \/ AnswerError(w) \/ Drop(w)
      PROVE  OnceInv'
  <2>1. /\ Release(w) /\ UNCHANGED <<webhook_events, audit_log>>
        /\ \/ UNCHANGED acked
           \/ acked' = acked \cup {hook[w].event} /\ hook[w].pc = "handled"
    BY <1>4 DEF AnswerOk, AnswerError, Drop, dbVars, stripeVars
  <2> QED
    BY <2>1, ReleaseOnce DEF OnceInv, HandledIsProcessed
<1>5. ASSUME NEW w \in Workers, HandleEvent(w)
      PROVE  OnceInv'
  BY <1>5, HandleEventCommits, CommitOnce
<1> QED
  BY <1>1, <1>2, <1>3, <1>4, <1>5, DeliverOnce DEF WebhookServiceNext, WebhookServiceStep
(***************************************************************************)
(* Everything else leaves the events' rows alone, and the log of events    *)
(* only grows.                                                             *)
(***************************************************************************)
EventsAppended ==
  \/ UNCHANGED events
  \/ Len(events) < MaxEvents /\ \E event \in Events : events' = Append(events, event)

LEMMA EmitAppended ==
  ASSUME NEW type \in EventTypes, NEW pi \in Intents, NEW object \in Intents \cup RefundIds,
         Emit(type, pi, object)
  PROVE  EventsAppended
<1> DEFINE event == [type |-> type, pi |-> pi, object |-> object]
<1>1. event \in Events
  BY DEF Events
<1>2. UNCHANGED events \/ (Len(events) < MaxEvents /\ events' = Append(events, event))
  BY DEF Emit
<1> HIDE DEF event
<1> QED
  BY <1>1, <1>2 DEF EventsAppended

LEMMA MoveAppended ==
  ASSUME Inv, NEW pi \in Intents, NEW to, MoveIntent(pi, to)
  PROVE  EventsAppended
<1>1. to \in IntentStates
  <2>1. intents[pi].status \in IntentStates /\ to \in Successors[intents[pi].status]
    BY DEF Inv, TypeOK, StripeTypeOK, PaymentIntents, MoveIntent
  <2> QED
    BY <2>1 DEF Successors, IntentStates
<1>2. EventOf[to] \in EventTypes
  BY <1>1 DEF EventTypes
<1> QED
  BY <1>2, EmitAppended DEF MoveIntent

\* The events' side of a step that is no delivery's.
EventsGo == UNCHANGED <<webhook_events, acked>> /\ EventsAppended

LEMMA CallEvents ==
  ASSUME Inv, NEW r \in Requests,
         \/ CreatePaymentCall(r) \/ ConfirmPaymentCall(r)
         \/ CancelPaymentCall(r) \/ CreateRefundCall(r)
  PROVE  EventsGo /\ UNCHANGED audit_log
<1>1. Live(r) /\ UNCHANGED dbVars
  BY DEF CreatePaymentCall, ConfirmPaymentCall, CancelPaymentCall, CreateRefundCall, At, Live
<1>2. /\ {"payment_intent.created", "charge.refunded"} \subseteq EventTypes
      /\ req[r].op # "create" => req[r].row.external_id \in Intents
  BY <1>1, Holding DEF EventTypes
<1>3. ASSUME NEW key, Replay(key)
      PROVE  UNCHANGED <<acked, events>>
  BY <1>3 DEF Replay, stripeVars
<1>4. ASSUME NEW key, NEW amount, CreateIntent(key, amount)
      PROVE  UNCHANGED acked /\ EventsAppended
  BY <1>2, <1>3, <1>4, EmitAppended DEF CreateIntent, EventsAppended
<1>5. ASSUME NEW key, NEW pi \in Intents, ConfirmIntent(key, pi) \/ CancelIntent(key, pi)
      PROVE  UNCHANGED acked /\ EventsAppended
  BY <1>3, <1>5, MoveAppended DEF ConfirmIntent, CancelIntent, EventsAppended
<1>6. ASSUME NEW key, NEW pi \in Intents, NEW amount, RefundIntent(key, pi, amount)
      PROVE  UNCHANGED acked /\ EventsAppended
  BY <1>2, <1>3, <1>6, EmitAppended DEF RefundIntent, NewRefund, EventsAppended
<1>7. UNCHANGED acked /\ EventsAppended
  <2>1. CASE CreatePaymentCall(r)
    BY <1>4, <2>1 DEF CreatePaymentCall
  <2>2. CASE ConfirmPaymentCall(r) \/ CancelPaymentCall(r)
    BY <1>2, <1>5, <2>2 DEF ConfirmPaymentCall, CancelPaymentCall, At
  <2>3. CASE CreateRefundCall(r)
    BY <1>2, <1>6, <2>3 DEF CreateRefundCall, At
  <2> QED
    BY <2>1, <2>2, <2>3
<1> QED
  BY <1>1, <1>7 DEF EventsGo, dbVars

\* What requests log is logged as theirs.
LogsApart ==
  UNCHANGED audit_log \/ \E action, k : \E by \in Requests : LogAction(action, k, by)

LEMMA RequestEvents ==
  ASSUME Inv, PaymentServiceNext \/ RefundServiceNext \/ SessionNext
  PROVE  EventsGo /\ LogsApart
<1>1. ASSUME UNCHANGED <<dbVars, stripeVars>>
      PROVE  EventsGo /\ LogsApart
  BY <1>1 DEF LogsApart, EventsGo, EventsAppended, dbVars, stripeVars
<1>2. ASSUME NEW r \in Requests, NEW op, NEW action, Commits(r, op, action)
      PROVE  EventsGo /\ LogsApart
  <2>1. LogAction(action, req[r].pay, r) /\ UNCHANGED <<webhook_events, stripeVars>>
    BY <1>2 DEF Commits
  <2>2. EventsGo
    BY <2>1 DEF EventsGo, EventsAppended, stripeVars
  <2>3. PICK k : k = req[r].pay
    OBVIOUS
  <2>4. LogAction(action, k, r)
    BY <2>1, <2>3
  <2>5. LogsApart
    BY <2>4, Zenon DEF LogsApart
  <2> QED
    BY <2>2, <2>5
<1>3. ASSUME NEW r \in Requests,
             \/ CreatePaymentCommit(r) \/ ConfirmPaymentCommit(r)
             \/ CancelPaymentCommit(r) \/ CreateRefundCommit(r)
      PROVE  EventsGo /\ LogsApart
  BY <1>2, <1>3
     DEF CreatePaymentCommit, ConfirmPaymentCommit, CancelPaymentCommit, CreateRefundCommit
<1>4. ASSUME NEW r \in Requests,
             \/ CreatePaymentCall(r) \/ ConfirmPaymentCall(r)
             \/ CancelPaymentCall(r) \/ CreateRefundCall(r)
      PROVE  EventsGo /\ LogsApart
  BY <1>4, CallEvents DEF LogsApart
<1>5. ASSUME NEW r, NEW k, NEW key, NEW cred, NEW amount,
             \/ CreatePayment(r, k, amount, cred) \/ ConfirmPayment(r, k, key, cred)
             \/ CancelPayment(r, k, key, cred) \/ CreateRefund(r, k, key, amount, cred)
             \/ CreateRefundChecks(r) \/ InsertConflicts(r)
      PROVE  UNCHANGED <<dbVars, stripeVars>>
  BY <1>5 DEF CreatePayment, ConfirmPayment, CancelPayment, LoadPayment, CreateRefund,
              CreateRefundChecks, InsertConflicts
<1>6. ASSUME NEW r \in Requests, RespondFirst(r) \/ Rollback(r)
      PROVE  EventsGo /\ LogsApart
  BY <1>6 DEF RespondFirst, Rollback, LogsApart, EventsGo, EventsAppended, stripeVars
<1>7. CASE PaymentServiceNext
  BY <1>1, <1>3, <1>4, <1>5, <1>7 DEF PaymentServiceNext, PaymentServiceStep
<1>8. CASE RefundServiceNext
  BY <1>1, <1>3, <1>4, <1>5, <1>8 DEF RefundServiceNext, RefundServiceStep
<1>9. CASE SessionNext
  BY <1>1, <1>5, <1>6, <1>9 DEF SessionNext
<1> QED
  BY <1>7, <1>8, <1>9

LEMMA OwnStepEvents ==
  ASSUME Inv, CustomerNext \/ StripeNext, UNCHANGED dbVars
  PROVE  EventsGo /\ UNCHANGED audit_log
<1>1. /\ {"charge.refund.updated", "charge.dispute.created"} \subseteq EventTypes
      /\ \A x \in RefundIds : stripe_refunds[x] # None => stripe_refunds[x].pi \in Intents
  BY DEF EventTypes, Inv, TypeOK, StripeTypeOK, Refunds
<1>2. UNCHANGED acked /\ EventsAppended
  BY <1>1, MoveAppended, EmitAppended
     DEF CustomerNext, StripeNext, CustomerPays, BankSettles, OperatorCancels, RefundSettles,
         DisputeOpens
<1> QED
  BY <1>2 DEF EventsGo, dbVars

LEMMA OnceNext == Inv /\ OnceInv /\ [Next]_vars => OnceInv'
<1> SUFFICES ASSUME Inv, OnceInv, [Next]_vars
             PROVE  OnceInv'
  OBVIOUS
<1>1. CASE WebhookServiceNext
  BY <1>1, DeliveryStepOnce
<1>2. CASE (PaymentServiceNext \/ RefundServiceNext \/ SessionNext) /\ UNCHANGED hookVars
  BY <1>2, RequestEvents, DeliveriesAlone DEF EventsGo, LogsApart, hookVars
<1>3. CASE (CustomerNext \/ StripeNext) /\ UNCHANGED <<dbVars, req, hookVars>>
  BY <1>3, OwnStepEvents, DeliveriesAlone DEF EventsGo, hookVars
<1>4. CASE UNCHANGED vars
  BY <1>4, DeliveriesAlone DEF vars, dbVars, stripeVars, hookVars
<1> QED
  BY <1>1, <1>2, <1>3, <1>4 DEF Next

LEMMA OnceInductive == Spec => []OnceInv
BY OnceInit, OnceNext, Inductive, PTL DEF Spec

\* However often and concurrently an event is delivered, and wherever a delivery
\* of it fails, its handler leaves at most one audit row, and the event's with it.
THEOREM EventsAppliedOnce == Spec => []EventAppliedOnce
<1>1. OnceInv => EventAppliedOnce
  BY DEF OnceInv
<1> QED
  BY <1>1, OnceInductive, PTL

\* Stripe gives up an event only after it was processed, if the commit precedes
\* the response.
THEOREM AcksFollowCommits == ASSUME CommitBeforeResponse PROVE Spec => []AckedIsProcessed
<1>1. OnceInv => AckedIsProcessed
  BY DEF OnceInv, AckedInOrder
<1> QED
  BY <1>1, OnceInductive, PTL
-------------------------------------------------------------------------------
(***************************************************************************)
(* The steps of the ledger.                                                *)
(***************************************************************************)
LEMMA GoIsSend ==
  ASSUME Inv, EventsGo, EffectsLogged' = EffectsLogged
  PROVE  Deliveries!Next \/ UNCHANGED Deliveries!vars
<1>1. {e \in 1 .. MaxEvents : Processed(e)}' = {e \in 1 .. MaxEvents : Processed(e)}
  BY DEF Processed, EventsGo
<1>2. CASE UNCHANGED events
  BY <1>1, <1>2 DEF Deliveries!vars, EventsGo
<1>3. ASSUME Len(events) < MaxEvents, NEW event \in Events, events' = Append(events, event)
      PROVE  Deliveries!Next
  <2>1. /\ events \in Seq(Events) /\ Len(events) \in Nat
        /\ DOMAIN events' = DOMAIN events \cup {Len(events) + 1}
        /\ Len(events) + 1 \in 1 .. MaxEvents
    BY <1>3, MaxEventsIsNat DEF Inv, TypeOK, StripeTypeOK
  <2>2. Deliveries!Send(Len(events) + 1)
    BY <1>1, <2>1 DEF Deliveries!Send, EventsGo
  <2> QED
    BY <2>1, <2>2 DEF Deliveries!Next
<1> QED
  BY <1>2, <1>3 DEF EventsGo, EventsAppended

\* A request's audit row is no effect of an event.
LEMMA RequestsLogApart ==
  ASSUME OnceInv, LogsApart
  PROVE  EffectsLogged' = EffectsLogged
<1>1. CASE UNCHANGED audit_log
  BY <1>1 DEF EffectsLogged
<1>2. CASE \E action, k : \E by \in Requests : LogAction(action, k, by)
  <2>0. PICK action, k : \E by \in Requests : LogAction(action, k, by)
    BY <1>2
  <2>1. PICK by \in Requests : LogAction(action, k, by)
    BY <2>0
  <2> DEFINE new == [action |-> action, pay |-> k, by |-> by]
             logged == {x \in DOMAIN audit_log : x.by \in 1 .. MaxEvents}
  <2>2. /\ DOMAIN audit_log' = DOMAIN audit_log \cup {new}
        /\ \A x \in DOMAIN audit_log \ {new} : audit_log'[x] = audit_log[x] + 0
    BY <2>1 DEF LogAction, SetToBag, (+)
  <2>3. new.by \notin 1 .. MaxEvents
    BY RequestsAreNoEvents
  <2> HIDE DEF new
  <2>4. {x \in DOMAIN audit_log' : x.by \in 1 .. MaxEvents} = logged
    BY <2>2, <2>3
  <2>5. \A x \in logged : audit_log'[x] = audit_log[x]
    <3> SUFFICES ASSUME NEW x \in logged
                 PROVE  audit_log'[x] = audit_log[x]
      OBVIOUS
    <3>1. x # new /\ x.by \notin Requests
      BY <2>3, RequestsAreNoEvents
    <3>2. audit_log[x] = 1
      BY <3>1 DEF OnceInv, EventAppliedOnce, BagToSet
    <3> QED
      BY <2>2, <3>1, <3>2
  <2> QED
    BY <2>4, <2>5 DEF EffectsLogged
<1> QED
  BY <1>1, <1>2 DEF LogsApart

LEMMA CommitIsApply ==
  ASSUME Inv, OnceInv, NEW w \in Workers, Commit(w)
  PROVE  Deliveries!Next
<1>1. PICK e : e = hook[w].event
  OBVIOUS
<1>2. e \in DOMAIN events /\ e \in 1 .. MaxEvents
  BY <1>1, MaxEventsIsNat DEF Commit, Inserting, Inv, DeliverySound, TypeOK, StripeTypeOK
<1>3. webhook_events' = webhook_events \cup {[event |-> e, processed |-> TRUE]}
  BY <1>1 DEF Commit
<1>4. ~Processed(e)
  <2>1. ~Stored(e)
    BY <1>1 DEF Commit, OnceInv, OneInserting
  <2>2. ASSUME Processed(e)
        PROVE  Stored(e)
    <3> DEFINE x == [event |-> e, processed |-> TRUE]
    <3>1. x \in webhook_events /\ x.event = e
      BY <2>2 DEF Processed
    <3> HIDE DEF x
    <3> QED
      BY <3>1 DEF Stored
  <2> QED
    BY <2>1, <2>2
<1>5. \A d : Processed(d)' <=> Processed(d) \/ d = e
  BY <1>3 DEF Processed
<1>6. {d \in 1 .. MaxEvents : Processed(d)}' = {d \in 1 .. MaxEvents : Processed(d)} \cup {e}
  BY <1>2, <1>5
<1>7. \/ EffectsLogged' = EffectsLogged
      \/ \E effect \in EffectsOf(e) : EffectsLogged' = EffectsLogged (+) SetToBag({effect})
  <2>1. CASE UNCHANGED audit_log
    BY <2>1 DEF EffectsLogged
  <2>2. ASSUME NEW action \in AuditActions, hook[w].pay \in IdemKeys,
               LogAction(action, hook[w].pay, hook[w].event)
        PROVE  \E effect \in EffectsOf(e) :
                 EffectsLogged' = EffectsLogged (+) SetToBag({effect})
    <3>1. PICK pay \in IdemKeys : pay = hook[w].pay
      BY <2>2
    <3> DEFINE effect == [action |-> action, pay |-> pay, by |-> e]
    <3>2. effect \in EffectsOf(e) /\ effect.by = e
      BY DEF EffectsOf
    <3>3. audit_log' = audit_log (+) SetToBag({effect})
      BY <1>1, <2>2, <3>1 DEF LogAction
    <3> HIDE DEF effect
    <3>4. EffectsLogged' = EffectsLogged (+) SetToBag({effect})
      BY <1>2, <3>2, <3>3 DEF EffectsLogged, SetToBag, (+)
    <3> QED
      BY <3>2, <3>4
  <2> QED
    BY <2>1, <2>2 DEF Commit
<1>8. UNCHANGED <<events, acked>>
  BY DEF Commit, stripeVars
<1>9. Deliveries!Apply(e)
  BY <1>2, <1>4, <1>6, <1>7, <1>8
  DEF Deliveries!Apply, Deliveries!SetToBag, Deliveries!(+), SetToBag, (+)
<1> QED
  BY <1>2, <1>9 DEF Deliveries!Next

\* A delivery's steps before and after its commit leave the ledger alone, the
\* acknowledgement excepted.
LEMMA LedgerUntouched ==
  ASSUME UNCHANGED <<events, webhook_events, audit_log, acked>>
  PROVE  UNCHANGED Deliveries!vars
BY DEF Deliveries!vars, EffectsLogged, Processed

LEMMA AnswerIsAcknowledge ==
  ASSUME Inv, OnceInv, NEW w \in Workers, AnswerOk(w)
  PROVE  Deliveries!Next
<1>1. PICK e : e = hook[w].event
  OBVIOUS
<1>2. /\ Processed(e)
      /\ acked' = acked \cup {e}
      /\ UNCHANGED <<events, webhook_events, audit_log>>
  BY <1>1 DEF AnswerOk, OnceInv, HandledIsProcessed, dbVars
<1>3. e \in 1 .. MaxEvents
  <2> DEFINE x == [event |-> e, processed |-> TRUE]
  <2>1. x \in [event : 1 .. MaxEvents, processed : BOOLEAN] /\ x.event = e
    BY <1>2 DEF Processed, Inv, TypeOK, DatabaseTypeOK
  <2> HIDE DEF x
  <2> QED
    BY <2>1
<1>4. Deliveries!Acknowledge(e)
  BY <1>2, <1>3 DEF Deliveries!Acknowledge, EffectsLogged, Processed
<1> QED
  BY <1>3, <1>4 DEF Deliveries!Next

LEMMA DeliveryImplements ==
  ASSUME CommitBeforeResponse, Inv, OnceInv, WebhookServiceNext
  PROVE  Deliveries!Next \/ UNCHANGED Deliveries!vars
<1>1. ASSUME NEW w \in Workers, NEW e, Deliver(w, e)
      PROVE  UNCHANGED Deliveries!vars
  BY <1>1, LedgerUntouched DEF Deliver, dbVars, stripeVars
<1>2. ASSUME NEW w \in Workers, StoreEvent(w) \/ FindPayment(w) \/ LoadRefunds(w)
      PROVE  UNCHANGED Deliveries!vars
  BY <1>2, LedgerUntouched DEF StoreEvent, FindPayment, LoadRefunds, dbVars, stripeVars
<1>3. ASSUME NEW w \in Workers, HandlerRaises(w) \/ AnswerError(w) \/ Drop(w)
      PROVE  UNCHANGED Deliveries!vars
  BY <1>3, LedgerUntouched DEF HandlerRaises, AnswerError, Drop, dbVars, stripeVars
<1>4. ASSUME NEW w \in Workers
      PROVE  ~AnswerFirst(w)
  BY DEF AnswerFirst
<1>5. ASSUME NEW w \in Workers, HandleEvent(w)
      PROVE  Deliveries!Next
  BY <1>5, HandleEventCommits, CommitIsApply
<1> QED
  BY <1>1, <1>2, <1>3, <1>4, <1>5, AnswerIsAcknowledge
     DEF WebhookServiceNext, WebhookServiceStep

LEMMA LedgerInit == Init => Deliveries!Init
<1> SUFFICES ASSUME Init
             PROVE  Deliveries!Init
  OBVIOUS
<1>1. DOMAIN events = {} /\ acked = {}
  BY DEF Init, StripeInit
<1>2. {e \in 1 .. MaxEvents : Processed(e)} = {}
  BY DEF Init, DbInit, Processed
<1>3. EffectsLogged = Deliveries!EmptyBag
  BY DEF Init, DbInit, EffectsLogged, EmptyBag, SetToBag, Deliveries!EmptyBag,
         Deliveries!SetToBag
<1> QED
  BY <1>1, <1>2, <1>3 DEF Deliveries!Init

LEMMA LedgerStep ==
  ASSUME CommitBeforeResponse, Inv, OnceInv, [Next]_vars
  PROVE  [Deliveries!Next]_(Deliveries!vars)
<1>1. CASE WebhookServiceNext
  BY <1>1, DeliveryImplements
<1>2. CASE (PaymentServiceNext \/ RefundServiceNext \/ SessionNext) /\ UNCHANGED hookVars
  BY <1>2, RequestEvents, RequestsLogApart, GoIsSend
<1>3. CASE (CustomerNext \/ StripeNext) /\ UNCHANGED <<dbVars, req, hookVars>>
  BY <1>3, OwnStepEvents, GoIsSend DEF EffectsLogged
<1>4. CASE UNCHANGED vars
  BY <1>4, LedgerUntouched DEF vars, dbVars, stripeVars
<1> QED
  BY <1>1, <1>2, <1>3, <1>4 DEF Next

\* Overlapping, repeated, failing and crashed deliveries are, for Stripe, one
\* moment at which the event is applied, with all of its effects, and
\* acknowledgements after it, if the commit precedes the response.
THEOREM GatewayKeepsEvents == ASSUME CommitBeforeResponse PROVE Spec => ImplementsEventLedger
<1>1. Inv /\ OnceInv /\ [Next]_vars => [Deliveries!Next]_(Deliveries!vars)
  BY LedgerStep
<1> QED
  BY <1>1, LedgerInit, Inductive, OnceInductive, PTL
     DEF Spec, ImplementsEventLedger, Deliveries!Spec
===============================================================================
