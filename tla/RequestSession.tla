---------------------------- MODULE RequestSession ----------------------------
(***************************************************************************)
(* One authenticated request and its database session: the dependencies    *)
(* get_db and get_current_user around every route, and what a handler      *)
(* keeps from one await to the next.  A request is used once; a client's   *)
(* retry is another request with the same key.                             *)
(***************************************************************************)
EXTENDS Database, Stripe

CONSTANTS
  Requests,   \* bound: requests in a behaviour
  PayKeys,    \* bound: the keys payments are created with
  ApiKeys,    \* X-API-Key credentials
  Jwts,       \* Bearer credentials
  Ops         \* bound: operations clients call

ASSUME PayKeysAreKeys == PayKeys \subseteq IdemKeys
Operations == {"create", "confirm", "cancel", "refund"}

ASSUME OpsAreOps == Ops \subseteq Operations /\ None \notin Operations

VARIABLE req   \* Requests -> what the handler of the request holds

Credentials == ApiKeys \cup Jwts

(***************************************************************************)
(* pay is the payment, by its row's key; key the Idempotency-Key header;   *)
(* row the payment as loaded; ans the provider's answer.  pc: "found" the  *)
(* payment row is read, "loaded" all is read and checked, "called" the     *)
(* provider has answered, "answered" the response went out before the      *)
(* commit.                                                                 *)
(***************************************************************************)
RequestStates ==
  [pc    : {"idle", "found", "loaded", "called", "answered", "done"},
   op    : Ops \cup {None},
   pay   : PayKeys \cup {None},
   key   : IdemKeys \cup {None},
   amount: Int \cup {None},
   cred  : Credentials \cup {None},
   row   : PaymentRows \cup {None},
   ans   : Answers \cup {None},
   reply : {"none", "2xx", "4xx", "5xx"}]

\* Wrong: the provider called with a key other than the client's.
BeginOtherKey(op, k, key, amount, cred) ==
  [pc |-> "idle", op |-> op, pay |-> k, key |-> CHOOSE x \in IdemKeys : x # key,
   amount |-> amount, cred |-> cred, row |-> None, ans |-> None, reply |-> "none"]

Begin(op, k, key, amount, cred) ==
  [pc |-> "idle", op |-> op, pay |-> k, key |-> key, amount |-> amount,
   cred |-> cred, row |-> None, ans |-> None, reply |-> "none"]

Idle == Begin(None, None, None, None, None)

SessionInit == req = [r \in Requests |-> Idle]

Live(r) == req[r].pc \in {"found", "loaded", "called", "answered"}

\* Wrong: last_used_at in a transaction of its own.
AdmittedAnyway(r, cred) == req[r].pc = "idle"

\* get_current_user sets api_keys.last_used_at; the handler's first SELECT
\* flushes that UPDATE and holds the row lock until the session ends, so a
\* request waits there for every other one under the same API key.
Admitted(r, cred) ==
  /\ req[r].pc = "idle"
  /\ \A o \in Requests : Live(o) /\ req[o].cred = cred => cred \in Jwts

At(r, op, pc) == req[r].pc = pc /\ req[r].op = op

\* The response is sent and the session is gone.
Ended(state, reply) ==
  [state EXCEPT !.pc = "done", !.reply = reply, !.row = None, !.ans = None]

Finish(r, reply) == req' = [req EXCEPT ![r] = Ended(@, reply)]

\* Wrong: an error of the provider taken for an answer.
TakeAnyAnswer(r, call) ==
  req' = [req EXCEPT ![r].pc = "called", ![r].ans = Answer(saved'[req[r].key], call)]

\* What a handler does with the provider's answer: ProviderError is a 502.
TakeAnswer(r, call) ==
  LET ans == Answer(saved'[req[r].key], call)
  IN  IF ans.status = "error" THEN Finish(r, "5xx")
      ELSE req' = [req EXCEPT ![r].pc = "called", ![r].ans = ans]

\* The row the handler's flush inserts or updates.
RowOf(r) == IF req[r].op = "refund" THEN <<"refunds", req[r].key>>
            ELSE <<"payments", req[r].pay>>

\* Wrong: no unique index.
FitsAnyway(r) == r \in Requests

\* An INSERT needs its unique key free.
Fits(r) == /\ req[r].op = "create" => payments[req[r].pay] = None
           /\ req[r].op = "refund" => refunds[req[r].key] = None

\* IntegrityError out of the flush
InsertConflicts(r) ==
  /\ req[r].pc = "called"
  /\ ~Fits(r)
  /\ Finish(r, "5xx")
  /\ UNCHANGED <<dbVars, stripeVars>>

\* The handler has flushed and the response goes out, before get_db commits.
RespondFirst(r) ==
  /\ ~CommitBeforeResponse
  /\ req[r].pc = "called"
  /\ Fits(r)
  /\ Lock(RowOf(r))
  /\ req' = [req EXCEPT ![r].pc = "answered", ![r].reply = "2xx"]
  /\ UNCHANGED <<payments, refunds, webhook_events, audit_log, stripeVars>>

\* get_db commits what the handler flushed and logged.
Commits(r, op, action) ==
  /\ At(r, op, IF CommitBeforeResponse THEN "called" ELSE "answered")
  /\ Fits(r)
  /\ LogAction(action, req[r].pay, r)
  /\ Unlock(RowOf(r))
  /\ Finish(r, "2xx")
  /\ UNCHANGED <<webhook_events, stripeVars>>

\* Wrong: the failure not passed on to the client.
RollbackUnnoticed(r) ==
  /\ Live(r)
  /\ Finish(r, "2xx")
  /\ UNCHANGED <<dbVars, stripeVars>>

\* The process dies, a statement fails, or Stripe cannot be reached (before or
\* after it executed the call): the session is rolled back.
Rollback(r) ==
  /\ Live(r)
  /\ Finish(r, IF req[r].pc = "answered" THEN "2xx" ELSE "5xx")
  /\ IF req[r].pc = "answered" THEN Unlock(RowOf(r)) ELSE UNCHANGED locks
  /\ UNCHANGED <<payments, refunds, webhook_events, audit_log, stripeVars>>
===============================================================================
