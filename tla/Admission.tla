------------------------------ MODULE Admission ------------------------------
(***************************************************************************)
(* What a request passes before and around its handler: the rate limiter,  *)
(* a connection of the pool, get_current_user, and the row lock that the   *)
(* UPDATE of last_used_at takes.  The handler itself is one step here;     *)
(* PayGateway has its inside.                                              *)
(***************************************************************************)
EXTENDS RateLimiter

CONSTANTS
  ApiKeys,     \* X-API-Key values, of keys that exist or not
  Bearer,      \* every credential or caller without an API key
  RateKeyOf,   \* caller -> rate key; for API keys, their first eight characters
  Asks,        \* bound: the callers and the limits of the paths they ask for
  PoolSize     \* pool_size and max_overflow

Callers == ApiKeys \cup {Bearer}

ASSUME BearerIsNoKey == Bearer \notin ApiKeys
ASSUME CallersHaveRateKeys == RateKeyOf \in [Callers -> RateKeys]
ASSUME AsksAreAsks == Asks \subseteq Callers \X Limits
ASSUME PoolIsPositive == PoolSize \in Nat \ {0}

VARIABLES
  keys,    \* api_keys: "none" no row, "revoked" is_active is false
  ended,   \* the keys that were revoked or expired once, for the properties only
  call     \* Requests -> the request's session

admissionVars == <<keys, ended, call>>

KeyStates == {"none", "active", "expired", "revoked"}

(***************************************************************************)
(* pc: "waiting" for a connection, "connected" with one, "authenticated",  *)
(* "working" past the flush of last_used_at.  Two fields are only for the  *)
(* properties.  held: the key has been valid since the request came in, at *)
(* some moment; sole: at every moment, and no other active row had its     *)
(* eight characters.                                                       *)
(***************************************************************************)
CallStates ==
  [pc    : {"idle", "waiting", "connected", "authenticated", "working", "done"},
   cred  : Callers,
   held  : BOOLEAN,
   sole  : BOOLEAN,
   reply : {"none", "served", "limited", "unauthorized", "clash", "forbidden",
            "unavailable"}]

NoCall == [pc |-> "idle", cred |-> Bearer, held |-> FALSE, sole |-> FALSE,
           reply |-> "none"]

AdmissionTypeOK == /\ LimiterTypeOK
                   /\ keys \in [ApiKeys -> KeyStates]
                   /\ ended \subseteq ApiKeys
                   /\ call \in [Requests -> CallStates]

AdmissionInit ==
  /\ LimiterInit
  /\ keys = [k \in ApiKeys |-> "none"]
  /\ ended = {}
  /\ call = [r \in Requests |-> NoCall]

Holders == {r \in Requests : call[r].pc \in {"connected", "authenticated", "working"}}

Locked(k) == \E r \in Requests : call[r].pc = "working" /\ call[r].cred = k

\* The key is valid and no key that ended was made so again.
Held(cred, rows) == cred \in ApiKeys \ ended /\ rows[cred] = "active"

\* No other key of the same eight characters could be found.
Sole(cred, rows) ==
  /\ Held(cred, rows)
  /\ \A k \in ApiKeys \ {cred} :
       RateKeyOf[k] = RateKeyOf[cred] => rows[k] \in {"none", "revoked"}

\* A statement of the operator, as the requests in progress see it.
SetKey(k, state) ==
  /\ keys' = [keys EXCEPT ![k] = state]
  /\ ended' = IF state = "active" THEN ended ELSE ended \cup {k}
  /\ call' = [r \in Requests |->
       IF call[r].pc \in {"idle", "done"} THEN call[r]
       ELSE [call[r] EXCEPT !.held = @ \/ Held(call[r].cred, keys'),
                            !.sole = @ /\ Sole(call[r].cred, keys')]]
  /\ UNCHANGED limiterVars

Goto(r, pc) == call' = [call EXCEPT ![r].pc = pc]

\* The response is sent and the session is gone.
Reply(r, reply) ==
  call' = [call EXCEPT ![r] = [NoCall EXCEPT !.pc = "done", !.reply = reply]]
-------------------------------------------------------------------------------
\* Keys are inserted, deactivated and dated in SQL, by whoever operates the gateway.
IssueKey(k) == keys[k] = "none" /\ SetKey(k, "active")

\* An UPDATE, which waits for the row's lock.
RevokeKey(k) == /\ keys[k] \in {"active", "expired"}
                /\ ~Locked(k)
                /\ SetKey(k, "revoked")

\* expires_at passes; the row stays active.
KeyExpires(k) == keys[k] = "active" /\ SetKey(k, "expired")
-------------------------------------------------------------------------------
\* RateLimitMiddleware, before any session.
Arrive(r, cred, limit) ==
  /\ IsRateLimited(r, RateKeyOf[cred], limit)
  /\ IF arrival'[r].limited THEN Reply(r, "limited")
     ELSE call' = [call EXCEPT ![r] =
            [pc |-> "waiting", cred |-> cred, held |-> Held(cred, keys),
             sole |-> Sole(cred, keys), reply |-> "none"]]
  /\ UNCHANGED <<keys, ended>>

\* A token that does not hold: refused before the session's first statement.
RefuseToken(r) == /\ call[r].pc = "waiting" /\ call[r].cred = Bearer
                  /\ Reply(r, "unauthorized")
                  /\ UNCHANGED <<limiterVars, keys, ended>>

MayConnect(r) == call[r].pc = "waiting" /\ Cardinality(Holders) < PoolSize

\* The session's first statement takes a connection: the lookup of the key, or
\* a statement of the handler if there is none.
Connect(r) == /\ MayConnect(r)
              /\ Goto(r, IF call[r].cred = Bearer THEN "working" ELSE "connected")
              /\ UNCHANGED <<limiterVars, keys, ended>>

\* The pool gives up after its timeout.
PoolTimeout(r) == /\ call[r].pc = "waiting"
                  /\ Cardinality(Holders) = PoolSize
                  /\ Reply(r, "unavailable")
                  /\ UNCHANGED <<limiterVars, keys, ended>>

\* Wrong: is_active left out of the lookup.
FoundActiveOrNot(cred) ==
  {k \in ApiKeys : RateKeyOf[k] = RateKeyOf[cred] /\ keys[k] # "none"}

\* The active rows whose key_prefix is that of the key: expired ones too.
Found(cred) ==
  {k \in ApiKeys : RateKeyOf[k] = RateKeyOf[cred] /\ keys[k] \in {"active", "expired"}}

MayAuthenticate(r) == call[r].pc = "connected"

\* scalar_one_or_none, the comparison of the hashes and of expires_at.
Authenticate(r) ==
  /\ MayAuthenticate(r)
  /\ LET cred == call[r].cred
         found == Found(cred)
     IN  \/ Cardinality(found) > 1 /\ Reply(r, "clash")
         \/ found = {cred} /\ keys[cred] = "active" /\ Goto(r, "authenticated")
         \/ /\ Cardinality(found) <= 1
            /\ found = {cred} => keys[cred] # "active"
            /\ Reply(r, "unauthorized")
  /\ UNCHANGED <<limiterVars, keys, ended>>

\* require_role, whose exception rolls last_used_at back.
Forbid(r) == /\ call[r].pc = "authenticated"
             /\ Reply(r, "forbidden")
             /\ UNCHANGED <<limiterVars, keys, ended>>

MayFlush(r) == call[r].pc = "authenticated" /\ ~Locked(call[r].cred)

\* Wrong: the whole row written back as it was loaded.
FlushWholeKey(r) == /\ MayFlush(r)
                    /\ keys' = [keys EXCEPT ![call[r].cred] = "active"]
                    /\ Goto(r, "working")
                    /\ UNCHANGED <<limiterVars, ended>>

\* The handler's first SELECT flushes last_used_at, and nothing else of the row.
FlushLastUsed(r) == /\ MayFlush(r)
                    /\ Goto(r, "working")
                    /\ UNCHANGED <<limiterVars, keys, ended>>

\* Wrong: a session of its own for the audit row.
MayServeWithTwoSessions(r) == /\ call[r].pc = "working"
                              /\ Cardinality(Holders) < PoolSize

\* The connection is there and the row is locked: nothing else is waited for.
MayServe(r) == call[r].pc = "working"

\* The handler, its calls to Stripe and the commit, all in the one session.
Serve(r) == /\ MayServe(r)
            /\ Reply(r, "served")
            /\ UNCHANGED <<limiterVars, keys, ended>>

\* A statement, the handler or the process fails: rolled back.
Fail(r) == /\ r \in Holders
           /\ Reply(r, "unavailable")
           /\ UNCHANGED <<limiterVars, keys, ended>>

AdmissionNext ==
  \/ Tick /\ UNCHANGED admissionVars
  \/ \E k \in ApiKeys : IssueKey(k) \/ RevokeKey(k) \/ KeyExpires(k)
  \/ \E r \in Requests :
       \/ \E ask \in Asks : Arrive(r, ask[1], ask[2])
       \/ RefuseToken(r) \/ Connect(r) \/ PoolTimeout(r) \/ Authenticate(r)
       \/ Forbid(r) \/ FlushLastUsed(r) \/ Serve(r) \/ Fail(r)

AdmissionSpec == AdmissionInit /\ [][AdmissionNext]_<<limiterVars, admissionVars>>
-------------------------------------------------------------------------------
Answered(r, replies) == call[r].reply = "none" /\ call'[r].reply \in replies

\* A request with an API key is served only if that very key exists and was
\* valid at some moment since the request came in: not when it had ended by
\* then, whatever sessions loaded the key's row earlier and write to it later.
EndedKeysStayOut ==
  [][\A r \in Requests : Answered(r, {"served"}) /\ call[r].cred # Bearer =>
       call[r].held]_<<limiterVars, admissionVars>>

\* A key that is valid from a request's arrival to its answer is refused only
\* when another key of its first eight characters, expired perhaps but not yet
\* revoked, was there meanwhile: revoking the old key completes a rotation.
ValidKeysAccepted ==
  [][\A r \in Requests : Answered(r, {"unauthorized", "clash"}) =>
       ~call[r].sole]_<<limiterVars, admissionVars>>

\* What takes a request further, without a failure or a timeout.
MayAdvance(r) == MayConnect(r) \/ MayAuthenticate(r) \/ MayFlush(r) \/ MayServe(r)

\* While a request is in progress one can go on: with every connection taken
\* and its holders waiting for a row, somebody has both, and needs no more.
NoGridlock ==
  (\E r \in Requests : call[r].pc \notin {"idle", "done"}) =>
    \E r \in Requests : MayAdvance(r)
===============================================================================
