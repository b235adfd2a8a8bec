--------------------------- MODULE Admission_proofs ---------------------------
(***************************************************************************)
(* The limits hold and refusals are earned, ended keys stay out and valid  *)
(* ones are accepted: for any requests, keys, limits, window and pool.     *)
(***************************************************************************)
EXTENDS Admission, FiniteSetTheorems, TLAPS

allVars == <<limiterVars, admissionVars>>

(***************************************************************************)
(* The limiter's list.  It may hold too much, between two requests of its  *)
(* key, but nothing of another key, and it lacks nothing that counts.      *)
(***************************************************************************)
NothingLater == \A r \in Requests : arrival[r] # None => arrival[r].at <= now

CountedArrived == \A key \in RateKeys : counted[key] \subseteq Arrived(key)

RecentCounted ==
  \A r \in Requests :
    arrival[r] # None /\ arrival[r].at > now - Window => r \in counted[arrival[r].key]

LimiterInv == /\ LimiterTypeOK
              /\ NothingLater
              /\ CountedArrived
              /\ RecentCounted
              /\ AdmittedWithinLimit
              /\ RefusedByTraffic

LEMMA SomeRequestsAreFinite ==
  ASSUME NEW S \in SUBSET Requests
  PROVE  IsFiniteSet(S) /\ Cardinality(S) \in Nat
<1>1. IsFiniteSet(1 .. MaxRequests)
  BY MaxRequestsIsNat, FS_Interval
<1> QED
  BY <1>1, FS_Subset, FS_CardinalityType DEF Requests

LEMMA MoreRequests ==
  ASSUME NEW T \in SUBSET Requests, NEW S \in SUBSET T
  PROVE  Cardinality(S) <= Cardinality(T)
BY SomeRequestsAreFinite, FS_Subset

LEMMA LimiterInitSound == LimiterInit => LimiterInv
<1> SUFFICES ASSUME LimiterInit
             PROVE  LimiterInv
  OBVIOUS
<1>1. LimiterTypeOK /\ NothingLater /\ CountedArrived /\ RecentCounted /\ RefusedByTraffic
  BY WindowsArePositive
     DEF LimiterInit, LimiterTypeOK, NothingLater, CountedArrived, RecentCounted, RefusedByTraffic
<1>2. ASSUME NEW key \in RateKeys, NEW limit \in Limits, NEW t \in 0 .. now
      PROVE  Cardinality(LetThrough(key, limit, t)) <= limit
  <2>1. LetThrough(key, limit, t) = {}
    BY DEF LimiterInit, LetThrough, Arrived
  <2> QED
    BY <2>1, FS_EmptySet, LimitsArePositive
<1> QED
  BY <1>1, <1>2 DEF LimiterInv, AdmittedWithinLimit

LEMMA TickSound == LimiterInv /\ Tick => LimiterInv'
<1> SUFFICES ASSUME LimiterInv, Tick
             PROVE  LimiterInv'
  OBVIOUS
<1> USE WindowsArePositive
<1>1. now \in 0 .. MaxClock /\ now' = now + 1 /\ now' \in 0 .. MaxClock
      /\ counted' = counted /\ arrival' = arrival
  BY DEF LimiterInv, LimiterTypeOK, Tick
<1>2. LimiterTypeOK'
  BY <1>1 DEF LimiterInv, LimiterTypeOK
<1>3. \A r \in Requests : arrival[r] # None => arrival[r].at \in 0 .. now
  BY DEF LimiterInv, LimiterTypeOK, NothingLater, Arrivals
<1>4. NothingLater' /\ CountedArrived' /\ RecentCounted'
  BY <1>1, <1>3
     DEF LimiterInv, LimiterTypeOK, NothingLater, CountedArrived, RecentCounted, Arrived
<1>5. RefusedByTraffic'
  BY <1>1 DEF LimiterInv, RefusedByTraffic, Arrived
<1>6. ASSUME NEW key \in RateKeys, NEW limit \in Limits, NEW t \in 0 .. now'
      PROVE  Cardinality(LetThrough(key, limit, t)') <= limit
  <2>1. LetThrough(key, limit, t)' = LetThrough(key, limit, t)
    BY <1>1 DEF LetThrough, Arrived
  <2>2. CASE t \in 0 .. now
    BY <2>1, <2>2 DEF LimiterInv, AdmittedWithinLimit
  <2>3. CASE t = now + 1
    <3>1. LetThrough(key, limit, t) \subseteq LetThrough(key, limit, now)
      BY <1>1, <1>3, <2>3 DEF LetThrough, Arrived
    <3>2. LetThrough(key, limit, now) \subseteq Requests
      BY DEF LetThrough, Arrived
    <3>3. Cardinality(LetThrough(key, limit, now)) <= limit
      BY <1>1 DEF LimiterInv, AdmittedWithinLimit
    <3> QED
      BY <2>1, <3>1, <3>2, <3>3, MoreRequests, SomeRequestsAreFinite, LimitsArePositive
  <2> QED
    BY <1>1, <2>2, <2>3
<1> QED
  BY <1>2, <1>4, <1>5, <1>6 DEF LimiterInv, AdmittedWithinLimit

LEMMA IsRateLimitedSound ==
  ASSUME LimiterInv, NEW r \in Requests, NEW key \in RateKeys, NEW limit \in Limits,
         IsRateLimited(r, key, limit)
  PROVE  LimiterInv'
<1> DEFINE new == [key |-> key, limit |-> limit, at |-> now, limited |-> Over(key, limit)]
<1> USE WindowsArePositive
<1>0. Kept(key) \subseteq Requests \ {r} /\ Kept(key) \subseteq Arrived(key)
  BY DEF LimiterInv, CountedArrived, Kept, Arrived, IsRateLimited
<1>1. Cardinality(Kept(key)) \in Nat
  BY <1>0, SomeRequestsAreFinite
<1>2. new \in Arrivals /\ new # None
  <2>1. Over(key, limit) \in BOOLEAN
    BY DEF Over
  <2>2. now \in 0 .. MaxClock
    BY DEF LimiterInv, LimiterTypeOK
  <2>3. new \in Arrivals
    BY <2>1, <2>2 DEF Arrivals
  <2> QED
    BY <2>3, NoneIsNoArrival
<1>3. /\ now' = now
      /\ counted' = [counted EXCEPT ![key] = Kept(key) \cup {r}]
      /\ arrival' = [arrival EXCEPT ![r] = new]
      /\ arrival[r] = None
  BY DEF IsRateLimited
<1>4. /\ new.key = key /\ new.limit = limit /\ new.at = now
      /\ new.limited = (Cardinality(Kept(key)) + 1 > limit)
  BY DEF Over
<1> HIDE DEF new
<1>5. LimiterTypeOK'
  BY <1>0, <1>2, <1>3 DEF LimiterInv, LimiterTypeOK
<1>6. arrival'[r] = new /\ \A q \in Requests \ {r} : arrival'[q] = arrival[q]
  BY <1>3 DEF LimiterInv, LimiterTypeOK
<1>7. counted'[key] = Kept(key) \cup {r} /\ \A k \in RateKeys \ {key} : counted'[k] = counted[k]
  BY <1>3 DEF LimiterInv, LimiterTypeOK
<1>8. \A k \in RateKeys : Arrived(k)' = IF k = key THEN Arrived(k) \cup {r} ELSE Arrived(k)
  BY <1>2, <1>3, <1>4, <1>6 DEF Arrived
<1>9. \A q \in Requests : arrival[q] # None =>
        /\ arrival[q].key \in RateKeys /\ arrival[q].limit \in Limits
        /\ arrival[q].at \in 0 .. now /\ arrival[q].limited \in BOOLEAN
  BY DEF LimiterInv, LimiterTypeOK, NothingLater, Arrivals
<1>10. now \in Nat /\ limit \in Nat
  BY LimitsArePositive DEF LimiterInv, LimiterTypeOK
<1>11. NothingLater'
  BY <1>3, <1>4, <1>6, <1>10 DEF LimiterInv, NothingLater
<1>12. CountedArrived'
  BY <1>0, <1>7, <1>8 DEF LimiterInv, CountedArrived
<1>13. RecentCounted'
  <2> SUFFICES ASSUME NEW q \in Requests, arrival'[q] # None, arrival'[q].at > now - Window
               PROVE  q \in counted'[arrival'[q].key]
    BY <1>3 DEF RecentCounted
  <2>1. CASE q = r
    BY <2>1, <1>4, <1>6, <1>7
  <2>2. CASE q # r
    BY <2>2, <1>6, <1>7, <1>9 DEF LimiterInv, RecentCounted, Kept
  <2> QED
    BY <2>1, <2>2
<1>14. ASSUME NEW k \in RateKeys, NEW l \in Limits, NEW t \in 0 .. now'
       PROVE  Cardinality(LetThrough(k, l, t)') <= l
  <2> DEFINE passed == LetThrough(k, l, t)
  <2>0. l \in Nat /\ t \in 0 .. now
    BY <1>3, LimitsArePositive
  <2>1. passed' \subseteq Requests /\ passed \subseteq Requests
    BY DEF LetThrough, Arrived
  <2>2. CASE r \notin passed'
    <3>1. passed' \subseteq passed
      <4> SUFFICES ASSUME NEW q \in passed'
                   PROVE  q \in passed
        OBVIOUS
      <4>1. q # r /\ arrival'[q] = arrival[q]
        BY <2>1, <2>2, <1>6
      <4>2. q \in Arrived(k)
        BY <4>1, <1>8 DEF LetThrough
      <4> QED
        BY <4>1, <4>2 DEF LetThrough
    <3>2. Cardinality(passed) <= l
      BY <2>0 DEF LimiterInv, AdmittedWithinLimit
    <3> QED
      BY <2>0, <2>1, <3>1, <3>2, MoreRequests, SomeRequestsAreFinite
  <2>3. CASE r \in passed'
    <3>1. k = key /\ t = now /\ limit <= l /\ Cardinality(Kept(key)) + 1 <= limit
      <4>1. k = key
        BY <2>3, <1>3, <1>8 DEF LetThrough, Arrived
      <4>2. ~new.limited /\ new.limit <= l /\ new.at <= t
        BY <2>3, <1>6 DEF LetThrough
      <4>3. ~(Cardinality(Kept(key)) + 1 > limit)
        BY <4>2, <1>4, Zenon
      <4>4. limit <= l /\ now <= t
        BY <4>2, <1>4
      <4> HIDE DEF passed
      <4> QED
        BY <4>1, <4>3, <4>4, <2>0, <1>1, <1>10
    <3>2. passed' \subseteq Kept(key) \cup {r}
      <4> SUFFICES ASSUME NEW q \in passed', q # r
                   PROVE  q \in Kept(key)
        OBVIOUS
      <4>1. q \in Arrived(key)' /\ arrival'[q].at > now - Window
        BY <3>1 DEF LetThrough
      <4>2. q \in Requests \ {r} /\ q \in Arrived(key) /\ arrival'[q] = arrival[q]
        BY <4>1, <2>1, <1>6, <1>8
      <4> QED
        BY <4>1, <4>2 DEF LimiterInv, RecentCounted, Arrived, Kept
    <3>3. Cardinality(Kept(key) \cup {r}) = Cardinality(Kept(key)) + 1
      BY <1>0, SomeRequestsAreFinite, FS_AddElement
    <3>4. Kept(key) \cup {r} \subseteq Requests
      BY <1>0
    <3>5. Cardinality(passed') <= Cardinality(Kept(key) \cup {r})
      BY <3>2, <3>4, MoreRequests
    <3> QED
      BY <3>1, <3>3, <3>5, <1>1, <1>10, <2>0, <2>1, SomeRequestsAreFinite
  <2> QED
    BY <2>2, <2>3
<1>15. RefusedByTraffic'
  <2> DEFINE Others(x) == {q \in Arrived(arrival[x].key) \ {x} :
                             /\ arrival[q].at <= arrival[x].at
                             /\ arrival[x].at - arrival[q].at < Window}
  <2> SUFFICES ASSUME NEW x \in Requests, arrival'[x] # None, arrival'[x].limited
               PROVE  Cardinality(Others(x)') >= arrival'[x].limit
    BY DEF RefusedByTraffic
  <2>1. Others(x)' \subseteq Requests
    BY DEF Arrived
  <2>2. CASE x = r
    <3>1. Kept(key) \subseteq Others(x)'
      <4> SUFFICES ASSUME NEW q \in Kept(key)
                   PROVE  q \in Others(x)'
        OBVIOUS
      <4>1. q \in Arrived(key) /\ q # x /\ arrival'[q] = arrival[q] /\ arrival'[x] = new
            /\ arrival[q] # None
        BY <2>2, <1>0, <1>6 DEF Arrived
      <4>2. arrival[q].at \in 0 .. now /\ arrival[q].at > now - Window
        BY <4>1, <1>9 DEF Kept, Arrived
      <4> QED
        BY <4>1, <4>2, <1>4, <1>8, <1>10
    <3>2. Cardinality(Kept(key)) <= Cardinality(Others(x)')
      BY <2>1, <3>1, MoreRequests
    <3>3. arrival'[x] = new
      BY <2>2, <1>6
    <3>4. Cardinality(Kept(key)) + 1 > limit
      BY <3>3, <1>4, Zenon
    <3>5. Cardinality(Others(x)') \in Nat
      BY <2>1, SomeRequestsAreFinite
    <3> HIDE DEF Others
    <3> QED
      BY <3>2, <3>3, <3>4, <3>5, <1>1, <1>4, <1>10
  <2>3. CASE x # r
    <3>1. arrival'[x] = arrival[x] /\ arrival[x].key \in RateKeys /\ arrival[x].limit \in Nat
      BY <2>3, <1>6, <1>9, LimitsArePositive
    <3>2. Others(x) \subseteq Others(x)'
      BY <3>1, <1>3, <1>6, <1>8 DEF Arrived
    <3>3. Cardinality(Others(x)) >= arrival[x].limit
      BY <3>1 DEF LimiterInv, RefusedByTraffic
    <3>4. Others(x) \subseteq Requests
      BY DEF Arrived
    <3>5. Cardinality(Others(x)) <= Cardinality(Others(x)')
      BY <2>1, <3>2, MoreRequests
    <3> HIDE DEF Others
    <3> QED
      BY <2>1, <3>1, <3>3, <3>4, <3>5, SomeRequestsAreFinite
  <2> QED
    BY <2>2, <2>3
<1> QED
  BY <1>5, <1>11, <1>12, <1>13, <1>14, <1>15 DEF LimiterInv, AdmittedWithinLimit
-------------------------------------------------------------------------------
(***************************************************************************)
(* The keys.  What a request in progress is said to have held, it was      *)
(* found to hold, and a key that is alone with its eight characters is     *)
(* the one row that the lookup can find.                                   *)
(***************************************************************************)
InProgress(r) == call[r].pc \notin {"idle", "done"}

CallSound(r) ==
  /\ InProgress(r) /\ Held(call[r].cred, keys) => call[r].held
  /\ InProgress(r) /\ call[r].sole => Sole(call[r].cred, keys)
  /\ call[r].pc \in {"authenticated", "working"} /\ call[r].cred # Bearer => call[r].held

KeysInv == /\ keys \in [ApiKeys -> KeyStates]
           /\ ended \subseteq ApiKeys
           /\ call \in [Requests -> CallStates]
           /\ \A k \in ApiKeys : keys[k] \in {"none", "active"} => k \notin ended
           /\ \A r \in Requests : CallSound(r)

\* A step of one request, with the tables as they are.
LEMMA CallStepSound ==
  ASSUME KeysInv, NEW r \in Requests, NEW new \in CallStates,
         UNCHANGED <<keys, ended>>, call' = [call EXCEPT ![r] = new],
         CallSound(r)'
  PROVE  KeysInv'
<1>1. call' \in [Requests -> CallStates] /\ \A q \in Requests \ {r} : call'[q] = call[q]
  BY DEF KeysInv
<1>2. ASSUME NEW q \in Requests
      PROVE  CallSound(q)'
  BY <1>1 DEF KeysInv, CallSound, InProgress, Held, Sole
<1> QED
  BY <1>1, <1>2 DEF KeysInv

LEMMA ReplySound ==
  ASSUME KeysInv, NEW r \in Requests, UNCHANGED <<keys, ended>>,
         NEW reply \in {"served", "limited", "unauthorized", "clash", "forbidden", "unavailable"},
         Reply(r, reply)
  PROVE  KeysInv'
<1> DEFINE new == [NoCall EXCEPT !.pc = "done", !.reply = reply]
<1>1. new \in CallStates /\ new.pc = "done"
  BY DEF NoCall, CallStates, Callers
<1>2. call' = [call EXCEPT ![r] = new]
  BY DEF Reply
<1> HIDE DEF new
<1>3. call'[r] = new
  BY <1>2 DEF KeysInv
<1>4. CallSound(r)'
  BY <1>1, <1>3 DEF CallSound, InProgress
<1> QED
  BY <1>1, <1>2, <1>4, CallStepSound

\* Further, within the session.
LEMMA GotoSound ==
  ASSUME KeysInv, NEW r \in Requests, UNCHANGED <<keys, ended>>, InProgress(r),
         NEW pc \in {"connected", "authenticated", "working"}, Goto(r, pc),
         pc # "connected" /\ call[r].cred # Bearer => call[r].held
  PROVE  KeysInv'
<1> DEFINE new == [call[r] EXCEPT !.pc = pc]
<1>1. call[r] \in CallStates
  BY DEF KeysInv
<1>2. /\ new \in CallStates /\ new.pc = pc /\ new.cred = call[r].cred
      /\ new.held = call[r].held /\ new.sole = call[r].sole
  BY <1>1 DEF CallStates
<1>3. call' = [call EXCEPT ![r] = new]
  BY <1>1 DEF Goto, KeysInv, CallStates
<1> HIDE DEF new
<1>4. call'[r] = new
  BY <1>3 DEF KeysInv
<1>5. CallSound(r)'
  BY <1>2, <1>4 DEF KeysInv, CallSound, InProgress, Held, Sole
<1> QED
  BY <1>2, <1>3, <1>5, CallStepSound

LEMMA ArriveSound ==
  ASSUME KeysInv, NEW r \in Requests, NEW cred \in Callers, NEW limit \in Limits,
         Arrive(r, cred, limit)
  PROVE  KeysInv'
<1>1. CASE Reply(r, "limited")
  BY <1>1, ReplySound DEF Arrive
<1>2. CASE call' = [call EXCEPT ![r] =
                [pc |-> "waiting", cred |-> cred, held |-> Held(cred, keys),
                 sole |-> Sole(cred, keys), reply |-> "none"]]
  <2> DEFINE new == [pc |-> "waiting", cred |-> cred, held |-> Held(cred, keys),
                     sole |-> Sole(cred, keys), reply |-> "none"]
  <2>1. Held(cred, keys) \in BOOLEAN /\ Sole(cred, keys) \in BOOLEAN
    BY DEF Held, Sole
  <2>2. new \in CallStates
    BY <2>1 DEF CallStates
  <2>3. /\ new.pc = "waiting" /\ new.cred = cred /\ new.held = Held(cred, keys)
        /\ new.sole = Sole(cred, keys)
    OBVIOUS
  <2>4. call' = [call EXCEPT ![r] = new] /\ UNCHANGED <<keys, ended>>
    BY <1>2 DEF Arrive
  <2> HIDE DEF new
  <2>5. call'[r] = new
    BY <2>4 DEF KeysInv
  <2>6. /\ Held(cred, keys)' = Held(cred, keys)
        /\ Sole(cred, keys)' = Sole(cred, keys)
    BY <2>4 DEF Held, Sole
  <2>7. CallSound(r)'
    <3>1. call'[r].cred = cred /\ call'[r].pc = "waiting"
      BY <2>3, <2>5
    <3>2. Held(call[r].cred, keys)' = call'[r].held
      BY <2>3, <2>5, <2>6, <3>1 DEF Held
    <3>3. Sole(call[r].cred, keys)' = call'[r].sole
      BY <2>3, <2>5, <2>6, <3>1 DEF Sole, Held
    <3> QED
      BY <3>1, <3>2, <3>3 DEF CallSound
  <2> QED
    BY <2>2, <2>4, <2>7, CallStepSound
<1> QED
  BY <1>1, <1>2 DEF Arrive

\* The lookup finds the key, and it is valid.
LEMMA AuthenticateSound ==
  ASSUME KeysInv, NEW r \in Requests, Authenticate(r)
  PROVE  KeysInv'
<1>1. CASE Reply(r, "clash") \/ Reply(r, "unauthorized")
  BY <1>1, ReplySound DEF Authenticate
<1>2. CASE Found(call[r].cred) = {call[r].cred} /\ keys[call[r].cred] = "active"
           /\ Goto(r, "authenticated")
  <2>1. call[r].cred \in ApiKeys /\ InProgress(r)
    BY <1>2 DEF Found, Authenticate, MayAuthenticate, InProgress
  <2>2. Held(call[r].cred, keys)
    BY <1>2, <2>1 DEF KeysInv, Held
  <2>3. call[r].held
    BY <2>1, <2>2 DEF KeysInv, CallSound
  <2> QED
    BY <1>2, <2>1, <2>3, GotoSound DEF Authenticate
<1> QED
  BY <1>1, <1>2 DEF Authenticate

LEMMA SetKeySound ==
  ASSUME KeysInv, NEW k \in ApiKeys, NEW state \in {"active", "expired", "revoked"},
         state = "active" => keys[k] = "none", SetKey(k, state)
  PROVE  KeysInv'
<1>1. /\ keys' = [keys EXCEPT ![k] = state]
      /\ ended' = IF state = "active" THEN ended ELSE ended \cup {k}
  BY DEF SetKey
<1>2. /\ keys' \in [ApiKeys -> KeyStates] /\ ended' \subseteq ApiKeys
      /\ \A c \in ApiKeys : keys'[c] \in {"none", "active"} => c \notin ended'
      /\ ended \subseteq ended'
  BY <1>1 DEF KeysInv, KeyStates
<1>3. ASSUME NEW cred
      PROVE  /\ Held(cred, keys') \in BOOLEAN /\ Sole(cred, keys') \in BOOLEAN
             /\ Held(cred, keys)' => Held(cred, keys')
             /\ Sole(cred, keys') => Sole(cred, keys)'
  BY <1>2 DEF Held, Sole
<1>4. ASSUME NEW r \in Requests
      PROVE  call'[r] \in CallStates /\ CallSound(r)'
  <2>1. call[r] \in CallStates /\ CallSound(r)
    BY DEF KeysInv
  <2>2. CASE ~InProgress(r)
    <3>1. call'[r] = call[r]
      BY <2>2 DEF SetKey, InProgress
    <3> QED
      BY <2>1, <2>2, <3>1 DEF CallSound, InProgress
  <2>3. CASE InProgress(r)
    <3>1. call'[r] = [call[r] EXCEPT !.held = @ \/ Held(call[r].cred, keys'),
                                     !.sole = @ /\ Sole(call[r].cred, keys')]
      BY <2>3 DEF SetKey, InProgress
    <3>2. /\ call'[r].pc = call[r].pc /\ call'[r].cred = call[r].cred
          /\ call'[r].held = (call[r].held \/ Held(call[r].cred, keys'))
          /\ call'[r].sole = (call[r].sole /\ Sole(call[r].cred, keys'))
      BY <2>1, <3>1 DEF CallStates
    <3>3. call'[r] \in CallStates
      BY <2>1, <3>1, <1>3 DEF CallStates
    <3>4. /\ Held(call[r].cred, keys)' => Held(call[r].cred, keys')
          /\ Sole(call[r].cred, keys') => Sole(call[r].cred, keys)'
      BY <1>2, <3>2 DEF Held, Sole
    <3> QED
      BY <2>1, <3>2, <3>3, <3>4 DEF CallSound, InProgress
  <2> QED
    BY <2>2, <2>3
<1>5. call' \in [Requests -> CallStates]
  BY <1>4 DEF SetKey
<1> QED
  BY <1>2, <1>4, <1>5 DEF KeysInv
-------------------------------------------------------------------------------
(***************************************************************************)
(* Every step, and what follows of all behaviours.                         *)
(***************************************************************************)
AdmissionInv == LimiterInv /\ KeysInv

LEMMA AdmissionInitSound == AdmissionInit => AdmissionInv
<1> SUFFICES ASSUME AdmissionInit
             PROVE  AdmissionInv
  OBVIOUS
<1>1. NoCall \in CallStates /\ NoCall.pc = "idle"
  BY DEF NoCall, CallStates, Callers
<1>2. KeysInv
  BY <1>1 DEF AdmissionInit, KeysInv, KeyStates, CallSound, InProgress
<1> QED
  BY <1>2, LimiterInitSound DEF AdmissionInit, AdmissionInv

LEMMA LimiterStays ==
  ASSUME LimiterInv, UNCHANGED limiterVars
  PROVE  LimiterInv'
<1>1. now' = now /\ counted' = counted /\ arrival' = arrival
  BY DEF limiterVars
<1>2. LimiterTypeOK' /\ NothingLater' /\ CountedArrived' /\ RecentCounted'
  BY <1>1 DEF LimiterInv, LimiterTypeOK, NothingLater, CountedArrived, RecentCounted, Arrived
<1>3. AdmittedWithinLimit' /\ RefusedByTraffic'
  BY <1>1 DEF LimiterInv, AdmittedWithinLimit, RefusedByTraffic, LetThrough, Arrived
<1> QED
  BY <1>2, <1>3 DEF LimiterInv

LEMMA KeysStay ==
  ASSUME KeysInv, UNCHANGED admissionVars
  PROVE  KeysInv'
BY DEF KeysInv, admissionVars, CallSound, InProgress, Held, Sole

\* A request's step inside its session, which leaves the limiter alone.
LEMMA SessionStepSound ==
  ASSUME KeysInv, NEW r \in Requests,
         RefuseToken(r) \/ Connect(r) \/ PoolTimeout(r) \/ Authenticate(r)
           \/ Forbid(r) \/ FlushLastUsed(r) \/ Serve(r) \/ Fail(r)
  PROVE  KeysInv'
<1>1. CASE RefuseToken(r) \/ PoolTimeout(r) \/ Forbid(r) \/ Serve(r) \/ Fail(r)
  BY <1>1, ReplySound DEF RefuseToken, PoolTimeout, Forbid, Serve, Fail
<1>2. CASE Connect(r)
  <2>1. InProgress(r) /\ UNCHANGED <<keys, ended>>
    BY <1>2 DEF Connect, MayConnect, InProgress
  <2>2. CASE call[r].cred = Bearer
    BY <1>2, <2>1, <2>2, GotoSound DEF Connect
  <2>3. CASE call[r].cred # Bearer
    BY <1>2, <2>1, <2>3, GotoSound DEF Connect
  <2> QED
    BY <2>2, <2>3
<1>3. CASE Authenticate(r)
  BY <1>3, AuthenticateSound
<1>4. CASE FlushLastUsed(r)
  <2>1. InProgress(r) /\ (call[r].cred # Bearer => call[r].held)
    BY <1>4 DEF FlushLastUsed, MayFlush, InProgress, KeysInv, CallSound
  <2> QED
    BY <1>4, <2>1, GotoSound DEF FlushLastUsed
<1> QED
  BY <1>1, <1>2, <1>3, <1>4

LEMMA AdmissionStepSound ==
  AdmissionInv /\ [AdmissionNext]_<<limiterVars, admissionVars>> => AdmissionInv'
<1> SUFFICES ASSUME AdmissionInv, [AdmissionNext]_<<limiterVars, admissionVars>>
             PROVE  AdmissionInv'
  OBVIOUS
<1>1. CASE Tick /\ UNCHANGED admissionVars
  BY <1>1, TickSound, KeysStay DEF AdmissionInv
<1>2. CASE \E k \in ApiKeys : IssueKey(k) \/ RevokeKey(k) \/ KeyExpires(k)
  BY <1>2, SetKeySound, LimiterStays
     DEF AdmissionInv, IssueKey, RevokeKey, KeyExpires, SetKey
<1>3. CASE \E r \in Requests : \E ask \in Asks : Arrive(r, ask[1], ask[2])
  <2>1. PICK r \in Requests, ask \in Asks : Arrive(r, ask[1], ask[2])
    BY <1>3
  <2>2. ask[1] \in Callers /\ ask[2] \in Limits /\ RateKeyOf[ask[1]] \in RateKeys
    BY AsksAreAsks, CallersHaveRateKeys
  <2> QED
    BY <2>1, <2>2, ArriveSound, IsRateLimitedSound DEF AdmissionInv, Arrive
<1>4. CASE \E r \in Requests :
             RefuseToken(r) \/ Connect(r) \/ PoolTimeout(r) \/ Authenticate(r)
               \/ Forbid(r) \/ FlushLastUsed(r) \/ Serve(r) \/ Fail(r)
  <2>1. UNCHANGED limiterVars
    BY <1>4 DEF RefuseToken, Connect, PoolTimeout, Authenticate, Forbid, FlushLastUsed,
                Serve, Fail
  <2> QED
    BY <1>4, <2>1, SessionStepSound, LimiterStays DEF AdmissionInv
<1>5. CASE UNCHANGED <<limiterVars, admissionVars>>
  BY <1>5, LimiterStays, KeysStay DEF AdmissionInv
<1> QED
  BY <1>1, <1>2, <1>3, <1>4, <1>5 DEF AdmissionNext

LEMMA AdmissionInductive == AdmissionSpec => []AdmissionInv
BY AdmissionInitSound, AdmissionStepSound, PTL DEF AdmissionSpec

\* The limiter's list, the keys and the sessions keep their shape.
THEOREM AdmissionTypeCorrect == AdmissionSpec => []AdmissionTypeOK
<1>1. AdmissionInv => AdmissionTypeOK
  BY DEF AdmissionInv, LimiterInv, KeysInv, AdmissionTypeOK
<1> QED
  BY <1>1, AdmissionInductive, PTL

\* No window of any length and position lets more requests of a key through to
\* paths of some limit than that limit, however the key's paths alternate.
THEOREM LimitsHold == AdmissionSpec => []AdmittedWithinLimit
<1>1. AdmissionInv => AdmittedWithinLimit
  BY DEF AdmissionInv, LimiterInv
<1> QED
  BY <1>1, AdmissionInductive, PTL

\* Who waits as long as Retry-After says, and shares the key with nobody, is
\* not refused again.
THEOREM RefusalsEarned == AdmissionSpec => []RefusedByTraffic
<1>1. AdmissionInv => RefusedByTraffic
  BY DEF AdmissionInv, LimiterInv
<1> QED
  BY <1>1, AdmissionInductive, PTL

\* A step answers at most one request, and what it says is settled by then.
LEMMA AnswersSound ==
  ASSUME AdmissionInv, AdmissionNext, NEW r \in Requests
  PROVE  /\ Answered(r, {"served"}) /\ call[r].cred # Bearer => call[r].held
         /\ Answered(r, {"unauthorized", "clash"}) => ~call[r].sole
<1>1. \A q \in Requests : call[q] \in CallStates /\ CallSound(q)
  BY DEF AdmissionInv, KeysInv
<1>2. call \in [Requests -> CallStates]
  BY DEF AdmissionInv, KeysInv
<1>3. ASSUME NEW q \in Requests, NEW reply, Reply(q, reply), call'[r].reply # call[r].reply
      PROVE  q = r /\ call'[r].reply = reply
  BY <1>2, <1>3 DEF Reply, NoCall
<1>4. ASSUME NEW q \in Requests, NEW pc, Goto(q, pc)
      PROVE  call'[r].reply = call[r].reply
  BY <1>1, <1>2, <1>4 DEF Goto, CallStates
<1>5. CASE UNCHANGED call
  BY <1>5 DEF Answered
<1>6. CASE \E k \in ApiKeys, state \in KeyStates : SetKey(k, state)
  <2>1. PICK row : call'[r] = IF call[r].pc \in {"idle", "done"} THEN call[r]
                              ELSE [call[r] EXCEPT !.held = @ \/ Held(call[r].cred, row),
                                                   !.sole = @ /\ Sole(call[r].cred, row)]
    BY <1>6 DEF SetKey
  <2>2. call'[r].reply = call[r].reply
    BY <1>1, <2>1 DEF CallStates
  <2> QED
    BY <2>2 DEF Answered
<1>7. CASE \E q \in Requests, cred \in Callers, limit \in Limits : Arrive(q, cred, limit)
  <2>1. PICK q \in Requests, cred \in Callers, limit \in Limits : Arrive(q, cred, limit)
    BY <1>7
  <2>2. call'[r].reply \in {call[r].reply, "limited", "none"}
    BY <2>1, <1>2, <1>3 DEF Arrive
  <2> QED
    BY <2>2 DEF Answered
<1>8. CASE \E q \in Requests : RefuseToken(q)
  <2>1. PICK q \in Requests : RefuseToken(q)
    BY <1>8
  <2>2. ~call[q].sole
    BY <2>1, <1>1, BearerIsNoKey DEF RefuseToken, CallSound, InProgress, Sole, Held
  <2> QED
    BY <2>1, <2>2, <1>3 DEF RefuseToken, Answered
<1>9. CASE \E q \in Requests : Authenticate(q)
  <2>1. PICK q \in Requests : Authenticate(q)
    BY <1>9
  <2>2. CASE Goto(q, "authenticated")
    BY <2>2, <1>4 DEF Answered
  <2>3. ASSUME call[q].sole
        PROVE  Found(call[q].cred) = {call[q].cred} /\ keys[call[q].cred] = "active"
    BY <2>1, <2>3, <1>1 DEF Authenticate, MayAuthenticate, CallSound, InProgress, Sole, Held, Found
  <2>4. ASSUME call[q].sole, Cardinality(Found(call[q].cred)) > 1
        PROVE  FALSE
    <3>1. Cardinality({call[q].cred}) = 1
      BY FS_Singleton
    <3> QED
      BY <2>3, <2>4, <3>1
  <2>5. CASE ~Goto(q, "authenticated")
    <3>1. ~call[q].sole /\ (Reply(q, "clash") \/ Reply(q, "unauthorized"))
      BY <2>1, <2>3, <2>4, <2>5 DEF Authenticate
    <3> QED
      BY <3>1, <1>3 DEF Answered
  <2> QED
    BY <2>2, <2>5
<1>10. CASE \E q \in Requests : Serve(q)
  <2>1. PICK q \in Requests : Serve(q)
    BY <1>10
  <2>2. call[q].cred # Bearer => call[q].held
    BY <2>1, <1>1 DEF Serve, MayServe, CallSound
  <2> QED
    BY <2>1, <2>2, <1>3 DEF Serve, Answered
<1>11. CASE \E q \in Requests : PoolTimeout(q) \/ Forbid(q) \/ Fail(q)
  BY <1>3, <1>11 DEF PoolTimeout, Forbid, Fail, Answered
<1>12. CASE \E q \in Requests : Connect(q) \/ FlushLastUsed(q)
  BY <1>4, <1>12 DEF Connect, FlushLastUsed, Answered
<1>13. (\E q \in Requests : \E ask \in Asks : Arrive(q, ask[1], ask[2])) =>
         \E q \in Requests, cred \in Callers, limit \in Limits : Arrive(q, cred, limit)
  BY AsksAreAsks
<1>14. (\E k \in ApiKeys : IssueKey(k) \/ RevokeKey(k) \/ KeyExpires(k)) =>
         \E k \in ApiKeys, state \in KeyStates : SetKey(k, state)
  BY DEF IssueKey, RevokeKey, KeyExpires, KeyStates
<1>15. Tick /\ UNCHANGED admissionVars => UNCHANGED call
  BY DEF admissionVars
<1> QED
  BY <1>5, <1>6, <1>7, <1>8, <1>9, <1>10, <1>11, <1>12, <1>13, <1>14, <1>15 DEF AdmissionNext

\* A key that was revoked or expired before the request came in serves nothing,
\* whichever sessions still hold its row as it was.
THEOREM EndedKeysServeNothing == AdmissionSpec => EndedKeysStayOut
<1>1. AdmissionInv /\ [AdmissionNext]_<<limiterVars, admissionVars>> =>
        [\A r \in Requests : Answered(r, {"served"}) /\ call[r].cred # Bearer =>
           call[r].held]_<<limiterVars, admissionVars>>
  BY AnswersSound
<1> QED
  BY <1>1, AdmissionInductive, PTL DEF AdmissionSpec, EndedKeysStayOut

\* A valid key without another of its eight characters is not refused, whatever
\* becomes of the other keys meanwhile.
THEOREM LoneKeysAccepted == AdmissionSpec => ValidKeysAccepted
<1>1. AdmissionInv /\ [AdmissionNext]_<<limiterVars, admissionVars>> =>
        [\A r \in Requests : Answered(r, {"unauthorized", "clash"}) =>
           ~call[r].sole]_<<limiterVars, admissionVars>>
  BY AnswersSound
<1> QED
  BY <1>1, AdmissionInductive, PTL DEF AdmissionSpec, ValidKeysAccepted

\* However many requests there are to the connections and to a key's row, one
\* can go on: who waits for a row waits for a request that has a connection,
\* and a request that has both needs nothing else.
THEOREM SomebodyGoesOn == AdmissionSpec => []NoGridlock
<1>1. AdmissionInv => NoGridlock
  <2> SUFFICES ASSUME AdmissionInv, NEW r \in Requests, InProgress(r)
               PROVE  \E q \in Requests : MayAdvance(q)
    BY DEF NoGridlock, InProgress
  <2>1. CASE \E q \in Requests : call[q].pc \in {"connected", "working"}
    BY <2>1 DEF MayAdvance, MayAuthenticate, MayServe
  <2>2. CASE \E q \in Requests : call[q].pc = "authenticated"
    BY <2>1, <2>2 DEF MayAdvance, MayFlush, Locked
  <2>3. CASE Holders = {}
    <3>1. call[r].pc = "waiting"
      BY <2>3 DEF AdmissionInv, KeysInv, CallStates, InProgress, Holders
    <3>2. Cardinality(Holders) < PoolSize
      BY <2>3, FS_EmptySet, PoolIsPositive
    <3> QED
      BY <3>1, <3>2 DEF MayAdvance, MayConnect
  <2> QED
    BY <2>1, <2>2, <2>3 DEF Holders
<1> QED
  BY <1>1, AdmissionInductive, PTL
===============================================================================
