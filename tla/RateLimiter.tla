----------------------------- MODULE RateLimiter -----------------------------
(***************************************************************************)
(* InMemoryRateLimiter, in front of every route: the times of the last     *)
(* requests of a key, refused ones too, are counted against the limit of   *)
(* the path that is asked for now.  One list serves all paths.             *)
(***************************************************************************)
EXTENDS Integers, FiniteSets

CONSTANTS
  MaxRequests,   \* bound: requests in a behaviour
  RateKeys,   \* "apikey:" and eight characters, or "ip:" and an address
  Limits,     \* the limits of RATE_LIMITS, and the default
  Window,     \* window_seconds, in ticks
  MaxClock,   \* bound: the clock's last tick
  None

ASSUME MaxRequestsIsNat == MaxRequests \in Nat
ASSUME LimitsArePositive == Limits \subseteq Nat \ {0}
ASSUME WindowsArePositive == Window \in Nat \ {0} /\ MaxClock \in Nat

\* A request goes by its turn.
Requests == 1 .. MaxRequests

Arrivals == [key : RateKeys, limit : Limits, at : 0 .. MaxClock, limited : BOOLEAN]

ASSUME NoneIsNoArrival == None \notin Arrivals

VARIABLES
  now,       \* time.time(), in ticks
  counted,   \* _requests: RateKeys -> the requests whose times are in the list
  arrival    \* Requests -> what was decided and when, or None

limiterVars == <<now, counted, arrival>>

LimiterTypeOK ==
  /\ now \in 0 .. MaxClock
  /\ counted \in [RateKeys -> SUBSET Requests]
  /\ arrival \in [Requests -> Arrivals \cup {None}]

LimiterInit == /\ now = 0
               /\ counted = [key \in RateKeys |-> {}]
               /\ arrival = [r \in Requests |-> None]

Tick == now < MaxClock /\ now' = now + 1 /\ UNCHANGED <<counted, arrival>>

\* Wrong: the time at the window's end still counts.
KeptToo(key) == {q \in counted[key] : arrival[q].at >= now - Window}

\* The times that the window still holds.
Kept(key) == {q \in counted[key] : arrival[q].at > now - Window}

\* Wrong: the limit compared before the request itself is counted.
OverBefore(key, limit) == Cardinality(Kept(key)) > limit

Over(key, limit) == Cardinality(Kept(key)) + 1 > limit

\* The list is cut to the window, the request is appended, and more than limit
\* of them are too many.
IsRateLimited(r, key, limit) ==
  /\ arrival[r] = None
  /\ \A q \in 1 .. r - 1 : arrival[q] # None
  /\ counted' = [counted EXCEPT ![key] = Kept(key) \cup {r}]
  /\ arrival' = [arrival EXCEPT ![r] =
       [key |-> key, limit |-> limit, at |-> now, limited |-> Over(key, limit)]]
  /\ UNCHANGED now
-------------------------------------------------------------------------------
Arrived(key) == {r \in Requests : arrival[r] # None /\ arrival[r].key = key}

\* The requests of a key to paths of no higher limit that were let through in
\* the Window ticks up to t.
LetThrough(key, limit, t) ==
  {r \in Arrived(key) : /\ ~arrival[r].limited
                        /\ arrival[r].limit <= limit
                        /\ t - Window < arrival[r].at /\ arrival[r].at <= t}

\* However the requests of a key to different paths alternate, and wherever a
\* window begins, no window holds more of them than their limit.
AdmittedWithinLimit ==
  \A key \in RateKeys, limit \in Limits, t \in 0 .. now :
    Cardinality(LetThrough(key, limit, t)) <= limit

\* A request is refused only if so many others of its key came in less than the
\* time that Retry-After told them to wait: who waits that long, and shares the
\* key with nobody, is let through.
RefusedByTraffic ==
  \A r \in Requests : arrival[r] # None /\ arrival[r].limited =>
    Cardinality({q \in Arrived(arrival[r].key) \ {r} :
                   /\ arrival[q].at <= arrival[r].at
                   /\ arrival[r].at - arrival[q].at < Window}) >= arrival[r].limit
===============================================================================
