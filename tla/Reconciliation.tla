---------------------------- MODULE Reconciliation ----------------------------
(***************************************************************************)
(* run_reconciliation while the gateway works: the payments of a range are *)
(* read by one statement, Stripe's PaymentIntents of the range are then    *)
(* listed page by page, and the report of the differences is committed     *)
(* with its audit row.  Runs share nothing and change nothing the gateway  *)
(* reads, so one is enough.                                                *)
(***************************************************************************)
EXTENDS PayGateway, Discrepancies

CONSTANTS
  MaxClock,        \* bound: the clock's last tick
  TicksPerSecond,  \* Stripe keeps seconds, the database fractions of one
  PageSize,        \* what one page of the listing holds; the code asks for 100
  Ranges           \* bound: the ranges a report is asked for, in ticks

ASSUME TimesAreNat == MaxClock \in Nat /\ TicksPerSecond \in Nat \ {0}
ASSUME PageSizeIsPositive == PageSize \in Nat \ {0}

\* ReconciliationRunRequest refuses an empty range.
ASSUME RangesAreRanges == Ranges \subseteq {x \in Nat \X Nat : x[1] < x[2]}

VARIABLES
  clock,       \* now, in ticks
  called_at,   \* Requests -> when the answer the handler holds reached it
  created_at,  \* payments.created_at, by the row's key
  made,        \* the intents, oldest first, with Stripe's created second
  recon        \* the run of run_reconciliation

timeVars == <<clock, called_at, created_at, made>>
reconVars == <<timeVars, recon>>

(***************************************************************************)
(* pc: "listing" the payments are read, "listed" so is the last page,      *)
(* "stored" the report is committed, "failed" it never was.  cursor is the *)
(* position in made of starting_after, 0 for none; known is Len(made) when *)
(* the payments were read, kept for the properties only.                   *)
(***************************************************************************)
NoRun == [pc |-> "idle", range |-> <<0, 0>>, internal |-> << >>, provider |-> << >>,
          cursor |-> 0, known |-> 0, report |-> None]

ReconInit == /\ clock = 0
             /\ called_at = [r \in Requests |-> 0]
             /\ created_at = [k \in IdemKeys |-> 0]
             /\ made = << >>
             /\ recon = NoRun

Second(t) == t \div TicksPerSecond
-------------------------------------------------------------------------------
\* The clock's part in a step of the gateway: a Payment gets its created_at
\* where the handler resumes with the answer or later, before it commits.
StampAnswers ==
  called_at' = [r \in Requests |->
                  IF req'[r].pc # "called" THEN 0
                  ELSE IF req[r].pc = "called" THEN called_at[r] ELSE clock]

StampRows ==
  \/ /\ \A k \in IdemKeys : payments[k] = None => payments'[k] = None
     /\ UNCHANGED created_at
  \/ \E r \in Requests, t \in 0 .. MaxClock :
       /\ At(r, "create", "called") /\ req'[r].pc = "done"
       /\ payments[req[r].pay] = None /\ payments'[req[r].pay] # None
       /\ called_at[r] <= t /\ t <= clock
       /\ created_at' = [created_at EXCEPT ![req[r].pay] = t]

StampIntents ==
  \/ /\ \A pi \in Intents : intents[pi] = None => intents'[pi] = None
     /\ UNCHANGED made
  \/ \E pi \in Intents :
       /\ intents[pi] = None /\ intents'[pi] # None
       /\ made' = Append(made, [pi |-> pi, second |-> Second(clock)])

GatewayStep == /\ Next
               /\ StampAnswers /\ StampRows /\ StampIntents
               /\ UNCHANGED <<clock, recon>>

Tick == /\ clock < MaxClock
        /\ clock' = clock + 1
        /\ UNCHANGED <<vars, called_at, created_at, made, recon>>
-------------------------------------------------------------------------------
\* The SELECT of the payments of the range.
RowInRange(k, range) == /\ payments[k] # None
                        /\ range[1] <= created_at[k] /\ created_at[k] < range[2]

\* int() of the range's bounds, for Stripe's created.gte and created.lt.
ListedInRange(i, range) == /\ Second(range[1]) <= made[i].second
                           /\ made[i].second < Second(range[2])

\* What the two sides know of a payment; every payment here has one currency.
Facts(amount) == [amount |-> amount, currency |-> "USD"]

\* The rows of the range by external_id.
InternalMap(range) ==
  [pi \in {payments[k].external_id : k \in {x \in IdemKeys : RowInRange(x, range)}} |->
     Facts(payments[CHOOSE k \in PaymentsOf(pi) : RowInRange(k, range)].amount)]

StartRun(range) ==
  /\ recon.pc = "idle"
  /\ recon' = [NoRun EXCEPT !.pc = "listing", !.range = range,
                            !.internal = InternalMap(range), !.known = Len(made)]
  /\ UNCHANGED <<vars, timeVars>>

\* What the listing has not shown yet: newest first, starting after the cursor.
Remaining ==
  {i \in DOMAIN made : /\ ListedInRange(i, recon.range)
                       /\ recon.cursor # 0 => i < recon.cursor}

\* The next page: no more than PageSize of what remains is newer.
Page == {i \in Remaining : Cardinality({j \in Remaining : j > i}) < PageSize}

\* provider_map with the intents of the page.
WithPage ==
  LET shown == {made[i].pi : i \in Page}
  IN  [pi \in shown \cup DOMAIN recon.provider |->
         IF pi \in shown THEN Facts(intents[pi].amount) ELSE recon.provider[pi]]

\* Wrong: starting_after left out of the next call.
ListPageAgain ==
  /\ recon.pc = "listing"
  /\ Page # Remaining
  /\ recon' = [recon EXCEPT !.provider = WithPage]
  /\ UNCHANGED <<vars, timeVars>>

\* list_payment_intents and the loop around it: has_more, so the cursor is put
\* on the last intent of the page.
ListPage ==
  /\ recon.pc = "listing"
  /\ Page # Remaining
  /\ \E last \in Page :
       /\ \A i \in Page : last <= i
       /\ recon' = [recon EXCEPT !.provider = WithPage, !.cursor = last]
  /\ UNCHANGED <<vars, timeVars>>

\* Wrong: has_more not looked at.
ListAnyPageAsLast ==
  /\ recon.pc = "listing"
  /\ recon' = [recon EXCEPT !.provider = WithPage, !.pc = "listed"]
  /\ UNCHANGED <<vars, timeVars>>

ListLastPage ==
  /\ recon.pc = "listing"
  /\ Page = Remaining
  /\ recon' = [recon EXCEPT !.provider = WithPage, !.pc = "listed"]
  /\ UNCHANGED <<vars, timeVars>>

\* Wrong: the payments read after the listing.
StoreReportOfRowsNow ==
  /\ recon.pc = "listed"
  /\ recon' = [recon EXCEPT
       !.pc = "stored",
       !.report = ReportOf(InternalMap(recon.range), recon.provider)]
  /\ UNCHANGED <<vars, timeVars>>

\* The comparison and the commit of the report with its audit row.
StoreReport ==
  /\ recon.pc = "listed"
  /\ recon' = [recon EXCEPT !.pc = "stored",
                            !.report = ReportOf(recon.internal, recon.provider)]
  /\ UNCHANGED <<vars, timeVars>>

\* An exception: the report is set to "failed" and flushed, and the session the
\* ReconciliationError passes through rolls it back.
FailRun ==
  /\ recon.pc \in {"listing", "listed"}
  /\ recon' = [recon EXCEPT !.pc = "failed"]
  /\ UNCHANGED <<vars, timeVars>>

ReconStep == ListPage \/ ListLastPage \/ StoreReport

ReconNext == \/ GatewayStep
             \/ Tick
             \/ \E range \in Ranges : StartRun(range)
             \/ ReconStep
             \/ FailRun

ReconSpec == Init /\ ReconInit /\ [][ReconNext]_<<vars, reconVars>>

\* A run is a coroutine, and Stripe answers or fails.
FairReconSpec == ReconSpec /\ WF_<<vars, reconVars>>(ReconStep)
-------------------------------------------------------------------------------
\* A payment is reported missing at the provider only if Stripe made its intent
\* in a second outside the range, so that the listing never had to show it: as
\* the rows are read before the listing, neither a creation in progress nor the
\* page a payment is on can be the reason.
MissingProviderIsBoundary ==
  recon.pc = "stored" =>
    \A pi \in Intents : <<"missing_provider", pi>> \in recon.report.discrepancies =>
      \E i \in DOMAIN made : made[i].pi = pi /\ ~ListedInRange(i, recon.range)

\* A report names every intent of the range that was made before the run and
\* whose payment was never recorded in the range: what a crash between the call
\* and the commit has left behind, on whatever page.
LostCreationsReported ==
  recon.pc = "stored" =>
    \A i \in DOMAIN made :
      /\ i <= recon.known
      /\ ListedInRange(i, recon.range)
      /\ \A k \in PaymentsOf(made[i].pi) : ~RowInRange(k, recon.range)
      => <<"missing_internal", made[i].pi>> \in recon.report.discrepancies

\* A report never counts a payment as matched that is not.
MatchedNeverOverstated ==
  recon.pc = "stored" =>
    recon.report.matched_count <=
      Cardinality(Matched(recon.internal, recon.provider))

\* A run ends, however many payments are created while it lists them.
ReconciliationEnds == recon.pc = "listing" ~> recon.pc \in {"stored", "failed"}
===============================================================================
