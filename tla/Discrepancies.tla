---------------------------- MODULE Discrepancies ----------------------------
(***************************************************************************)
(* The comparison of run_reconciliation, as operators on its two maps:     *)
(* internal and provider are functions of the provider's id to the facts   *)
(* the two sides have of a payment.                                        *)
(***************************************************************************)
EXTENDS Integers, FiniteSets

\* The facts compared.  A status is not one of them.
Compared == {"amount", "currency"}

Both(internal, provider) == DOMAIN internal \cap DOMAIN provider

MissingProvider(internal, provider) ==
  {<<"missing_provider", x>> : x \in DOMAIN internal \ DOMAIN provider}

MissingInternal(internal, provider) ==
  {<<"missing_internal", x>> : x \in DOMAIN provider \ DOMAIN internal}

\* One for each fact that differs, so that a payment may have two.
Mismatches(internal, provider) ==
  {d \in Compared \X Both(internal, provider) :
     internal[d[2]][d[1]] # provider[d[2]][d[1]]}

DiscrepanciesOf(internal, provider) ==
  MissingProvider(internal, provider) \cup MissingInternal(internal, provider)
    \cup Mismatches(internal, provider)

\* Wrong: the first formula of the function, which the second overwrites.
MatchedCountByDifference(internal, provider) ==
  Cardinality(DOMAIN internal) + Cardinality(DOMAIN provider)
    - Cardinality(DiscrepanciesOf(internal, provider))
    - Cardinality(DOMAIN internal \ DOMAIN provider)
    - Cardinality(DOMAIN provider \ DOMAIN internal)

\* Every discrepancy counts against the smaller of the two totals, one that
\* concerns a payment of the other side too.
MatchedCount(internal, provider) ==
  LET internals == Cardinality(DOMAIN internal)
      providers == Cardinality(DOMAIN provider)
      smaller == IF internals <= providers THEN internals ELSE providers
      matched == smaller - Cardinality(DiscrepanciesOf(internal, provider))
  IN  IF matched > 0 THEN matched ELSE 0

ReportOf(internal, provider) ==
  [total_internal |-> Cardinality(DOMAIN internal),
   total_provider |-> Cardinality(DOMAIN provider),
   matched_count |-> MatchedCount(internal, provider),
   discrepancies |-> DiscrepanciesOf(internal, provider)]

\* The payments that the two sides agree about.
Matched(internal, provider) ==
  {x \in Both(internal, provider) :
     \A f \in Compared : internal[x][f] = provider[x][f]}
===============================================================================
