------------------------ MODULE Reconciliation_proofs ------------------------
(***************************************************************************)
(* What a report says is so, for any payments, clock, range and page size, *)
(* while the gateway goes on: proved over the gateway's own invariant.     *)
(***************************************************************************)
EXTENDS PayGateway_proofs, Reconciliation, FiniteSetTheorems

(***************************************************************************)
(* The comparison alone, for any two finite maps.                          *)
(***************************************************************************)
LEMMA DiscrepanciesFinite ==
  ASSUME NEW internal, NEW provider,
         IsFiniteSet(DOMAIN internal), IsFiniteSet(DOMAIN provider)
  PROVE  IsFiniteSet(DiscrepanciesOf(internal, provider))
<1> DEFINE Tags == {"missing_provider"}
           OtherTags == {"missing_internal"}
           Pairs(T, S) == T \X S
<1>1. IsFiniteSet(Tags) /\ IsFiniteSet(OtherTags)
  BY FS_Singleton
<1>2. IsFiniteSet(Compared)
  <2>1. Compared = {"amount"} \cup {"currency"}
    BY DEF Compared
  <2> QED
    BY <2>1, FS_Singleton, FS_AddElement
<1>3. IsFiniteSet(MissingProvider(internal, provider))
  <2>1. IsFiniteSet(Tags \X DOMAIN internal)
    BY <1>1, FS_Product
  <2>2. MissingProvider(internal, provider) \in SUBSET (Tags \X DOMAIN internal)
    BY DEF MissingProvider
  <2> QED
    BY <2>1, <2>2, FS_Subset
<1>4. IsFiniteSet(MissingInternal(internal, provider))
  <2>1. IsFiniteSet(OtherTags \X DOMAIN provider)
    BY <1>1, FS_Product
  <2>2. MissingInternal(internal, provider) \in SUBSET (OtherTags \X DOMAIN provider)
    BY DEF MissingInternal
  <2> QED
    BY <2>1, <2>2, FS_Subset
<1>5. IsFiniteSet(Mismatches(internal, provider))
  <2>1. IsFiniteSet(Compared \X Both(internal, provider))
    BY <1>2, FS_Product, FS_Intersection DEF Both
  <2>2. Mismatches(internal, provider) \in SUBSET (Compared \X Both(internal, provider))
    BY DEF Mismatches
  <2> QED
    BY <2>1, <2>2, FS_Subset
<1> QED
  BY <1>3, <1>4, <1>5, FS_Union DEF DiscrepanciesOf

\* Whoever is not matched has a discrepancy of its own.
LEMMA DiscrepancyEach ==
  ASSUME NEW internal, NEW provider,
         IsFiniteSet(DOMAIN internal), IsFiniteSet(DOMAIN provider)
  PROVE  Cardinality(DOMAIN internal \ Matched(internal, provider))
           <= Cardinality(DiscrepanciesOf(internal, provider))
<1> DEFINE unmatched == DOMAIN internal \ Matched(internal, provider)
           all == DiscrepanciesOf(internal, provider)
           differing(x) == CHOOSE f \in Compared : internal[x][f] # provider[x][f]
           own == [x \in unmatched |->
                     IF x \in DOMAIN provider THEN <<differing(x), x>>
                     ELSE <<"missing_provider", x>>]
<1>1. ASSUME NEW x \in unmatched
      PROVE  own[x] \in all /\ own[x][2] = x
  <2>1. CASE x \in DOMAIN provider
    <3>1. \E f \in Compared : internal[x][f] # provider[x][f]
      BY <2>1 DEF Matched, Both
    <3>2. PICK f : f = differing(x)
      OBVIOUS
    <3>3. f \in Compared /\ internal[x][f] # provider[x][f]
      BY <3>1, <3>2
    <3>4. own[x] = <<f, x>>
      BY <2>1, <3>2
    <3>5. <<f, x>> \in Mismatches(internal, provider)
      BY <2>1, <3>3 DEF Mismatches, Both
    <3> QED
      BY <3>4, <3>5 DEF DiscrepanciesOf
  <2>2. CASE x \notin DOMAIN provider
    BY <2>2 DEF DiscrepanciesOf, MissingProvider
  <2> QED
    BY <2>1, <2>2
<1>2. DOMAIN own = unmatched
  OBVIOUS
<1>3. own \in [unmatched -> all]
  BY <1>1
<1> HIDE DEF own, all, unmatched
<1>4. own \in Injection(unmatched, all)
  BY <1>1, <1>2, <1>3 DEF Injection, IsInjective
<1>5. IsFiniteSet(all)
  BY DiscrepanciesFinite DEF all
<1> QED
  BY <1>4, <1>5, FS_Injection DEF all, unmatched

LEMMA MatchedBounded ==
  ASSUME NEW internal, NEW provider,
         IsFiniteSet(DOMAIN internal), IsFiniteSet(DOMAIN provider)
  PROVE  MatchedCount(internal, provider) <= Cardinality(Matched(internal, provider))
<1> DEFINE matched == Matched(internal, provider)
           unmatched == DOMAIN internal \ matched
<1>1. matched \subseteq DOMAIN internal
  BY DEF Matched, Both
<1>2. IsFiniteSet(matched) /\ DOMAIN internal \cap matched = matched
  BY <1>1, FS_Subset
<1>3. Cardinality(unmatched) = Cardinality(DOMAIN internal) - Cardinality(matched)
  BY <1>2, FS_Difference
<1>4. /\ Cardinality(matched) \in Nat
      /\ Cardinality(DOMAIN internal) \in Nat
      /\ Cardinality(DOMAIN provider) \in Nat
      /\ Cardinality(DiscrepanciesOf(internal, provider)) \in Nat
  BY <1>2, DiscrepanciesFinite, FS_CardinalityType
<1>5. Cardinality(unmatched) <= Cardinality(DiscrepanciesOf(internal, provider))
  BY DiscrepancyEach
<1> HIDE DEF matched, unmatched
<1> QED
  BY <1>3, <1>4, <1>5 DEF MatchedCount, matched
-------------------------------------------------------------------------------
(***************************************************************************)
(* The inductive invariant.  The snapshot names intents that were made by  *)
(* then and payments that are in the range still; and of the intents made  *)
(* by then, the pages so far show those the cursor has passed.             *)
(***************************************************************************)
Listings == [pi : Intents, second : Int]

RecordShape ==
  recon = [pc |-> recon.pc, range |-> recon.range, internal |-> recon.internal,
           provider |-> recon.provider, cursor |-> recon.cursor, known |-> recon.known,
           report |-> recon.report]

ReconTypeOK ==
  /\ clock \in Nat
  /\ created_at \in [IdemKeys -> Nat]
  /\ made \in Seq(Listings)
  /\ RecordShape
  /\ recon.pc \in {"idle", "listing", "listed", "stored", "failed"}
  /\ recon.cursor \in Nat
  /\ recon.known \in 0 .. Len(made)
  /\ IsFiniteSet(DOMAIN recon.internal)
  /\ IsFiniteSet(DOMAIN recon.provider)

IntentsListed ==
  \A pi \in Intents : intents[pi] # None => \E i \in DOMAIN made : made[i].pi = pi

SnapshotKnown ==
  \A pi \in DOMAIN recon.internal :
    /\ \E i \in 1 .. recon.known : made[i].pi = pi
    /\ \E k \in PaymentsOf(pi) : RowInRange(k, recon.range)

Covered(i) ==
  \/ made[i].pi \in DOMAIN recon.provider
  \/ recon.pc = "listing" /\ (recon.cursor # 0 => i < recon.cursor)

ListingCovers ==
  recon.pc \in {"listing", "listed", "stored"} =>
    \A i \in 1 .. recon.known : ListedInRange(i, recon.range) => Covered(i)

ReportIsOf ==
  recon.pc = "stored" => recon.report = ReportOf(recon.internal, recon.provider)

ReconInv == /\ Inv
            /\ ReconTypeOK
            /\ IntentsListed
            /\ SnapshotKnown
            /\ ListingCovers
            /\ ReportIsOf

LEMMA ReconInvInit == Init /\ ReconInit => ReconInv
<1> SUFFICES ASSUME Init, ReconInit
             PROVE  ReconInv
  OBVIOUS
<1>1. Inv
  BY InvInit
<1>2. IsFiniteSet(DOMAIN << >>) /\ DOMAIN << >> = {}
  BY FS_EmptySet
<1>3. ReconTypeOK
  BY <1>2 DEF ReconInit, NoRun, ReconTypeOK, RecordShape
<1>4. IntentsListed
  BY DEF Init, StripeInit, IntentsListed
<1>5. SnapshotKnown /\ ListingCovers /\ ReportIsOf
  BY <1>2 DEF ReconInit, NoRun, SnapshotKnown, ListingCovers, ReportIsOf
<1> QED
  BY <1>1, <1>3, <1>4, <1>5 DEF ReconInv

\* A row that is in a range stays there, with its intent, and an intent keeps
\* its place in the list.
LEMMA RangeKept ==
  ASSUME ReconInv, GatewayStep
  PROVE  /\ \A pi, k : k \in PaymentsOf(pi) => k \in PaymentsOf(pi)'
         /\ created_at' \in [IdemKeys -> Nat]
         /\ \A k \in IdemKeys : payments[k] # None => created_at'[k] = created_at[k]
<1>1. \A k \in IdemKeys : payments[k] # None =>
        payments'[k] # None /\ payments'[k].external_id = payments[k].external_id
  BY OneThingChanges DEF ReconInv, GatewayStep, InsertsRow, OverwritesRow
<1>2. \A pi, k : k \in PaymentsOf(pi) => k \in PaymentsOf(pi)'
  BY <1>1 DEF PaymentsOf
<1>3. CASE UNCHANGED created_at
  BY <1>2, <1>3 DEF ReconInv, ReconTypeOK
<1>4. ASSUME NEW r \in Requests, NEW t \in 0 .. MaxClock, payments[req[r].pay] = None,
             created_at' = [created_at EXCEPT ![req[r].pay] = t]
      PROVE  /\ created_at' \in [IdemKeys -> Nat]
             /\ \A k \in IdemKeys : payments[k] # None => created_at'[k] = created_at[k]
  <2>1. t \in Nat /\ created_at \in [IdemKeys -> Nat]
    BY TimesAreNat DEF ReconInv, ReconTypeOK
  <2>2. PICK p : p = req[r].pay
    OBVIOUS
  <2>3. created_at' = [created_at EXCEPT ![p] = t] /\ payments[p] = None
    BY <1>4, <2>2
  <2> QED
    BY <2>1, <2>3
<1> QED
  BY <1>2, <1>3, <1>4 DEF GatewayStep, StampRows

LEMMA ListKept ==
  ASSUME ReconInv, GatewayStep
  PROVE  /\ made' \in Seq(Listings) /\ Len(made) <= Len(made')
         /\ \A i \in DOMAIN made : i \in DOMAIN made' /\ made'[i] = made[i]
         /\ IntentsListed'
<1>1. made \in Seq(Listings) /\ Len(made) \in Nat
  BY DEF ReconInv, ReconTypeOK
<1>2. CASE UNCHANGED made /\ \A pi \in Intents : intents[pi] = None => intents'[pi] = None
  BY <1>1, <1>2 DEF ReconInv, IntentsListed
<1>3. ASSUME NEW pi \in Intents, intents[pi] = None, intents'[pi] # None,
             made' = Append(made, [pi |-> pi, second |-> Second(clock)])
      PROVE  /\ made' \in Seq(Listings) /\ Len(made) <= Len(made')
             /\ \A i \in DOMAIN made : i \in DOMAIN made' /\ made'[i] = made[i]
             /\ IntentsListed'
  <2> DEFINE listing == [pi |-> pi, second |-> Second(clock)]
  <2>1. listing \in Listings /\ listing.pi = pi
    BY TimesAreNat DEF ReconInv, ReconTypeOK, Listings, Second
  <2> HIDE DEF listing
  <2>2. made' = Append(made, listing)
    BY <1>3 DEF listing
  <2>3. /\ made' \in Seq(Listings) /\ Len(made') = Len(made) + 1
        /\ made'[Len(made) + 1] = listing
        /\ \A i \in DOMAIN made : i \in DOMAIN made' /\ made'[i] = made[i]
    BY <1>1, <2>1, <2>2
  <2>4. \A o \in Intents \ {pi} : intents'[o] = intents[o]
    BY <1>3, OneThingChanges DEF ReconInv, GatewayStep, MovesIntent
  <2>5. IntentsListed'
    <3> SUFFICES ASSUME NEW o \in Intents, intents'[o] # None
                 PROVE  \E i \in DOMAIN made' : made'[i].pi = o
      BY DEF IntentsListed
    <3>1. CASE o = pi
      BY <1>1, <2>1, <2>3, <3>1
    <3>2. CASE o # pi
      BY <2>3, <2>4, <3>2 DEF ReconInv, IntentsListed
    <3> QED
      BY <3>1, <3>2
  <2> QED
    BY <1>1, <2>3, <2>5
<1> QED
  BY <1>2, <1>3 DEF GatewayStep, StampIntents

LEMMA GatewayKeepsRecon ==
  ASSUME ReconInv, GatewayStep
  PROVE  ReconInv'
<1>1. Inv'
  BY InvNext DEF ReconInv, GatewayStep
<1>2. UNCHANGED <<clock, recon>>
  BY DEF GatewayStep
<1>3. ReconTypeOK'
  BY <1>2, RangeKept, ListKept DEF ReconInv, ReconTypeOK, RecordShape
<1>4. \A i \in 1 .. recon.known : i \in DOMAIN made /\ made'[i] = made[i]
  BY ListKept DEF ReconInv, ReconTypeOK
<1>5. SnapshotKnown'
  <2> SUFFICES ASSUME NEW pi \in DOMAIN recon.internal
               PROVE  /\ \E i \in 1 .. recon.known : made'[i].pi = pi
                      /\ \E k \in PaymentsOf(pi)' : RowInRange(k, recon.range)'
    BY <1>2 DEF SnapshotKnown
  <2>1. PICK i \in 1 .. recon.known : made[i].pi = pi
    BY DEF ReconInv, SnapshotKnown
  <2>2. PICK k \in PaymentsOf(pi) : RowInRange(k, recon.range)
    BY DEF ReconInv, SnapshotKnown
  <2>3. k \in PaymentsOf(pi)' /\ k \in IdemKeys /\ created_at'[k] = created_at[k]
    BY <2>2, RangeKept DEF PaymentsOf
  <2>4. RowInRange(k, recon.range)'
    BY <1>2, <2>2, <2>3 DEF RowInRange, PaymentsOf
  <2> QED
    BY <1>4, <2>1, <2>3, <2>4
<1>6. ListingCovers'
  BY <1>2, <1>4 DEF ReconInv, ListingCovers, Covered, ListedInRange
<1>7. ReportIsOf'
  BY <1>2 DEF ReconInv, ReportIsOf
<1> QED
  BY <1>1, <1>3, <1>5, <1>6, <1>7, ListKept DEF ReconInv
-------------------------------------------------------------------------------
(***************************************************************************)
(* The run's own steps.                                                    *)
(***************************************************************************)
LEMMA TickKeepsRecon ==
  ASSUME ReconInv, Tick
  PROVE  ReconInv'
<1>1. Inv'
  BY InvNext DEF ReconInv, Tick
<1>2. ReconTypeOK' /\ IntentsListed' /\ ReportIsOf'
  BY DEF ReconInv, Tick, ReconTypeOK, RecordShape, IntentsListed, ReportIsOf, vars, stripeVars
<1>3. SnapshotKnown'
  BY DEF ReconInv, Tick, SnapshotKnown, PaymentsOf, RowInRange, vars, dbVars
<1>4. ListingCovers'
  BY DEF ReconInv, Tick, ListingCovers, Covered, ListedInRange
<1> QED
  BY <1>1, <1>2, <1>3, <1>4 DEF ReconInv

\* The rows read are payments of intents that were made by then.
LEMMA InternalKnown ==
  ASSUME ReconInv, NEW range
  PROVE  /\ IsFiniteSet(DOMAIN InternalMap(range))
         /\ \A pi \in DOMAIN InternalMap(range) :
              /\ \E i \in DOMAIN made : made[i].pi = pi
              /\ \E k \in PaymentsOf(pi) : RowInRange(k, range)
<1> DEFINE inRange == {x \in IdemKeys : RowInRange(x, range)}
           ids == {payments[k].external_id : k \in inRange}
           idOf == [k \in inRange |-> payments[k].external_id]
<1>1. DOMAIN InternalMap(range) = ids
  BY DEF InternalMap
<1>2. IsFiniteSet(inRange)
  BY KeysAreFinite, FS_Subset
<1>3. idOf \in Surjection(inRange, ids)
  BY DEF Surjection
<1>4. IsFiniteSet(ids)
  BY <1>2, <1>3, FS_Surjection
<1>5. ASSUME NEW pi \in ids
      PROVE  /\ \E i \in DOMAIN made : made[i].pi = pi
             /\ \E k \in PaymentsOf(pi) : RowInRange(k, range)
  <2>1. PICK k \in inRange : payments[k].external_id = pi
    BY <1>5
  <2>2. payments[k] \in PaymentRows /\ RowSound(payments[k])
    BY <2>1 DEF RowInRange, ReconInv, Inv, TypeOK, DatabaseTypeOK, StatusSound
  <2>3. pi \in Intents /\ intents[pi] # None
    BY <2>1, <2>2 DEF PaymentRows, RowSound
  <2>4. k \in PaymentsOf(pi) /\ RowInRange(k, range)
    BY <2>1 DEF PaymentsOf, RowInRange
  <2> QED
    BY <2>3, <2>4 DEF ReconInv, IntentsListed
<1> QED
  BY <1>1, <1>4, <1>5

\* What a step of the run leaves alone.
LEMMA RunSteps ==
  ASSUME ReconInv, UNCHANGED <<vars, timeVars>>
  PROVE  /\ Inv' /\ IntentsListed'
         /\ \A pi : PaymentsOf(pi)' = PaymentsOf(pi)
         /\ \A k, range : RowInRange(k, range)' = RowInRange(k, range)
         /\ \A i, range : ListedInRange(i, range)' = ListedInRange(i, range)
<1>1. Inv'
  BY InvNext DEF ReconInv
<1>2. UNCHANGED <<payments, intents, created_at, made>>
  BY DEF vars, dbVars, stripeVars, timeVars
<1> QED
  BY <1>1, <1>2 DEF ReconInv, IntentsListed, PaymentsOf, RowInRange, ListedInRange

LEMMA StartKeepsRecon ==
  ASSUME ReconInv, NEW range \in Ranges, StartRun(range)
  PROVE  ReconInv'
<1>1. UNCHANGED <<vars, timeVars>>
  BY DEF StartRun
<1>2. UNCHANGED <<clock, created_at, made>>
  BY <1>1 DEF timeVars
<1>3. recon' = [pc |-> "listing", range |-> range, internal |-> InternalMap(range),
                provider |-> << >>, cursor |-> 0, known |-> Len(made), report |-> None]
  BY DEF StartRun, NoRun
<1>4. /\ recon'.pc = "listing" /\ recon'.range = range
      /\ recon'.internal = InternalMap(range) /\ recon'.provider = << >>
      /\ recon'.cursor = 0 /\ recon'.known = Len(made)
      /\ RecordShape'
  BY <1>3 DEF RecordShape
<1>5. Len(made) \in Nat /\ DOMAIN made = 1 .. Len(made)
  BY DEF ReconInv, ReconTypeOK
<1>6. ReconTypeOK'
  <2>1. IsFiniteSet(DOMAIN << >>)
    BY FS_EmptySet
  <2> QED
    BY <1>2, <1>4, <1>5, <2>1, InternalKnown DEF ReconInv, ReconTypeOK
<1>7. SnapshotKnown'
  BY <1>1, <1>2, <1>4, <1>5, InternalKnown, RunSteps DEF SnapshotKnown
<1>8. ListingCovers' /\ ReportIsOf'
  BY <1>4 DEF ListingCovers, Covered, ReportIsOf
<1> QED
  BY <1>1, <1>6, <1>7, <1>8, RunSteps DEF ReconInv

\* A page adds its intents to the map and takes none away.
LEMMA PageShown ==
  ASSUME ReconInv
  PROVE  /\ IsFiniteSet(DOMAIN WithPage)
         /\ DOMAIN recon.provider \subseteq DOMAIN WithPage
         /\ \A i \in Page : made[i].pi \in DOMAIN WithPage
<1> DEFINE shown == {made[i].pi : i \in Page}
           shownAt == [i \in Page |-> made[i].pi]
<1>1. DOMAIN WithPage = shown \cup DOMAIN recon.provider
  BY DEF WithPage
<1>2. IsFiniteSet(Page)
  <2>1. DOMAIN made = 1 .. Len(made) /\ Len(made) \in Nat
    BY DEF ReconInv, ReconTypeOK
  <2>2. IsFiniteSet(DOMAIN made)
    BY <2>1, FS_Interval
  <2>3. Page \in SUBSET DOMAIN made
    BY DEF Page, Remaining
  <2> QED
    BY <2>2, <2>3, FS_Subset
<1>3. shownAt \in Surjection(Page, shown)
  BY DEF Surjection
<1>4. IsFiniteSet(shown)
  BY <1>2, <1>3, FS_Surjection
<1>5. IsFiniteSet(shown \cup DOMAIN recon.provider)
  BY <1>4, FS_Union DEF ReconInv, ReconTypeOK
<1>6. \A i \in Page : made[i].pi \in shown
  OBVIOUS
<1> HIDE DEF shown
<1> QED
  BY <1>1, <1>5, <1>6

\* Nothing that remains is skipped: it is on the page or older than all of it.
LEMMA NothingSkipped ==
  ASSUME ReconInv, NEW i \in Remaining \ Page, NEW last \in Page
  PROVE  i < last
<1> DEFINE newer(x) == {j \in Remaining : j > x}
<1>1. DOMAIN made \subseteq Nat /\ IsFiniteSet(DOMAIN made)
  <2>1. DOMAIN made = 1 .. Len(made) /\ Len(made) \in Nat
    BY DEF ReconInv, ReconTypeOK
  <2> QED
    BY <2>1, FS_Interval
<1>2. i \in Nat /\ last \in Nat /\ Remaining \subseteq Nat /\ IsFiniteSet(Remaining)
  BY <1>1, FS_Subset DEF Page, Remaining
<1>3. Cardinality(newer(last)) < PageSize /\ ~(Cardinality(newer(i)) < PageSize)
  BY DEF Page
<1>4. ASSUME i > last
      PROVE  FALSE
  <2>0. \A j \in Remaining : j > i => j > last
    BY <1>2, <1>4
  <2>1. newer(i) \in SUBSET newer(last) /\ newer(last) \in SUBSET Remaining
    BY <2>0
  <2>2. IsFiniteSet(newer(last))
    BY <1>2, <2>1, FS_Subset
  <2>3. Cardinality(newer(i)) <= Cardinality(newer(last))
    BY <2>1, <2>2, FS_Subset
  <2>4. Cardinality(newer(i)) \in Nat /\ Cardinality(newer(last)) \in Nat
    BY <2>1, <2>2, FS_Subset, FS_CardinalityType
  <2> HIDE DEF newer
  <2> QED
    BY <1>3, <2>3, <2>4, PageSizeIsPositive
<1> QED
  BY <1>2, <1>4

LEMMA StepKeepsRecon ==
  ASSUME ReconInv, ReconStep \/ FailRun
  PROVE  ReconInv'
<1>1. UNCHANGED <<vars, timeVars>>
  BY DEF ReconStep, FailRun, ListPage, ListLastPage, StoreReport
<1>2. UNCHANGED <<clock, created_at, made>>
  BY <1>1 DEF timeVars
<1>0. RecordShape /\ DOMAIN made = 1 .. Len(made) /\ Len(made) \in Nat
  BY DEF ReconInv, ReconTypeOK
<1>3. CASE ListPage
  <2>1. PICK last \in Page :
          recon' = [recon EXCEPT !.provider = WithPage, !.cursor = last]
    BY <1>3 DEF ListPage
  <2>2. /\ recon'.pc = recon.pc /\ recon.pc = "listing"
        /\ recon'.range = recon.range /\ recon'.known = recon.known
        /\ recon'.internal = recon.internal /\ recon'.provider = WithPage
        /\ recon'.cursor = last /\ RecordShape'
    BY <1>0, <1>3, <2>1 DEF ListPage, RecordShape
  <2>3. last \in Nat
    BY <1>0 DEF Page, Remaining
  <2>4. ReconTypeOK'
    BY <1>2, <2>2, <2>3, PageShown DEF ReconInv, ReconTypeOK
  <2>5. SnapshotKnown'
    BY <1>1, <1>2, <2>2, RunSteps DEF ReconInv, SnapshotKnown
  <2>6. ListingCovers'
    <3> SUFFICES ASSUME NEW i \in 1 .. recon.known, ListedInRange(i, recon.range)
                 PROVE  made[i].pi \in DOMAIN WithPage \/ i < last
      BY <1>1, <1>2, <2>2, RunSteps DEF ListingCovers, Covered
    <3>1. Covered(i)
      BY <2>2 DEF ReconInv, ListingCovers
    <3>2. i \in DOMAIN made
      BY <1>0 DEF ReconInv, ReconTypeOK
    <3>3. made[i].pi \in DOMAIN recon.provider \/ i \in Remaining
      BY <3>1, <3>2 DEF Covered, Remaining
    <3> QED
      BY <3>3, PageShown, NothingSkipped
  <2>7. ReportIsOf'
    BY <2>2 DEF ReportIsOf
  <2> QED
    BY <1>1, <2>4, <2>5, <2>6, <2>7, RunSteps DEF ReconInv
<1>4. CASE ListLastPage
  <2>2. /\ recon'.pc = "listed" /\ recon.pc = "listing"
        /\ recon'.range = recon.range /\ recon'.known = recon.known
        /\ recon'.internal = recon.internal /\ recon'.provider = WithPage
        /\ recon'.cursor = recon.cursor /\ RecordShape'
    BY <1>0, <1>4 DEF ListLastPage, RecordShape
  <2>4. ReconTypeOK'
    BY <1>2, <2>2, PageShown DEF ReconInv, ReconTypeOK
  <2>5. SnapshotKnown'
    BY <1>1, <1>2, <2>2, RunSteps DEF ReconInv, SnapshotKnown
  <2>6. ListingCovers'
    <3> SUFFICES ASSUME NEW i \in 1 .. recon.known, ListedInRange(i, recon.range)
                 PROVE  made[i].pi \in DOMAIN WithPage
      BY <1>1, <1>2, <2>2, RunSteps DEF ListingCovers, Covered
    <3>1. Covered(i)
      BY <2>2 DEF ReconInv, ListingCovers
    <3>2. i \in DOMAIN made
      BY <1>0 DEF ReconInv, ReconTypeOK
    <3>3. made[i].pi \in DOMAIN recon.provider \/ i \in Remaining
      BY <3>1, <3>2 DEF Covered, Remaining
    <3> QED
      BY <1>4, <3>3, PageShown DEF ListLastPage
  <2>7. ReportIsOf'
    BY <2>2 DEF ReportIsOf
  <2> QED
    BY <1>1, <2>4, <2>5, <2>6, <2>7, RunSteps DEF ReconInv
<1>5. CASE StoreReport \/ FailRun
  <2>1. recon.pc \in {"listing", "listed"} /\ recon'.pc \in {"stored", "failed"}
    BY <1>0, <1>5 DEF StoreReport, FailRun, RecordShape
  <2>2. /\ recon'.range = recon.range /\ recon'.known = recon.known
        /\ recon'.internal = recon.internal /\ recon'.provider = recon.provider
        /\ recon'.cursor = recon.cursor /\ RecordShape'
        /\ recon'.pc = "stored" => /\ recon.pc = "listed"
                                   /\ recon'.report = ReportOf(recon.internal, recon.provider)
    BY <1>0, <1>5 DEF StoreReport, FailRun, RecordShape
  <2>4. ReconTypeOK'
    BY <1>2, <2>1, <2>2 DEF ReconInv, ReconTypeOK
  <2>5. SnapshotKnown'
    BY <1>1, <1>2, <2>2, RunSteps DEF ReconInv, SnapshotKnown
  <2>6. ListingCovers'
    BY <1>1, <1>2, <2>1, <2>2, RunSteps DEF ReconInv, ListingCovers, Covered
  <2>7. ReportIsOf'
    BY <2>2 DEF ReportIsOf
  <2> QED
    BY <1>1, <2>4, <2>5, <2>6, <2>7, RunSteps DEF ReconInv
<1> QED
  BY <1>3, <1>4, <1>5 DEF ReconStep

LEMMA ReconInvNext == ReconInv /\ [ReconNext]_<<vars, reconVars>> => ReconInv'
<1> SUFFICES ASSUME ReconInv, [ReconNext]_<<vars, reconVars>>
             PROVE  ReconInv'
  OBVIOUS
<1>1. CASE UNCHANGED <<vars, reconVars>>
  <2>1. UNCHANGED <<vars, timeVars>> /\ recon' = recon /\ UNCHANGED <<clock, created_at, made>>
    BY <1>1 DEF reconVars, timeVars
  <2> QED
    BY <2>1, RunSteps
       DEF ReconInv, ReconTypeOK, RecordShape, SnapshotKnown, ListingCovers, Covered, ReportIsOf
<1> QED
  BY <1>1, GatewayKeepsRecon, TickKeepsRecon, StartKeepsRecon, StepKeepsRecon DEF ReconNext

LEMMA ReconInductive == ReconSpec => []ReconInv
BY ReconInvInit, ReconInvNext, PTL DEF ReconSpec
-------------------------------------------------------------------------------
\* Whatever a report counts as matched is: discrepancies of one payment, and
\* payments of one side, only ever lower the count.
THEOREM MatchedSound == ReconSpec => []MatchedNeverOverstated
<1>1. ReconInv => MatchedNeverOverstated
  BY MatchedBounded
     DEF ReconInv, ReconTypeOK, ReportIsOf, ReportOf, MatchedNeverOverstated
<1> QED
  BY <1>1, ReconInductive, PTL

\* A payment is reported missing at the provider only if its intent was made in
\* a second outside the range, with any pages, clocks and concurrent creations.
THEOREM MissingIsBoundary == ReconSpec => []MissingProviderIsBoundary
<1>1. ASSUME ReconInv, recon.pc = "stored", NEW pi \in Intents,
             <<"missing_provider", pi>> \in recon.report.discrepancies
      PROVE  \E i \in DOMAIN made : made[i].pi = pi /\ ~ListedInRange(i, recon.range)
  <2>1. <<"missing_provider", pi>> \in DiscrepanciesOf(recon.internal, recon.provider)
    BY <1>1 DEF ReconInv, ReportIsOf, ReportOf
  <2>2. pi \in DOMAIN recon.internal \ DOMAIN recon.provider
    BY <2>1 DEF DiscrepanciesOf, MissingProvider, MissingInternal, Mismatches, Compared
  <2>3. PICK i \in 1 .. recon.known : made[i].pi = pi
    BY <1>1, <2>2 DEF ReconInv, SnapshotKnown
  <2>4. ~ListedInRange(i, recon.range)
    BY <1>1, <2>2, <2>3 DEF ReconInv, ListingCovers, Covered
  <2>5. i \in DOMAIN made
    BY <1>1 DEF ReconInv, ReconTypeOK
  <2> QED
    BY <2>3, <2>4, <2>5
<1>2. ReconInv => MissingProviderIsBoundary
  BY <1>1 DEF MissingProviderIsBoundary
<1> QED
  BY <1>2, ReconInductive, PTL

\* No intent that a crash left without a row escapes the report of its range.
THEOREM LostCreationsFound == ReconSpec => []LostCreationsReported
<1>1. ASSUME ReconInv, recon.pc = "stored", NEW i \in DOMAIN made, i <= recon.known,
             ListedInRange(i, recon.range),
             \A k \in PaymentsOf(made[i].pi) : ~RowInRange(k, recon.range)
      PROVE  <<"missing_internal", made[i].pi>> \in recon.report.discrepancies
  <2>1. i \in 1 .. recon.known
    BY <1>1 DEF ReconInv, ReconTypeOK
  <2>2. made[i].pi \in DOMAIN recon.provider
    BY <1>1, <2>1 DEF ReconInv, ListingCovers, Covered
  <2>3. made[i].pi \notin DOMAIN recon.internal
    BY <1>1 DEF ReconInv, SnapshotKnown
  <2>4. recon.report.discrepancies = DiscrepanciesOf(recon.internal, recon.provider)
    BY <1>1 DEF ReconInv, ReportIsOf, ReportOf
  <2> QED
    BY <2>2, <2>3, <2>4 DEF DiscrepanciesOf, MissingInternal
<1>2. ReconInv => LostCreationsReported
  BY <1>1 DEF LostCreationsReported
<1> QED
  BY <1>2, ReconInductive, PTL
===============================================================================
