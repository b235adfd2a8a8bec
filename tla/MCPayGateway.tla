----------------------------- MODULE MCPayGateway -----------------------------
(***************************************************************************)
(* PayGateway for TLC.  Requests, deliveries, intents, refunds and the     *)
(* keys no payment is created with are interchangeable: no definition      *)
(* names one of them, orders them or chooses among them, but for sums and  *)
(* for the only refund row of an id.                                       *)
(***************************************************************************)
EXTENDS Expectations, Invariants, Refinements, FiniteSetsExt

\* The number of units is the sum.
ASSUME TotalsAreSums ==
  \A terms \in SUBSET {1, 2, 3} : \A f \in [terms -> 0 .. 3] :
    Total(f) = MapThenSumSet(LAMBDA x : f[x], terms)

Symmetry == UNION {Permutations(S) : S \in {Requests, Workers, Intents, RefundIds,
                                            IdemKeys \ PayKeys}}
===============================================================================
