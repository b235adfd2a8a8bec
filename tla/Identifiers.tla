----------------------------- MODULE Identifiers -----------------------------
(***************************************************************************)
(* The names the gateway and the provider exchange.                        *)
(***************************************************************************)
EXTENDS Integers, FiniteSets

CONSTANTS
  IdemKeys,    \* Idempotency-Key header values
  Intents,     \* PaymentIntent ids
  RefundIds,   \* Stripe refund ids
  Amounts,     \* amounts a client may ask for, in minor units
  None         \* NULL, "no row", "no answer"

\* CreatePaymentRequest takes amounts greater than zero only.
ASSUME AmountsArePositive == Amounts \subseteq Nat \ {0}

ASSUME NoneIsNoValue ==
  /\ None \notin IdemKeys
  /\ None \notin Intents
  /\ None \notin RefundIds
  /\ None \notin Nat

\* Columns of 255 characters hold them.
ASSUME KeysAreFinite == IsFiniteSet(IdemKeys) /\ IsFiniteSet(RefundIds)

ASSUME ObjectsAreDistinct == Intents \cap RefundIds = {}
===============================================================================
