--------------------------- MODULE MCSubscription ----------------------------
(***************************************************************************)
(* Two subscriptions under two thread identities or one.                   *)
(***************************************************************************)
EXTENDS Subscription

=============================================================================
