----------------------------- MODULE AwaitCall ------------------------------
(***************************************************************************)
(* What waiting for a transaction promises, with none of its requests: a   *)
(* world that is or is not whole (the transaction and all its relays are   *)
(* confirmed) moves by itself, and a call looks on until it gives one      *)
(* verdict, which it never takes back.  However many requests the answer   *)
(* True took, it describes the single moment at which it is given; False   *)
(* means that the caller's time is over, and nothing about the world.      *)
(***************************************************************************)

VARIABLES
  verdict,   \* of the call
  whole,     \* everything waited for is confirmed now
  calm,      \* nothing confirmed was taken back since the call last looked
  late       \* the caller's timeout is over

vars == <<verdict, whole, calm, late>>

Verdicts == {"undecided", "true", "false", "raised"}

Init == verdict = "undecided" /\ whole \in BOOLEAN /\ calm = TRUE /\ late = FALSE

(* Time passes, transactions are confirmed, the call looks again.  What is *)
(* whole comes apart only by a reorganisation.                             *)
World ==
  /\ whole' \in BOOLEAN /\ calm' \in BOOLEAN /\ late' \in BOOLEAN
  /\ whole /\ ~ whole' => ~ calm'
  /\ UNCHANGED verdict

AnswerTrue ==
  /\ verdict = "undecided"
  /\ calm => whole
  /\ verdict' = "true"
  /\ UNCHANGED <<whole, calm, late>>

AnswerFalse ==
  /\ verdict = "undecided"
  /\ late
  /\ verdict' = "false"
  /\ UNCHANGED <<whole, calm, late>>

Raise ==
  /\ verdict = "undecided"
  /\ verdict' = "raised"
  /\ UNCHANGED <<whole, calm, late>>

Next == World \/ AnswerTrue \/ AnswerFalse \/ Raise

Spec == Init /\ [][Next]_vars

=============================================================================
