---------------------------- MODULE MCStripeWebhook ----------------------------
(* A small instance of StripeWebhook for TLC. *)
EXTENDS StripeWebhook

New == [status |-> 0, rest |-> 0]
=============================================================================
