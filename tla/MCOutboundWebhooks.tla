-------------------------- MODULE MCOutboundWebhooks --------------------------
(* Model values of the instance of OutboundWebhooks. *)
EXTENDS OutboundWebhooks

CONSTANTS h1, h2, j1, w1, w2
=============================================================================
