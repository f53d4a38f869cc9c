--------------------------- MODULE MCWebhookDelivery ---------------------------
(***************************************************************************)
(* Instances of WebhookDelivery for TLC: a good endpoint and one whose URL *)
(* cannot be used, and two events of which one interests both.             *)
(***************************************************************************)
EXTENDS WebhookDelivery

CONSTANTS good, bad, e1, e2

MCEndpoints  == {good, bad}
MCUnusable   == {bad}
MCEvents     == {e1, e2}
MCSubscribed == {<<good, e1>>, <<bad, e1>>, <<good, e2>>}
=============================================================================
