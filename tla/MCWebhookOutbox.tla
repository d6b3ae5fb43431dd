--------------------------- MODULE MCWebhookOutbox ---------------------------
(* WebhookOutbox with a callback and a sample, a schedule of two waits and  *)
(* two dispatchers.                                                         *)
EXTENDS WebhookOutbox, TLC

CONSTANTS callback, sample, d1, d2
MCRows == {callback, sample}
MCDispatcher == {d1, d2}
=============================================================================
