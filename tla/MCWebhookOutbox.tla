-------------------------- MODULE MCWebhookOutbox --------------------------
(* Two rows, batches of one, three attempts, and threads that end before   *)
(* their lease does: the bounds are in the cfg file.                       *)
EXTENDS WebhookOutbox
=============================================================================
