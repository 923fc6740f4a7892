------------------------ MODULE MCWebhookAutomations ------------------------
(***************************************************************************)
(* Instances of WebhookAutomations for TLC: the constants are model        *)
(* values, given in the configurations.                                    *)
(***************************************************************************)
EXTENDS WebhookAutomations
=============================================================================
