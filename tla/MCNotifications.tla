-------------------------- MODULE MCNotifications --------------------------
(* Notifications for a provider that promises nothing.                      *)
EXTENDS Notifications

Legacy == {[durable |-> FALSE, idempotent |-> FALSE, reconcilable |-> FALSE]}
=============================================================================
