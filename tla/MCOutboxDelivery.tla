-------------------------- MODULE MCOutboxDelivery --------------------------
(***************************************************************************)
(* Small outboxes.  In the first, event 1 has an action with a dedup key   *)
(* and one without, event 2 is the transition of event 1 executed again    *)
(* after a rollback (the key is the same), and event 3 cannot be handled.  *)
(***************************************************************************)
EXTENDS OutboxDelivery, TLC

MCMix == (1 :> {"exit", "default"}) @@ (2 :> {"exit"}) @@ (3 :> {})

\* Three events with nothing in common.
MCApart == (1 :> {"exit", "enter"}) @@ (2 :> {"default"}) @@ (3 :> {"other"})

\* Two with nothing in common.
MCPair == (1 :> {"exit"}) @@ (2 :> {"default"})
=============================================================================
