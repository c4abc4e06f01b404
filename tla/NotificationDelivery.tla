------------------------- MODULE NotificationDelivery -------------------------
(***************************************************************************)
(* What the wallet promises about the notifications its KERIA agent keeps  *)
(* for it: at-least-once delivery.  A notification may be acknowledged     *)
(* (put behind the durable marker) only when it was delivered or is owed,  *)
(* an owed one is forgotten only when it was delivered, and the wallet may *)
(* at any time fall back to having acknowledged nothing.                   *)
(*                                                                         *)
(* This is the contract of keriaNotificationService.ts for the rest of the *)
(* wallet; NotificationPolling, with its cursor, batches, retry queue and  *)
(* restarts, is shown to implement it.                                     *)
(***************************************************************************)
EXTENDS Integers

CONSTANT Notes          \* identities of the notifications

VARIABLES
  published,            \* notifications the agent has issued so far
  withdrawn,            \* those it no longer keeps
  delivered,            \* those processed successfully at least once
  owed,                 \* those the wallet has promised to process again
  acknowledged          \* those behind the durable marker

contractVars == <<published, withdrawn, delivered, owed, acknowledged>>

Init ==
  /\ published = {}
  /\ withdrawn = {}
  /\ delivered = {}
  /\ owed = {}
  /\ acknowledged = {}

Publish(n) ==
  /\ n \notin published
  /\ published' = published \union {n}
  /\ UNCHANGED <<withdrawn, delivered, owed, acknowledged>>

Withdraw(n) ==
  /\ n \in published
  /\ withdrawn' = withdrawn \union {n}
  /\ UNCHANGED <<published, delivered, owed, acknowledged>>

Deliver(n) ==
  /\ n \in published
  /\ delivered' = delivered \union {n}
  /\ UNCHANGED <<published, withdrawn, owed, acknowledged>>

Owe(n) ==
  /\ n \in published
  /\ owed' = owed \union {n}
  /\ UNCHANGED <<published, withdrawn, delivered, acknowledged>>

Settle(n) ==
  /\ n \in owed
  /\ n \in delivered
  /\ owed' = owed \ {n}
  /\ UNCHANGED <<published, withdrawn, delivered, acknowledged>>

\* Everything newly acknowledged and still kept is delivered or owed.
Acknowledge(s) ==
  /\ s \subseteq published
  /\ acknowledged \subseteq s
  /\ (s \ withdrawn) \subseteq (delivered \union owed)
  /\ acknowledged' = s
  /\ UNCHANGED <<published, withdrawn, delivered, owed>>

Rewind ==
  /\ acknowledged' = {}
  /\ UNCHANGED <<published, withdrawn, delivered, owed>>

Next ==
  \/ \E n \in Notes : Publish(n) \/ Withdraw(n) \/ Deliver(n) \/ Owe(n) \/ Settle(n)
  \/ \E s \in SUBSET Notes : Acknowledge(s)
  \/ Rewind

Spec == Init /\ [][Next]_contractVars
=============================================================================
