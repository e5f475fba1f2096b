----------------------------- MODULE ChannelRow -----------------------------
(***************************************************************************)
(* The states of a channel instance, as the bridge names them and as the   *)
(* gateway's row does.                                                     *)
(***************************************************************************)

BridgeStatus == {"pending_login", "online", "offline", "error"}

RowStatus == {"offline", "logging_in", "online", "error", "reconnecting"}

\* Faulty: the bridge's word is stored as it is.
PublicStatusRaw(status) == status

PublicStatus(status) == IF status = "pending_login" THEN "logging_in" ELSE status

\* The columns desired_running and status.
InstanceRow == [desired : BOOLEAN, status : RowStatus]
NewInstance == [desired |-> FALSE, status |-> "offline"]

=============================================================================
