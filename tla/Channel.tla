------------------------------- MODULE Channel -------------------------------
(***************************************************************************)
(* One channel instance as the gateway and the bridge run it together: the *)
(* start and stop requests of main.py, the status callbacks and their      *)
(* handler, the worker's reconciliation (channel_health.py) and the        *)
(* forwarding of messages (receive_channel_message).                       *)
(*                                                                         *)
(* One start or stop request is under way at a time.  Callbacks may be     *)
(* handled late, in any order and after the bridge has given up or has     *)
(* restarted.                                                              *)
(***************************************************************************)
EXTENDS Bridge

CONSTANTS MaxRequests,    \* start and stop requests
          MaxCrashes      \* crashes of the bridge

ASSUME ChannelAssumption == MaxRequests \in Nat /\ MaxCrashes \in Nat

VARIABLES row,            \* the instance's row, status_revision and alerts apart
          accepted,       \* the messages that the gateway has stored
          api,            \* the start or stop request under way
          forgotten,      \* accepted messages of sessions that have expired
          requests, crashes

gatewayVars == <<row, accepted, api, forgotten, requests>>
chanVars == <<vars, gatewayVars, crashes>>

-----------------------------------------------------------------------------

\* writes: the columns in which the row that a stop has loaded differs from what it assigns.
Request == [op : {"start", "stop"}, pc : {"idle", "calling", "answered", "failed"},
            writes : SUBSET {"desired", "status"}, answer : BridgeStatus]
NoRequest == [op |-> "stop", pc |-> "idle", writes |-> {}, answer |-> "offline"]

ChannelTypeOK == /\ TypeOK
                 /\ row \in InstanceRow
                 /\ accepted \subseteq Messages /\ forgotten \subseteq Messages
                 /\ api \in Request
                 /\ requests \in 0..MaxRequests /\ crashes \in 0..MaxCrashes

ChannelInit == /\ Init
               /\ row = NewInstance
               /\ accepted = {} /\ forgotten = {}
               /\ api = NoRequest
               /\ requests = 0 /\ crashes = 0

-----------------------------------------------------------------------------
(* _change_channel_instance_status: intent first, then the bridge, then    *)
(* what the bridge has answered.                                           *)

ApiStart ==
    /\ api.pc = "idle" /\ requests < MaxRequests
    /\ requests' = requests + 1
    /\ row' = [row EXCEPT !.desired = TRUE, !.status = "logging_in"]
    /\ api' = [NoRequest EXCEPT !.op = "start", !.pc = "calling"]
    /\ UNCHANGED <<vars, accepted, forgotten, crashes>>

ApiStop ==
    /\ api.pc = "idle" /\ requests < MaxRequests
    /\ requests' = requests + 1
    /\ api' = [NoRequest EXCEPT !.pc = "calling",
                 !.writes = {c \in {"desired", "status"} : row[c] # NewInstance[c]}]
    /\ UNCHANGED <<vars, row, accepted, forgotten, crashes>>

\* The bridge does it, or does it and the answer is lost, or cannot be reached; a start
\* also fails when start_login does.
BridgeCalled ==
    /\ api.pc = "calling"
    /\ \/ /\ api.op = "start" /\ Start
          /\ api' \in {[api EXCEPT !.pc = "answered", !.answer = StartAnswer],
                       [api EXCEPT !.pc = "failed"]}
       \/ /\ api.op = "stop" /\ Stop
          /\ api' \in {[api EXCEPT !.pc = "answered"], [api EXCEPT !.pc = "failed"]}
       \/ /\ ~up \/ (api.op = "start" /\ ~Running /\ ~stored.exists)
          /\ api' = [api EXCEPT !.pc = "failed"]
          /\ UNCHANGED vars
    /\ UNCHANGED <<row, accepted, forgotten, requests, crashes>>

\* The session still has the attributes of before the call and writes what differs.
ApiCommit ==
    /\ api.pc = "answered"
    /\ row' = IF api.op = "start"
              THEN [row EXCEPT !.status = IF api.answer = "online" THEN "online" ELSE @]
              ELSE [c \in {"desired", "status"} |->
                       IF c \in api.writes THEN NewInstance[c] ELSE row[c]]
    /\ api' = NoRequest
    /\ UNCHANGED <<vars, accepted, forgotten, requests, crashes>>

ApiFailed ==
    /\ api.pc = "failed"
    /\ row' = [row EXCEPT !.desired = @ \/ api.op = "start", !.status = "error"]
    /\ api' = NoRequest
    /\ UNCHANGED <<vars, accepted, forgotten, requests, crashes>>

-----------------------------------------------------------------------------
(* receive_channel_status and reconcile_channel_instance, one step each.   *)
(* An answer that ages while the reconciliation waits for it has the       *)
(* effect of a callback that is handled late.                              *)

ApplyCall(c) ==
    /\ row' = [row EXCEPT !.status = PublicStatus(c.status)]
    /\ calls' = calls \ {c}
    /\ \/ c.by # Nobody /\ Answered(c.by)
       \/ c.by = Nobody /\ UNCHANGED <<up, cur, objs, tasks, stored, cursor, mailbox, overlapped>>
    /\ UNCHANGED <<accepted, api, forgotten, requests, crashes>>

Reconcile ==
    /\ row.desired
    /\ row' = [row EXCEPT !.status = IF up THEN PublicStatus(Status) ELSE "reconnecting"]
    /\ UNCHANGED <<vars, accepted, api, forgotten, requests, crashes>>

-----------------------------------------------------------------------------
(* receive_channel_message refuses unless the row says online.             *)

Accept(t) ==
    /\ row.status = "online" /\ Handled(t)
    /\ accepted' = accepted \cup {Next1(tasks[t].todo)}
    /\ UNCHANGED <<row, api, forgotten, requests, crashes>>

\* Faulty: the status code of the answer is not looked at.
RefuseUnseen(t) ==
    /\ row.status # "online" /\ Handled(t)
    /\ UNCHANGED <<gatewayVars, crashes>>

Refuse(t) ==
    /\ row.status # "online" /\ tasks[t].pc = "forward" /\ NotForwarded(t)
    /\ UNCHANGED <<gatewayVars, crashes>>

-----------------------------------------------------------------------------

\* What the bridge does by itself.
BridgeStep(t) ==
    /\ \/ LoginConfirmed(t) \/ LoginBroken(t) \/ QrExpired(t) \/ Rotate(t) \/ RotateBroken(t)
       \/ Unanswered(t) \/ Fetch(t) \/ PollBroken(t) \/ Forwarded(t) \/ NotForwarded(t)
    /\ UNCHANGED <<gatewayVars, crashes>>

Expire(t) ==
    /\ SessionExpired(t)
    /\ forgotten' = forgotten \cup accepted
    /\ UNCHANGED <<row, accepted, api, requests, crashes>>

Environment ==
    \/ Arrive /\ UNCHANGED <<gatewayVars, crashes>>
    \/ Crash /\ crashes < MaxCrashes /\ crashes' = crashes + 1 /\ UNCHANGED gatewayVars
    \/ Boot /\ UNCHANGED <<gatewayVars, crashes>>

ChannelNext ==
    \/ ApiStart \/ ApiStop \/ BridgeCalled \/ ApiCommit \/ ApiFailed
    \/ \E c \in calls : ApplyCall(c)
    \/ Reconcile
    \/ \E t \in Tasks : Accept(t) \/ Refuse(t) \/ BridgeStep(t) \/ Expire(t)
    \/ Environment

ChannelSpec == ChannelInit /\ [][ChannelNext]_chanVars

-----------------------------------------------------------------------------
(* Properties.  overlapped is true after a rotation whose callback to the  *)
(* gateway outlived the login it had asked for: the old task's "finally"   *)
(* (runtime.py:187-189) then marks the live session offline, and the next  *)
(* start adds a second one.  What depends on there being one session is    *)
(* claimed up to that.                                                     *)

\* The cursor that the bridge keeps passes only messages that the gateway has stored or that
\* cannot be read ("only when the gateway has accepted the whole batch", ilink_service.py:78).
CursorBehindGateway == \A m \in 1..cursor : m \in accepted \cup Unreadable

\* The channel keeps the promise of Inbox: nothing that has arrived is lost, whatever the
\* bridge's restarts, rotations and second sessions.
Promise == INSTANCE Inbox WITH arrived <- mailbox, taken <- accepted, passed <- cursor
InboxSpec == Promise!Spec

\* One session at a time polls an instance: a task arranges at most one successor and start()
\* none beside a live one (runtime.py:123, 287).
OneSession == ~overlapped => Cardinality(Monitors) <= 1

\* A message that the gateway has taken can be answered, also after a restart of the bridge:
\* its context token is in the session file before the message is forwarded (runtime.py:266-268)
\* and in every object made from it.
AcceptedCanBeAnswered ==
    ~overlapped => \A m \in accepted \ forgotten :
                     /\ stored.exists /\ m \in stored.tokens
                     /\ Status = "online" => Sendable(m)

\* After a stop the bridge runs no session and would restore none (runtime.py:326-341), whatever
\* reports, logins and messages were under way.
StoppedStaysStopped ==
    ~overlapped /\ ~row.desired /\ api.pc = "idle" =>
        ~Running /\ ~(stored.exists /\ stored.desired)

\* An instance that start() would leave alone has a task that works for it, unless a start_login
\* has failed: a status callback that fails cannot leave it without one (runtime.py:295).
NeverStranded ==
    Running /\ ~objs[cur].lost => \E t \in Live(cur) : tasks[t].pc \notin Reporting \ {"announce"}

=============================================================================
