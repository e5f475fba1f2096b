----------------------------- MODULE Completion -----------------------------
(***************************************************************************)
(* How one message is answered by a model (services._complete_ai with      *)
(* model_routing.py and providers.py): which line it is sent on, when it   *)
(* changes to another, and how the tools the model asks for are run.       *)
(*                                                                         *)
(* A step runs from one await to the next.  The administrator's changes to *)
(* the model groups come in between: the routes are read again for every   *)
(* call.  Of the routes of a group only their number is kept: they are     *)
(* tried in the order of the list, each once.                              *)
(***************************************************************************)
EXTENDS Integers

CONSTANTS Groups, NoGroup,
          MaxRoutes,      \* active routes of a group
          MaxToolCalls,   \* tool_max_calls
          MaxCalls,       \* tool calls in one answer
          MaxChanges      \* changes of the administrator

ASSUME CompletionAssumption ==
    /\ NoGroup \notin Groups
    /\ MaxRoutes \in Nat /\ MaxToolCalls \in Nat /\ MaxCalls \in Nat /\ MaxChanges \in Nat

VARIABLES message, platform, routing, pc, run, trail, ledger, changes

completionVars == <<message, platform, routing, pc, run, trail, ledger, changes>>

-----------------------------------------------------------------------------

\* byok: whether the user has chosen a provider of his own, and it is gone.  image: whether the
\* message is an image, and its file is lost.  group: the user's model group.  spent: his quota
\* of the day is used up.
AMessage == [byok : {"no", "yes", "gone"}, image : {"none", "shown", "lost"},
             group : Groups \cup {NoGroup}, spent : BOOLEAN]

\* Whether the fallback line, the key of the main line and tools are configured.
Platform == [fallback : BOOLEAN, key : BOOLEAN, tools : BOOLEAN]

\* The number of active routes of each group, and the enabled default group.
Routing == [serving : [Groups -> 0..MaxRoutes], default : Groups \cup {NoGroup}]

Lines == {"group", "own", "main", "vision", "fallback"}

\* grouped: use_model_group, target: selected_group_id, line: the active provider, onFallback:
\* using_fallback, hit: fallback_hit, untried: the routes still to try, calls: the tool calls
\* of the last answer that are still to run, executed: tool_call_count.
Run == [grouped : BOOLEAN, target : Groups \cup {NoGroup}, line : Lines \ {"group"},
        onFallback : BOOLEAN, hit : BOOLEAN, untried : 0..MaxRoutes,
        calls : 0..MaxCalls, executed : 0..MaxToolCalls]

Awaiting == {"route", "direct", "switched", "limit", "final"}
Unbooked == {"answered", "limited", "finished"}
Ended == {"replied", "failed"}

\* Kept for the properties only.  trail: the lines the message was sent on, and whether it was
\* sent on another one after the fallback line.  owed: answers that were paid for and have no
\* usage record, empty: those of them that held neither a text nor a tool call, lost: those of
\* a process that died before it could write one.
Ledger == [owed : Nat, empty : Nat, lost : 0..1, audited : BOOLEAN]

CompletionTypeOK ==
    /\ message \in AMessage /\ platform \in Platform /\ routing \in Routing
    /\ pc \in {"start", "round", "tools"} \cup Awaiting \cup Unbooked \cup Ended
    /\ run \in Run
    /\ trail \in [lines : SUBSET Lines, strayed : BOOLEAN]
    /\ ledger \in Ledger
    /\ changes \in 0..MaxChanges

CompletionInit ==
    /\ message \in AMessage /\ platform \in Platform /\ routing \in Routing
    /\ pc = "start"
    /\ run = [grouped |-> FALSE, target |-> NoGroup, line |-> "main", onFallback |-> FALSE,
              hit |-> FALSE, untried |-> 0, calls |-> 0, executed |-> 0]
    /\ trail = [lines |-> {}, strayed |-> FALSE]
    /\ ledger = [owed |-> 0, empty |-> 0, lost |-> 0, audited |-> FALSE]
    /\ changes = 0

-----------------------------------------------------------------------------

\* active_routes.
ActiveRoutes(group) ==
    IF group # NoGroup THEN routing.serving[group]
    ELSE IF routing.default # NoGroup THEN routing.serving[routing.default] ELSE 0

\* A group without routes gives way to the default group.
Selected == IF ActiveRoutes(message.group) > 0 THEN message.group ELSE NoGroup

Vision == message.image = "shown"
Grouped == message.byok = "no" /\ ActiveRoutes(Selected) > 0 /\ ~Vision

\* Faulty: a user with a provider of his own falls back too.
HasFallbackAnyone == platform.fallback

HasFallback == message.byok = "no" /\ platform.fallback

\* The early returns of _complete_ai: a fixed reply, and no model is asked.
Declined ==
    \/ message.image = "lost"
    \/ Vision /\ ~platform.fallback
    \/ /\ message.byok # "gone"
       /\ \/ ~Grouped /\ message.byok = "no" /\ ~platform.key /\ ~Vision
          \/ message.spent

\* resolve_provider raises when the user's own provider is gone.
Start ==
    /\ pc = "start"
    /\ pc' = IF Declined THEN "replied" ELSE IF message.byok = "gone" THEN "failed" ELSE "round"
    /\ run' = [run EXCEPT !.grouped = Grouped, !.target = Selected, !.onFallback = Vision,
                          !.line = IF Vision THEN "vision"
                                   ELSE IF message.byok = "yes" THEN "own" ELSE "main"]
    /\ UNCHANGED <<message, platform, routing, trail, ledger, changes>>

\* The request goes out on a line.
Send(line) == trail' = [lines |-> trail.lines \cup {line},
                        strayed |-> \/ trail.strayed
                                    \/ "fallback" \in trail.lines /\ line # "fallback"]

\* complete_with_routing raises when the group has no routes left.
AskGroup ==
    /\ run.grouped
    /\ IF ActiveRoutes(run.target) > 0 THEN pc' = "route" /\ Send("group")
                                       ELSE pc' = "failed" /\ UNCHANGED trail
    /\ run' = [run EXCEPT !.untried = ActiveRoutes(run.target)]

\* Faulty: every round starts on the main line.
AskAfresh ==
    /\ pc = "round"
    /\ \/ AskGroup
       \/ /\ ~run.grouped /\ pc' = "direct"
          /\ LET line == IF message.byok = "yes" THEN "own" ELSE IF Vision THEN "vision" ELSE "main"
             IN  run' = [run EXCEPT !.line = line] /\ Send(line)
    /\ UNCHANGED <<message, platform, routing, ledger, changes>>

\* A turn of the loop asks the model.
Ask ==
    /\ pc = "round"
    /\ \/ AskGroup
       \/ ~run.grouped /\ pc' = "direct" /\ Send(run.line) /\ UNCHANGED run
    /\ UNCHANGED <<message, platform, routing, ledger, changes>>

-----------------------------------------------------------------------------
(* What comes of a request: an answer with a number of tool calls (none: a *)
(* text), a temporary failure (_is_failover_error), or another one.  An    *)
(* answer that complete cannot use, be it paid for, is a failure.          *)

Answer(next) ==
    /\ \E calls \in 0..MaxCalls : run' = [run EXCEPT !.calls = calls]
    /\ ledger' = [ledger EXCEPT !.owed = @ + 1]
    /\ pc' = next
    /\ UNCHANGED trail

\* Nothing has come back, or something without a text and tool calls: complete raises an
\* exception then, which does not bear what the provider says it has used.
Failure == \/ UNCHANGED ledger
           \/ ledger' = [ledger EXCEPT !.owed = @ + 1, !.empty = @ + 1]

Raise == pc' = "failed" /\ Failure /\ UNCHANGED <<run, trail>>

\* complete_with_routing goes to the next route, and raises the last failure.
NextRoute ==
    /\ run' = [run EXCEPT !.untried = @ - 1]
    /\ IF run.untried > 1 THEN pc' = "route" /\ Send("group")
                          ELSE pc' = "failed" /\ UNCHANGED trail
    /\ Failure

\* The message is sent on the fallback line instead.
Switch(next) ==
    /\ HasFallback
    /\ run' = [run EXCEPT !.line = "fallback", !.onFallback = TRUE, !.hit = TRUE]
    /\ Send("fallback")
    /\ pc' = next
    /\ Failure

Settle ==
    /\ \/ pc = "route" /\ (Answer("answered") \/ NextRoute \/ Raise)
       \/ pc = "direct" /\ (Answer("answered") \/ Switch("switched") \/ Raise)
       \/ pc = "switched" /\ (Answer("answered") \/ Raise)
       \/ pc = "limit" /\ (Answer("limited") \/ Raise)
       \/ pc = "final" /\ (Answer("finished") \/ Raise)
    /\ UNCHANGED <<message, platform, routing, changes>>

-----------------------------------------------------------------------------
(* What is done with an answer.                                            *)

TooMany == run.executed + run.calls > MaxToolCalls

\* The usage record and, when the line has changed, the audit record are committed.
Book(audited) == ledger' = [ledger EXCEPT !.owed = @ - 1, !.audited = @ \/ audited]

\* The last request, without tools: whatever its answer, something is replied.
Finish == pc' = "final" /\ Send(run.line) /\ UNCHANGED run

\* The answer of a turn is over the limit: the fallback line is asked, or the last request made.
OverLimit ==
    IF HasFallback /\ ~run.onFallback
    THEN /\ run' = [run EXCEPT !.line = "fallback", !.onFallback = TRUE, !.hit = TRUE]
         /\ Send("fallback") /\ pc' = "limit"
    ELSE Finish

\* Faulty: what an answer over the limit has cost is not recorded.
TakeUnbooked ==
    /\ pc = "answered"
    /\ IF run.calls > 0 /\ platform.tools /\ TooMany THEN UNCHANGED ledger ELSE Book(run.hit)
    /\ \/ run.calls = 0 /\ pc' = "replied" /\ UNCHANGED <<run, trail>>
       \/ run.calls > 0 /\ ~platform.tools /\ pc' = "failed" /\ UNCHANGED <<run, trail>>
       \/ run.calls > 0 /\ platform.tools /\ TooMany /\ OverLimit
       \/ /\ run.calls > 0 /\ platform.tools /\ ~TooMany
          /\ pc' = "tools" /\ run' = [run EXCEPT !.hit = FALSE] /\ UNCHANGED trail
    /\ UNCHANGED <<message, platform, routing, changes>>

\* The answer of a turn.
Take ==
    /\ pc = "answered"
    /\ Book(run.hit)
    /\ \/ run.calls = 0 /\ pc' = "replied" /\ UNCHANGED <<run, trail>>
       \/ run.calls > 0 /\ ~platform.tools /\ pc' = "failed" /\ UNCHANGED <<run, trail>>
       \/ run.calls > 0 /\ platform.tools /\ TooMany /\ OverLimit
       \/ /\ run.calls > 0 /\ platform.tools /\ ~TooMany
          /\ pc' = "tools" /\ run' = [run EXCEPT !.hit = FALSE] /\ UNCHANGED trail
    /\ UNCHANGED <<message, platform, routing, changes>>

\* Faulty: the fallback line starts with a budget of its own.
TakeLimitedUnchecked ==
    /\ pc = "limited"
    /\ Book(TRUE)
    /\ pc' = IF run.calls = 0 THEN "replied" ELSE "tools"
    /\ UNCHANGED <<message, platform, routing, run, trail, changes>>

\* The answer of the fallback line that was asked at the limit.
TakeLimited ==
    /\ pc = "limited"
    /\ Book(TRUE)
    /\ \/ run.calls = 0 /\ pc' = "replied" /\ UNCHANGED <<run, trail>>
       \/ run.calls > 0 /\ TooMany /\ Finish
       \/ run.calls > 0 /\ ~TooMany /\ pc' = "tools" /\ UNCHANGED <<run, trail>>
    /\ UNCHANGED <<message, platform, routing, changes>>

TakeFinal ==
    /\ pc = "finished"
    /\ Book(FALSE)
    /\ pc' = "replied"
    /\ UNCHANGED <<message, platform, routing, run, trail, changes>>

\* Faulty: the calls of a turn are counted for that turn only.
ExecuteUncounted ==
    /\ pc = "tools"
    /\ run' = [run EXCEPT !.calls = @ - 1]
    /\ pc' = IF run.calls = 1 THEN "round" ELSE "tools"
    /\ UNCHANGED <<message, platform, routing, trail, ledger, changes>>

\* One tool call; what it returns or raises goes into the next request.
Execute ==
    /\ pc = "tools"
    /\ run' = [run EXCEPT !.calls = @ - 1, !.executed = @ + 1]
    /\ pc' = IF run.calls = 1 THEN "round" ELSE "tools"
    /\ UNCHANGED <<message, platform, routing, trail, ledger, changes>>

CompletionStep ==
    Start \/ Ask \/ Settle \/ Take \/ TakeLimited \/ TakeFinal \/ Execute

-----------------------------------------------------------------------------

\* The process ends; an answer that has arrived may not have been recorded.
Killed ==
    /\ pc \notin Ended
    /\ pc' = "failed"
    /\ ledger' = [ledger EXCEPT !.lost = IF pc \in Unbooked THEN 1 ELSE 0]
    /\ UNCHANGED <<message, platform, routing, run, trail, changes>>

\* The administrator saves or deletes a group (_save_model_group, which replaces its routes and
\* takes the default from the others), or a provider with the routes to it.
Reconfigure ==
    /\ pc \notin Ended /\ changes < MaxChanges
    /\ changes' = changes + 1
    /\ \E g \in Groups, n \in 0..MaxRoutes :
         \E d \in {routing.default, NoGroup, g} :
           routing' = [serving |-> [routing.serving EXCEPT ![g] = n], default |-> d]
    /\ UNCHANGED <<message, platform, pc, run, trail, ledger>>

CompletionNext == CompletionStep \/ Killed \/ Reconfigure

\* Every request has a timeout, so that an await always ends.
CompletionSpec == CompletionInit /\ [][CompletionNext]_completionVars
                  /\ WF_completionVars(CompletionStep)

-----------------------------------------------------------------------------

\* Of what was paid for, only what had neither a text nor a tool call (providers.py:98) and what
\* died with its process has no usage record: an answer has one also when its tool calls are
\* refused or over the limit (services.py:1033).
UsageKept ==
    ledger.owed = ledger.empty + ledger.lost + IF pc \in Unbooked THEN 1 ELSE 0

\* A text of a user with a provider of his own is sent to no other line (services.py:936),
\* and an image only on the lines that can see it.
LineAllowed ==
    /\ message.byok = "yes" /\ ~Vision => trail.lines \subseteq {"own"}
    /\ Vision => trail.lines \subseteq {"vision", "fallback"}

\* A message that has gone over to the fallback line stays there (services.py:1001), unless a
\* model group serves it: then the limit on tools sends it there for one request only.  The
\* change is audited by the time the reply is made.
FallbackSticks ==
    /\ trail.strayed => run.grouped
    /\ pc = "replied" /\ "fallback" \in trail.lines => ledger.audited

\* Whatever the models answer and however often they ask for tools, a message comes to a reply
\* or an error.
ComesToAnEnd == <>(pc \in Ended)

=============================================================================
