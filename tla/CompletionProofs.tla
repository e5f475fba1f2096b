-------------------------- MODULE CompletionProofs --------------------------
(***************************************************************************)
(* Theorems about Completion, for every set of groups and every limit on   *)
(* routes, tool calls and the administrator's changes.                     *)
(***************************************************************************)
EXTENDS Completion, TLAPS

\* The counters stay within their limits because a step that counts is only reached below them.
WithinBounds ==
    /\ pc = "tools" => run.calls >= 1 /\ run.executed + run.calls <= MaxToolCalls
    /\ pc = "route" => run.untried >= 1 /\ run.grouped

\* Who is served on which line.
LineInv ==
    /\ pc = "start" => trail.lines = {} /\ ~trail.strayed
    /\ pc \notin {"start"} \cup Ended =>
         /\ message.byok = "yes" /\ ~Vision => run.line = "own" /\ ~run.grouped
         /\ Vision => run.line \in {"vision", "fallback"} /\ ~run.grouped
    /\ LineAllowed

\* The fallback line is left by grouped messages only, and its use is audited or about to be.
FallbackInv ==
    /\ run.line = "fallback" => "fallback" \in trail.lines
    /\ "fallback" \in trail.lines /\ ~run.grouped => run.line = "fallback"
    /\ trail.strayed => run.grouped
    /\ "fallback" \in trail.lines =>
         \/ ledger.audited
         \/ run.hit /\ pc \in {"switched", "answered"}
         \/ pc \in {"limit", "limited", "failed"}

\* No answer is lost before the process ends.
NoLoss == pc \notin Ended => ledger.lost = 0

IInv == CompletionTypeOK /\ WithinBounds /\ UsageKept /\ NoLoss /\ LineInv /\ FallbackInv

\* A ledger in which no answer waits for its usage record.
Settled == {l \in Ledger : l.owed = l.empty /\ l.lost = 0}

LEMMA CompletionInitInv == CompletionInit => IInv
  BY CompletionAssumption
     DEF CompletionInit, IInv, CompletionTypeOK, WithinBounds, UsageKept, NoLoss, Ledger, LineInv,
         FallbackInv, LineAllowed, Run, Lines, Awaiting, Unbooked, Ended, Vision

LEMMA RoutesType ==
    ASSUME CompletionTypeOK
    PROVE  /\ \A g \in Groups \cup {NoGroup} : ActiveRoutes(g) \in 0..MaxRoutes
           /\ Selected \in Groups \cup {NoGroup}
  <1>1. \A g \in Groups \cup {NoGroup} : ActiveRoutes(g) \in 0..MaxRoutes
    BY CompletionAssumption DEF CompletionTypeOK, Routing, ActiveRoutes
  <1>2. Selected \in Groups \cup {NoGroup}
    BY DEF CompletionTypeOK, AMessage, Selected
  <1> QED
    BY <1>1, <1>2

LEMMA StartInv == IInv /\ Start => IInv'
  <1> SUFFICES ASSUME IInv, Start PROVE IInv'
    OBVIOUS
  <1> USE CompletionAssumption DEF IInv, Start
  <1>0. run' \in Run
    <2>1. run \in Run /\ Selected \in Groups \cup {NoGroup}
      BY RoutesType DEF CompletionTypeOK
    <2>2. Grouped \in BOOLEAN /\ Vision \in BOOLEAN
      BY DEF Grouped, Vision
    <2> DEFINE l == IF Vision THEN "vision" ELSE IF message.byok = "yes" THEN "own" ELSE "main"
    <2>3. l \in Lines \ {"group"}
      BY DEF Lines
    <2>4. run' = [run EXCEPT !.grouped = Grouped, !.target = Selected, !.onFallback = Vision,
                             !.line = l]
      OBVIOUS
    <2> HIDE DEF l
    <2> QED
      BY <2>1, <2>2, <2>3, <2>4 DEF Run
  <1>1. CompletionTypeOK'
    BY <1>0 DEF CompletionTypeOK, Ended
  <1>2. WithinBounds'
    BY DEF WithinBounds, CompletionTypeOK, Run
  <1>3. UsageKept' /\ NoLoss'
    BY DEF UsageKept, NoLoss, Settled, Ended, Unbooked
  <1>4. LineInv'
    <2>1. /\ run'.grouped = Grouped
          /\ run'.line = IF Vision THEN "vision"
                         ELSE IF message.byok = "yes" THEN "own" ELSE "main"
      BY DEF CompletionTypeOK, Run
    <2>2. pc' # "start" /\ message' = message /\ trail' = trail /\ trail.lines = {}
      BY DEF LineInv
    <2> QED
      BY <2>1, <2>2 DEF LineInv, Ended, LineAllowed, Vision, Grouped
  <1>5. FallbackInv'
    <2>1. trail' = trail /\ trail.lines = {} /\ ~trail.strayed
      BY DEF LineInv
    <2>2. run'.line # "fallback"
      BY DEF CompletionTypeOK, Run
    <2> QED
      BY <2>1, <2>2 DEF FallbackInv
  <1> QED
    BY <1>1, <1>2, <1>3, <1>4, <1>5

\* A request changes the trail and nothing else of what the invariants speak of.
LEMMA SendTrail ==
    ASSUME CompletionTypeOK, NEW line \in Lines, Send(line)
    PROVE  /\ trail' \in [lines : SUBSET Lines, strayed : BOOLEAN]
           /\ trail'.lines = trail.lines \cup {line}
           /\ trail'.strayed = (trail.strayed \/ ("fallback" \in trail.lines /\ line # "fallback"))
  BY DEF CompletionTypeOK, Send

LEMMA AskInv == IInv /\ Ask => IInv'
  <1> SUFFICES ASSUME IInv, Ask PROVE IInv'
    OBVIOUS
  <1> USE CompletionAssumption DEF IInv, Ask
  <1>a. CASE AskGroup
    <2>1. ActiveRoutes(run.target) \in 0..MaxRoutes
      BY RoutesType DEF CompletionTypeOK, Run
    <2>2. run' \in Run /\ run' = [run EXCEPT !.untried = ActiveRoutes(run.target)]
      BY <1>a, <2>1 DEF AskGroup, CompletionTypeOK, Run
    <2>3. CASE ActiveRoutes(run.target) > 0
      <3>1. pc' = "route" /\ Send("group")
        BY <1>a, <2>3 DEF AskGroup
      <3>2. trail' \in [lines : SUBSET Lines, strayed : BOOLEAN]
            /\ trail'.lines = trail.lines \cup {"group"}
            /\ trail'.strayed = (trail.strayed \/ "fallback" \in trail.lines)
        BY <3>1, SendTrail DEF Lines
      <3>3. CompletionTypeOK'
        BY <2>2, <3>1, <3>2 DEF CompletionTypeOK, Awaiting
      <3>4. WithinBounds' /\ UsageKept' /\ NoLoss'
        BY <1>a, <2>1, <2>2, <2>3, <3>1
           DEF AskGroup, WithinBounds, UsageKept, NoLoss, Settled, Ended, Unbooked, CompletionTypeOK, Run
      <3>5. LineInv' /\ FallbackInv'
        BY <1>a, <2>2, <3>1, <3>2
           DEF LineInv, Ended, LineAllowed, FallbackInv, AskGroup, Vision, CompletionTypeOK, Run
      <3> QED
        BY <3>3, <3>4, <3>5
    <2>4. CASE ~(ActiveRoutes(run.target) > 0)
      <3>1. pc' = "failed" /\ UNCHANGED trail
        BY <1>a, <2>4 DEF AskGroup
      <3>2. CompletionTypeOK' /\ WithinBounds' /\ UsageKept' /\ NoLoss'
        BY <2>2, <3>1 DEF CompletionTypeOK, WithinBounds, UsageKept, NoLoss, Settled, Ended, Unbooked, Run
      <3>3. LineInv' /\ FallbackInv'
        BY <2>2, <3>1 DEF LineInv, Ended, LineAllowed, FallbackInv, Vision, CompletionTypeOK, Run
      <3> QED
        BY <3>2, <3>3
    <2> QED
      BY <2>3, <2>4
  <1>b. CASE ~run.grouped /\ pc' = "direct" /\ Send(run.line) /\ UNCHANGED run
    <2>1. trail' \in [lines : SUBSET Lines, strayed : BOOLEAN]
          /\ trail'.lines = trail.lines \cup {run.line}
          /\ trail'.strayed = (trail.strayed \/ ("fallback" \in trail.lines /\ run.line # "fallback"))
      BY <1>b, SendTrail DEF CompletionTypeOK, Run
    <2>2. CompletionTypeOK' /\ WithinBounds' /\ UsageKept' /\ NoLoss'
      BY <1>b, <2>1 DEF CompletionTypeOK, WithinBounds, UsageKept, NoLoss, Settled, Ended, Unbooked, Awaiting
    <2>3. LineInv' /\ FallbackInv'
      BY <1>b, <2>1 DEF LineInv, Ended, LineAllowed, FallbackInv, Vision
    <2> QED
      BY <2>2, <2>3
  <1> QED
    BY <1>a, <1>b

\* A request that has failed leaves nothing to be recorded.
LEMMA FailureLedger ==
    ASSUME IInv, pc \in Awaiting, Failure
    PROVE  ledger' \in Settled /\ ledger'.audited = ledger.audited
  <1>1. ledger \in Settled
    BY DEF IInv, CompletionTypeOK, UsageKept, NoLoss, Settled, Ledger, Awaiting, Unbooked, Ended
  <1>2. CASE UNCHANGED ledger
    BY <1>1, <1>2
  <1>3. CASE ledger' = [ledger EXCEPT !.owed = ledger.owed + 1, !.empty = ledger.empty + 1]
    <2>1. /\ ledger.owed \in Nat /\ ledger.owed + 1 \in Nat /\ ledger.empty = ledger.owed
          /\ ledger \in Ledger /\ ledger.lost = 0
      BY <1>1 DEF Settled, Ledger
    <2> DEFINE n == ledger.owed + 1
    <2>2. n \in Nat /\ ledger' = [ledger EXCEPT !.owed = n, !.empty = n]
      BY <1>3, <2>1
    <2> HIDE DEF n
    <2> QED
      BY <2>1, <2>2, Zenon DEF Settled, Ledger
  <1> QED
    BY <1>2, <1>3 DEF Failure

LEMMA LedgerKept ==
    ASSUME ledger' \in Settled, pc' \notin Unbooked
    PROVE  ledger' \in Ledger /\ UsageKept' /\ NoLoss'
  <1>1. ledger' \in Ledger /\ ledger'.owed = ledger'.empty /\ ledger'.lost = 0
    BY DEF Settled
  <1>2. ledger'.empty \in Nat
    BY <1>1 DEF Ledger
  <1> QED
    BY <1>1, <1>2 DEF UsageKept, NoLoss, Unbooked

LEMMA AnswerInv ==
    ASSUME IInv, pc \in Awaiting, NEW next \in Unbooked, Answer(next),
           pc = "limit" <=> next = "limited", pc = "switched" => next = "answered",
           UNCHANGED <<message, platform, routing, changes>>
    PROVE  IInv'
  <1> USE CompletionAssumption DEF IInv, Answer
  <1>0. /\ ledger \in Ledger /\ ledger.lost = 0 /\ ledger.owed = ledger.empty
        /\ ledger.owed \in Nat /\ ledger.owed + 1 \in Nat
    BY DEF CompletionTypeOK, UsageKept, NoLoss, Awaiting, Unbooked, Ended, Ledger
  <1>1. PICK calls \in 0..MaxCalls : run' = [run EXCEPT !.calls = calls]
    OBVIOUS
  <1>2. run' \in Run /\ run'.line = run.line /\ run'.grouped = run.grouped /\ run'.hit = run.hit
    BY <1>1 DEF CompletionTypeOK, Run
  <1>3. /\ ledger' \in Ledger /\ ledger'.audited = ledger.audited /\ ledger'.lost = 0
        /\ ledger'.empty = ledger.owed /\ ledger'.owed = ledger.owed + 1
    <2> DEFINE n == ledger.owed + 1
    <2>1. n \in Nat /\ ledger' = [ledger EXCEPT !.owed = n]
      BY <1>0
    <2> HIDE DEF n
    <2>2. /\ ledger' \in Ledger /\ ledger'.audited = ledger.audited /\ ledger'.lost = 0
          /\ ledger'.empty = ledger.owed /\ ledger'.owed = n
      BY <1>0, <2>1, Zenon DEF Ledger
    <2> QED
      BY <2>2 DEF n
  <1>4. UsageKept' /\ NoLoss'
    BY <1>0, <1>3 DEF UsageKept, NoLoss
  <1>5. CompletionTypeOK' /\ WithinBounds'
    BY <1>2, <1>3 DEF CompletionTypeOK, WithinBounds, Unbooked, Awaiting
  <1>6. LineInv' /\ FallbackInv'
    BY <1>2, <1>3 DEF LineInv, Ended, LineAllowed, FallbackInv, Vision, Unbooked, Awaiting
  <1> QED
    BY <1>4, <1>5, <1>6

LEMMA RaiseInv ==
    ASSUME IInv, pc \in Awaiting, Raise, UNCHANGED <<message, platform, routing, changes>>
    PROVE  IInv'
  <1>0. ledger' \in Settled /\ ledger'.audited = ledger.audited
    BY FailureLedger DEF Raise
  <1> USE DEF IInv, Raise
  <1>1. CompletionTypeOK' /\ WithinBounds' /\ UsageKept' /\ NoLoss'
    BY <1>0, LedgerKept DEF CompletionTypeOK, WithinBounds, Ended, Unbooked
  <1>2. LineInv' /\ FallbackInv'
    BY <1>0 DEF LineInv, Ended, LineAllowed, FallbackInv, Vision, Awaiting
  <1> QED
    BY <1>1, <1>2

LEMMA NextRouteInv ==
    ASSUME IInv, pc = "route", NextRoute,
           UNCHANGED <<message, platform, routing, changes>>
    PROVE  IInv'
  <1>0. ledger' \in Settled /\ ledger'.audited = ledger.audited
    BY FailureLedger DEF NextRoute, Awaiting
  <1> USE CompletionAssumption DEF IInv, NextRoute
  <1>1. run' \in Run /\ run' = [run EXCEPT !.untried = run.untried - 1]
    BY DEF CompletionTypeOK, WithinBounds, Run
  <1>2. trail' \in [lines : SUBSET Lines, strayed : BOOLEAN]
        /\ \/ pc' = "failed" /\ trail' = trail
           \/ /\ pc' = "route" /\ run.untried > 1
              /\ trail'.lines = trail.lines \cup {"group"}
              /\ trail'.strayed = (trail.strayed \/ "fallback" \in trail.lines)
    BY SendTrail DEF Lines, CompletionTypeOK
  <1>3. CompletionTypeOK' /\ WithinBounds' /\ UsageKept' /\ NoLoss'
    BY <1>0, <1>1, <1>2, LedgerKept
       DEF CompletionTypeOK, WithinBounds, Ended, Unbooked, Awaiting, Run
  <1>4. LineInv' /\ FallbackInv'
    BY <1>0, <1>1, <1>2
       DEF LineInv, Ended, LineAllowed, FallbackInv, WithinBounds, Vision, CompletionTypeOK, Run
  <1> QED
    BY <1>3, <1>4

\* The message goes over to the fallback line, after a failure or at the limit.
LEMMA SwitchLine ==
    ASSUME IInv, pc \notin {"start"} \cup Ended, HasFallback, NEW next \in {"switched", "limit"},
           run' = [run EXCEPT !.line = "fallback", !.onFallback = TRUE, !.hit = TRUE],
           Send("fallback"), pc' = next,
           UNCHANGED <<message, platform, routing, changes>>,
           ledger' \in Settled
    PROVE  IInv'
  <1> USE CompletionAssumption DEF IInv
  <1>1. run' \in Run /\ run'.line = "fallback" /\ run'.hit /\ run'.grouped = run.grouped
    BY DEF CompletionTypeOK, Run, Lines
  <1>2. trail' \in [lines : SUBSET Lines, strayed : BOOLEAN]
        /\ trail'.lines = trail.lines \cup {"fallback"} /\ trail'.strayed = trail.strayed
    BY SendTrail DEF Lines, CompletionTypeOK
  <1>3. CompletionTypeOK' /\ WithinBounds' /\ UsageKept' /\ NoLoss'
    BY <1>1, <1>2, LedgerKept DEF CompletionTypeOK, WithinBounds, Unbooked, Awaiting
  <1>4. LineInv' /\ FallbackInv'
    BY <1>1, <1>2 DEF LineInv, Ended, LineAllowed, FallbackInv, Vision, HasFallback
  <1> QED
    BY <1>3, <1>4

LEMMA SettleInv == IInv /\ Settle => IInv'
  <1> SUFFICES ASSUME IInv, Settle PROVE IInv'
    OBVIOUS
  <1> USE DEF Settle
  <1>1. CASE \E next \in Unbooked : /\ pc \in Awaiting /\ Answer(next)
                                    /\ pc = "limit" <=> next = "limited"
                                    /\ pc = "switched" => next = "answered"
    BY <1>1, AnswerInv
  <1>2. CASE pc \in Awaiting /\ Raise
    BY <1>2, RaiseInv
  <1>3. CASE pc = "route" /\ NextRoute
    BY <1>3, NextRouteInv
  <1>4. CASE pc = "direct" /\ Switch("switched")
    <2>1. ledger' \in Settled
      BY <1>4, FailureLedger DEF Switch, Awaiting
    <2> QED
      BY <1>4, <2>1, SwitchLine DEF Switch, IInv, CompletionTypeOK, Ended
  <1> QED
    BY <1>1, <1>2, <1>3, <1>4 DEF Unbooked, Awaiting

\* The usage of an answer is committed.
LEMMA BookLedger ==
    ASSUME IInv, pc \in Unbooked, NEW audited \in BOOLEAN, Book(audited)
    PROVE  /\ ledger' \in Settled
           /\ ledger'.audited = (ledger.audited \/ audited)
  <1>1. ledger \in Ledger /\ ledger.lost = 0 /\ ledger.owed = ledger.empty + 1
    BY DEF IInv, UsageKept, NoLoss, CompletionTypeOK, Unbooked, Ended, Ledger
  <1> DEFINE either == ledger.audited \/ audited
  <1>2. ledger.owed - 1 = ledger.empty /\ ledger.empty \in Nat
    BY <1>1 DEF Ledger
  <1>3. either \in BOOLEAN /\ ledger' = [ledger EXCEPT !.owed = ledger.empty, !.audited = either]
    BY <1>2 DEF Book
  <1> HIDE DEF either
  <1>4. ledger'.audited = either /\ ledger' \in Settled
    BY <1>1, <1>2, <1>3, Zenon DEF Ledger, Settled
  <1> QED
    BY <1>4 DEF either

\* After the answer of a turn, or of the fallback line at the limit: no request goes out.
LEMMA TakenInv ==
    ASSUME IInv, pc \in Unbooked, UNCHANGED <<message, platform, routing, trail, changes>>,
           ledger' \in Settled,
           "fallback" \in trail.lines => ledger'.audited,
           \/ pc' \in Ended /\ run' = run
           \/ /\ pc' = "tools" /\ run.calls > 0 /\ ~TooMany
              /\ run' = run \/ run' = [run EXCEPT !.hit = FALSE]
    PROVE  IInv'
  <1> USE CompletionAssumption DEF IInv
  <1>1. /\ run' \in Run /\ run'.line = run.line /\ run'.grouped = run.grouped
        /\ run'.calls = run.calls /\ run'.executed = run.executed
    BY DEF CompletionTypeOK, Run
  <1>2. CompletionTypeOK' /\ WithinBounds' /\ UsageKept' /\ NoLoss'
    BY <1>1, LedgerKept DEF CompletionTypeOK, WithinBounds, Ended, Unbooked, TooMany, Run
  <1>3. LineInv' /\ FallbackInv'
    BY <1>1 DEF LineInv, Ended, LineAllowed, FallbackInv, Vision, Unbooked
  <1> QED
    BY <1>2, <1>3

LEMMA FinishInv ==
    ASSUME IInv, pc \in Unbooked, Finish, UNCHANGED <<message, platform, routing, changes>>,
           ledger' \in Settled,
           "fallback" \in trail.lines => ledger'.audited
    PROVE  IInv'
  <1> USE DEF IInv, Finish
  <1>1. trail' \in [lines : SUBSET Lines, strayed : BOOLEAN]
        /\ trail'.lines = trail.lines \cup {run.line}
        /\ trail'.strayed = (trail.strayed \/ ("fallback" \in trail.lines /\ run.line # "fallback"))
    BY SendTrail DEF CompletionTypeOK, Run
  <1>2. CompletionTypeOK' /\ WithinBounds' /\ UsageKept' /\ NoLoss'
    BY <1>1, LedgerKept DEF CompletionTypeOK, WithinBounds, Unbooked, Awaiting
  <1>3. LineInv' /\ FallbackInv'
    BY <1>1 DEF LineInv, Ended, LineAllowed, FallbackInv, Vision, Unbooked
  <1> QED
    BY <1>2, <1>3

LEMMA TakeInv == IInv /\ Take => IInv'
  <1> SUFFICES ASSUME IInv, Take PROVE IInv'
    OBVIOUS
  <1> USE DEF Take
  <1>1. /\ pc \in Unbooked /\ run.hit \in BOOLEAN
        /\ ledger' \in Settled
        /\ ledger'.audited = (ledger.audited \/ run.hit)
    BY BookLedger DEF Unbooked, IInv, CompletionTypeOK, Run
  <1>2. "fallback" \in trail.lines => ledger'.audited
    BY <1>1 DEF IInv, FallbackInv
  <1>3. CASE OverLimit
    <2>1. CASE HasFallback /\ ~run.onFallback
      BY <1>1, <1>3, <2>1, SwitchLine DEF OverLimit, Ended
    <2>2. CASE ~(HasFallback /\ ~run.onFallback)
      BY <1>1, <1>2, <1>3, <2>2, FinishInv DEF OverLimit
    <2> QED
      BY <2>1, <2>2
  <1>4. CASE pc' \in Ended /\ UNCHANGED <<run, trail>>
    BY <1>1, <1>2, <1>4, TakenInv
  <1>5. CASE /\ run.calls > 0 /\ ~TooMany /\ pc' = "tools"
             /\ run' = [run EXCEPT !.hit = FALSE] /\ UNCHANGED trail
    BY <1>1, <1>2, <1>5, TakenInv
  <1> QED
    BY <1>3, <1>4, <1>5 DEF Ended

LEMMA TakeLimitedInv == IInv /\ TakeLimited => IInv'
  <1> SUFFICES ASSUME IInv, TakeLimited PROVE IInv'
    OBVIOUS
  <1> USE DEF TakeLimited
  <1>1. /\ pc \in Unbooked
        /\ ledger' \in Settled
        /\ ledger'.audited
    BY BookLedger DEF Unbooked
  <1>2. CASE Finish
    BY <1>1, <1>2, FinishInv
  <1>3. CASE \/ pc' = "replied" /\ UNCHANGED <<run, trail>>
             \/ run.calls > 0 /\ ~TooMany /\ pc' = "tools" /\ UNCHANGED <<run, trail>>
    BY <1>1, <1>3, TakenInv DEF Ended
  <1> QED
    BY <1>2, <1>3

LEMMA TakeFinalInv == IInv /\ TakeFinal => IInv'
  <1> SUFFICES ASSUME IInv, TakeFinal PROVE IInv'
    OBVIOUS
  <1> USE DEF TakeFinal
  <1>1. /\ pc \in Unbooked
        /\ ledger' \in Settled
        /\ ledger'.audited = (ledger.audited \/ FALSE)
    BY BookLedger DEF Unbooked
  <1>2. "fallback" \in trail.lines => ledger.audited
    BY DEF IInv, FallbackInv
  <1> QED
    BY <1>1, <1>2, TakenInv DEF Ended, Unbooked

LEMMA ExecuteInv == IInv /\ Execute => IInv'
  <1> SUFFICES ASSUME IInv, Execute PROVE IInv'
    OBVIOUS
  <1> USE CompletionAssumption DEF IInv, Execute
  <1>1. /\ run' = [run EXCEPT !.calls = run.calls - 1, !.executed = run.executed + 1]
        /\ run.calls \in 1..MaxCalls /\ run.executed + run.calls <= MaxToolCalls
    BY DEF CompletionTypeOK, WithinBounds, Run
  <1>2. /\ run'.line = run.line /\ run'.grouped = run.grouped
        /\ run'.calls = run.calls - 1 /\ run'.executed = run.executed + 1
        /\ run' \in Run
    <2>1. run.calls - 1 \in 0..MaxCalls /\ run.executed + 1 \in 0..MaxToolCalls
      BY <1>1 DEF CompletionTypeOK, Run
    <2> QED
      BY <1>1, <2>1 DEF CompletionTypeOK, Run
  <1>3. CompletionTypeOK' /\ WithinBounds' /\ UsageKept' /\ NoLoss'
    BY <1>1, <1>2 DEF CompletionTypeOK, WithinBounds, UsageKept, NoLoss, Settled, Ended, Unbooked, Run
  <1>4. LineInv' /\ FallbackInv'
    BY <1>2 DEF LineInv, Ended, LineAllowed, FallbackInv, Vision
  <1> QED
    BY <1>3, <1>4

LEMMA KilledInv == IInv /\ Killed => IInv'
  <1> SUFFICES ASSUME IInv, Killed PROVE IInv'
    OBVIOUS
  <1> USE DEF IInv, Killed
  <1>1. ledger \in Ledger /\ ledger.lost = 0
    BY DEF CompletionTypeOK, NoLoss
  <1>2. ledger' \in Ledger /\ ledger'.audited = ledger.audited
    BY <1>1 DEF Ledger
  <1>3. CompletionTypeOK' /\ UsageKept' /\ NoLoss'
    BY <1>1, <1>2 DEF CompletionTypeOK, UsageKept, NoLoss, Unbooked, Ended, Ledger
  <1>4. WithinBounds' /\ LineInv' /\ FallbackInv'
    BY <1>2 DEF WithinBounds, LineInv, Ended, LineAllowed, FallbackInv, Vision
  <1> QED
    BY <1>3, <1>4

LEMMA ReconfigureInv == IInv /\ Reconfigure => IInv'
  <1> SUFFICES ASSUME IInv, Reconfigure PROVE IInv'
    OBVIOUS
  <1> USE CompletionAssumption DEF IInv, Reconfigure
  <1>1. PICK g \in Groups, n \in 0..MaxRoutes, d \in Groups \cup {NoGroup} :
          routing' = [serving |-> [routing.serving EXCEPT ![g] = n], default |-> d]
    BY DEF CompletionTypeOK, Routing
  <1>2. routing' \in Routing
    BY <1>1 DEF CompletionTypeOK, Routing
  <1>3. CompletionTypeOK' /\ WithinBounds' /\ UsageKept' /\ NoLoss'
    BY <1>2 DEF CompletionTypeOK, WithinBounds, UsageKept, NoLoss
  <1>4. LineInv' /\ FallbackInv'
    BY DEF LineInv, Ended, LineAllowed, FallbackInv, Vision
  <1> QED
    BY <1>3, <1>4

LEMMA StepInv == IInv /\ [CompletionNext]_completionVars => IInv'
  <1> SUFFICES ASSUME IInv, [CompletionNext]_completionVars PROVE IInv'
    OBVIOUS
  <1>1. CASE CompletionStep
    BY <1>1, StartInv, AskInv, SettleInv, TakeInv, TakeLimitedInv, TakeFinalInv, ExecuteInv
       DEF CompletionStep
  <1>2. CASE Killed \/ Reconfigure
    BY <1>2, KilledInv, ReconfigureInv
  <1>3. CASE UNCHANGED completionVars
    BY <1>3 DEF completionVars, IInv, CompletionTypeOK, WithinBounds, UsageKept, NoLoss,
                LineInv, FallbackInv, LineAllowed, Vision
  <1> QED
    BY <1>1, <1>2, <1>3 DEF CompletionNext

LEMMA Invariance == CompletionSpec => []IInv
  <1> QED
    BY CompletionInitInv, StepInv, PTL DEF CompletionSpec

\* Whatever the configuration, the limits and the administrator's changes: of the answers that
\* are paid for only those without a text and a tool call, which complete turns into an
\* exception, and those that die with the process have no usage record (services._complete_ai,
\* providers.complete); and the number of tool calls stays within its limit.
THEOREM UsageIsKept == CompletionSpec => [](CompletionTypeOK /\ UsageKept)
  <1>1. IInv => CompletionTypeOK /\ UsageKept
    BY DEF IInv
  <1> QED
    BY <1>1, Invariance, PTL

\* A text of a user with a provider of his own goes to that provider only, an image only to lines
\* that see it, over all failures and limits (services._complete_ai).
THEOREM LinesAllowed == CompletionSpec => []LineAllowed
  <1>1. IInv => LineAllowed
    BY DEF IInv, LineInv
  <1> QED
    BY <1>1, Invariance, PTL

\* Only a message of a model group leaves the fallback line again, and no reply is made before the
\* change to that line is in the audit (services._complete_ai).
THEOREM FallbackIsKept == CompletionSpec => []FallbackSticks
  <1>1. IInv => FallbackSticks
    BY DEF IInv, FallbackInv, FallbackSticks
  <1> QED
    BY <1>1, Invariance, PTL

=============================================================================
