--------------------------- MODULE SessionsProofs ---------------------------
(***************************************************************************)
(* What sessions rest on, and that a code is accepted once: for any number *)
(* of requests, sessions, passwords and secrets.                           *)
(***************************************************************************)
EXTENDS Sessions, TLAPS

\* What r has checked is still the password, or it is known not to be.
Current(r) == r.password = account.password \/ r.overtaken

\* A request in state pc is about to delete the session s.
Doomed(pc, s) == \E h \in Handlers : handlers[h].pc = pc /\ handlers[h].session # s.id

SessionOK(s) == /\ Current(s) \/ Doomed("changed", s)
                /\ mfa.enabled => s.factor \/ s.overtaken \/ Doomed("enabled", s)
HandlerOK(w) == /\ w.pc \in {"checked", "challenge", "open"} => w.password # 0 /\ Current(w)
                /\ w.pc = "open" /\ mfa.enabled => w.factor \/ w.overtaken
                /\ w.pc = "enable" => w.code \in Counters

LoginInv == /\ SessionsTypeOK
            /\ \A c \in challenges : Current(c)
            /\ \A s \in sessions : SessionOK(s)
            /\ \A h \in Handlers : HandlerOK(handlers[h])

\* Codes that could still be accepted have not been accepted.
UsedOnce(m) == /\ \A c \in Codes : m.uses[c] <= 1
               /\ \A c \in Counters : c > m.last => m.uses[c] = 0
               /\ m.recovery => m.uses[RecoveryCode] = 0
               /\ ~m.enabled => \A c \in Codes : m.uses[c] = 0

CodesInv == SessionsTypeOK /\ (~mfa.doubled => UsedOnce(mfa))

USE SessionsAssumption

-----------------------------------------------------------------------------
(* Types.                                                                  *)

LEMMA CodesTyped == /\ RecoveryCode \in Codes /\ RecoveryCode \notin Counters
                    /\ Counters \subseteq Codes /\ Counters \subseteq Int /\ Codes \subseteq Int
                    /\ \A n \in 0..MaxClock : (n - 1)..(n + 1) \subseteq Counters
                    /\ -2 \notin Counters
BY DEF Codes, Counters, RecoveryCode

LEMMA IdleHandlerTyped == /\ IdleHandler \in Handler
                   /\ IdleHandler.pc = "idle" /\ ~IdleHandler.factor /\ ~IdleHandler.overtaken
<1>1. 0 \in 0..MaxPasswords /\ 0 \in 0..MaxAttempts /\ 0 \in 0..MaxSecrets
    OBVIOUS
<1>2. IdleHandler \in Handler
    BY <1>1, CodesTyped, Zenon DEF IdleHandler, Handler
<1> QED
    BY <1>2 DEF IdleHandler

LEMMA NoCredentialTyped == /\ NoCredential \in MfaCredential /\ ~NoCredential.enabled
                           /\ NoCredential.last = -2 /\ ~NoCredential.recovery
                           /\ ~NoCredential.doubled
                           /\ NoCredential.uses = [c \in Codes |-> 0]
<1>1. 0 \in 0..MaxSecrets /\ -2 \in Counters \cup {-2} /\ [c \in Codes |-> 0] \in [Codes -> Nat]
    OBVIOUS
<1>2. NoCredential \in MfaCredential
    BY <1>1, Zenon DEF NoCredential, MfaCredential
<1> QED
    BY <1>2 DEF NoCredential

LEMMA UsableTyped == SessionsTypeOK => Usable \subseteq Codes
BY CodesTyped DEF Usable, FreshCounters, SessionsTypeOK

\* What accepting a code makes of the credential.
LEMMA AcceptedTyped ==
    ASSUME SessionsTypeOK, NEW code \in Usable
    PROVE  /\ Accepted(code) \in MfaCredential
           /\ Accepted(code).enabled = mfa.enabled /\ Accepted(code).doubled = mfa.doubled
           /\ Accepted(code).uses = [mfa.uses EXCEPT ![code] = @ + 1]
           /\ Accepted(code).last = IF code = RecoveryCode THEN mfa.last ELSE code
           /\ Accepted(code).recovery = (mfa.recovery /\ code # RecoveryCode)
<1>1. code \in Codes /\ (code # RecoveryCode => code \in Counters)
    BY UsableTyped DEF Codes
<1>2. mfa \in MfaCredential
    BY DEF SessionsTypeOK
<1>3. mfa.uses \in [Codes -> Nat]
    BY <1>2 DEF MfaCredential
<1>4. [mfa.uses EXCEPT ![code] = @ + 1] \in [Codes -> Nat]
    BY <1>1, <1>3
<1>5. Accepted(code) = [mfa EXCEPT !.uses = [mfa.uses EXCEPT ![code] = @ + 1],
                                   !.last = IF code = RecoveryCode THEN @ ELSE code,
                                   !.recovery = @ /\ code # RecoveryCode]
    BY <1>2 DEF Accepted, MfaCredential
<1>6. (IF code = RecoveryCode THEN mfa.last ELSE code) \in Counters \cup {-2}
    BY <1>1, <1>2 DEF MfaCredential
<1> QED
    BY <1>2, <1>4, <1>5, <1>6 DEF MfaCredential

-----------------------------------------------------------------------------
(* Steps that change no password.                                          *)

\* What is left of the tables, or is new, rests on what is so now; what was doomed still is.
LEMMA QuietStep ==
    ASSUME LoginInv, SessionsTypeOK', account'.password = account.password,
           mfa'.enabled => mfa.enabled,
           \A c \in challenges' : Current(c),
           \A s \in sessions' : s \in sessions \/ (Current(s) /\ (mfa.enabled => s.factor \/ s.overtaken)),
           \A g \in Handlers : \/ handlers'[g] = handlers[g]
                               \/ HandlerOK(handlers'[g]) /\ handlers[g].pc \notin {"changed", "enabled"}
    PROVE  LoginInv'
<1>1. \A r : Current(r) => Current(r)'
    BY DEF Current
<1>2. \A s : Doomed("changed", s) => Doomed("changed", s)'
    BY DEF Doomed
<1>3. \A s : Doomed("enabled", s) => Doomed("enabled", s)'
    BY DEF Doomed
<1>4. \A c \in challenges' : Current(c)'
    BY <1>1
<1>5. \A s \in sessions' : SessionOK(s)'
    <2> SUFFICES ASSUME NEW s \in sessions' PROVE SessionOK(s)'
        OBVIOUS
    <2>1. CASE s \in sessions
        <3>1. SessionOK(s)
            BY <2>1 DEF LoginInv
        <3> QED
            BY <1>1, <1>2, <1>3, <3>1 DEF SessionOK
    <2>2. CASE Current(s) /\ (mfa.enabled => s.factor \/ s.overtaken)
        BY <1>1, <2>2 DEF SessionOK
    <2> QED
        BY <2>1, <2>2
<1>6. \A g \in Handlers : HandlerOK(handlers[g])'
    <2> SUFFICES ASSUME NEW g \in Handlers PROVE HandlerOK(handlers[g])'
        OBVIOUS
    <2>1. HandlerOK(handlers'[g])
        BY DEF LoginInv
    <2> QED
        BY <2>1 DEF HandlerOK, Current
<1> QED
    BY <1>4, <1>5, <1>6 DEF LoginInv, Current, HandlerOK

\* One request goes on, from no deletion.
LEMMA OneHandler ==
    ASSUME LoginInv, NEW h \in Handlers, NEW w \in Handler, HandlerOK(w),
           handlers[h].pc \notin {"changed", "enabled"},
           handlers' = [handlers EXCEPT ![h] = w],
           account' = account, link' \in BOOLEAN, mfa' \in MfaCredential, now' = now,
           made' \in [passwords : 1..MaxPasswords, secrets : 0..MaxSecrets], begun' \in 0..MaxRequests,
           mfa'.enabled => mfa.enabled,
           challenges' \subseteq MfaChallenge, \A c \in challenges' : Current(c),
           sessions' \subseteq AuthSession,
           \A s \in sessions' : s \in sessions \/ (Current(s) /\ (mfa.enabled => s.factor \/ s.overtaken))
    PROVE  LoginInv'
<1>1. handlers \in [Handlers -> Handler]
    BY DEF LoginInv, SessionsTypeOK
<1>2. SessionsTypeOK'
    BY <1>1 DEF LoginInv, SessionsTypeOK
<1>3. \A g \in Handlers : \/ handlers'[g] = handlers[g]
                          \/ HandlerOK(handlers'[g]) /\ handlers[g].pc \notin {"changed", "enabled"}
    BY <1>1
<1> QED
    BY <1>2, <1>3, QuietStep

\* The same, when only the request changes.
LEMMA OnlyHandler ==
    ASSUME LoginInv, NEW h \in Handlers, NEW w \in Handler, HandlerOK(w),
           handlers[h].pc \notin {"changed", "enabled"},
           handlers' = [handlers EXCEPT ![h] = w], begun' \in 0..MaxRequests,
           UNCHANGED <<account, link, mfa, sessions, challenges, now, made>>
    PROVE  LoginInv'
<1>1. /\ link' \in BOOLEAN /\ mfa' \in MfaCredential /\ challenges' \subseteq MfaChallenge
      /\ made' \in [passwords : 1..MaxPasswords, secrets : 0..MaxSecrets]
      /\ sessions' \subseteq AuthSession
    BY DEF LoginInv, SessionsTypeOK
<1>2. \A c \in challenges' : Current(c)
    BY DEF LoginInv
<1> QED
    BY <1>1, <1>2, OneHandler

\* No request goes on.
LEMMA NoHandler ==
    ASSUME LoginInv, UNCHANGED <<handlers, made, begun>>,
           account' \in Account, account'.password = account.password,
           link' \in BOOLEAN, mfa' \in MfaCredential, mfa'.enabled => mfa.enabled, now' \in 0..MaxClock,
           challenges' \subseteq challenges, sessions' \subseteq sessions
    PROVE  LoginInv'
<1>1. SessionsTypeOK'
    BY DEF LoginInv, SessionsTypeOK
<1>2. \A c \in challenges' : Current(c)
    BY DEF LoginInv
<1> QED
    BY <1>1, <1>2, QuietStep

\* A request begins: it has not checked anything but the password of this moment.
LEMMA BeginStep ==
    ASSUME LoginInv, NEW h \in Handlers, NEW w \in Handler, HandlerOK(w), Begin(h, w),
           UNCHANGED <<account, link, mfa, sessions, challenges, now, made>>
    PROVE  LoginInv'
<1>1. begun' \in 0..MaxRequests
    BY DEF Begin, LoginInv, SessionsTypeOK
<1> QED
    BY <1>1, OnlyHandler DEF Begin

LEMMA EndOK == HandlerOK(IdleHandler)
BY IdleHandlerTyped DEF HandlerOK

-----------------------------------------------------------------------------
(* The actions, one after the other.                                       *)

LEMMA LoginInit == SessionsInit => LoginInv /\ CodesInv
<1> SUFFICES ASSUME SessionsInit PROVE LoginInv /\ CodesInv
    OBVIOUS
<1>1. 1 \in 1..MaxPasswords /\ 0 \in 0..MaxSecrets /\ 0 \in 0..MaxClock /\ 0 \in 0..MaxRequests
    OBVIOUS
<1>2. account \in Account /\ made \in [passwords : 1..MaxPasswords, secrets : 0..MaxSecrets]
    BY <1>1 DEF SessionsInit, Account
<1>3. SessionsTypeOK
    BY <1>1, <1>2, IdleHandlerTyped, NoCredentialTyped DEF SessionsInit, SessionsTypeOK
<1>4. \A h \in Handlers : HandlerOK(handlers[h])
    BY EndOK DEF SessionsInit
<1>5. UsedOnce(NoCredential)
    BY NoCredentialTyped, CodesTyped DEF UsedOnce
<1> QED
    BY <1>3, <1>4, <1>5 DEF SessionsInit, LoginInv, CodesInv

LEMMA AuthenticateStep ==
    ASSUME LoginInv, NEW h \in Handlers, Authenticate(h) PROVE LoginInv'
<1> DEFINE w == [IdleHandler EXCEPT !.pc = "checked", !.password = account.password]
<1>1. account.password \in 1..MaxPasswords
    BY DEF LoginInv, SessionsTypeOK, Account
<1>2. account.password \in 0..MaxPasswords /\ account.password # 0
    BY <1>1
<1>3. w \in Handler /\ w.pc = "checked" /\ w.password = account.password
    BY <1>2, IdleHandlerTyped DEF Handler
<1> HIDE DEF w
<1>4. HandlerOK(w)
    BY <1>2, <1>3 DEF HandlerOK, Current
<1> USE DEF w
<1> QED
    BY <1>3, <1>4, BeginStep DEF Authenticate

LEMMA AskFactorStep ==
    ASSUME LoginInv, NEW h \in Handlers, AskFactor(h) PROVE LoginInv'
<1> DEFINE w == [handlers[h] EXCEPT !.pc = IF mfa.enabled THEN "challenge" ELSE "open",
                                    !.doomed = IF mfa.enabled THEN {c.id : c \in challenges} ELSE {}]
<1>1. handlers[h] \in Handler /\ HandlerOK(handlers[h]) /\ handlers[h].pc = "checked"
    BY DEF LoginInv, SessionsTypeOK, AskFactor
<1>2. {c.id : c \in challenges} \subseteq Ids
    BY DEF LoginInv, SessionsTypeOK, MfaChallenge
<1>3. /\ w \in Handler /\ w.pc = IF mfa.enabled THEN "challenge" ELSE "open"
      /\ w.password = handlers[h].password /\ w.overtaken = handlers[h].overtaken
    BY <1>1, <1>2 DEF Handler
<1>4. handlers' = [handlers EXCEPT ![h] = w]
    BY DEF AskFactor, LoginInv, SessionsTypeOK
<1> HIDE DEF w
<1>5. HandlerOK(w)
    BY <1>1, <1>3 DEF HandlerOK, Current
<1>6. begun' \in 0..MaxRequests /\ UNCHANGED <<account, link, mfa, sessions, challenges, now, made>>
    BY DEF AskFactor, LoginInv, SessionsTypeOK
<1> QED
    BY <1>1, <1>3, <1>4, <1>5, <1>6, OnlyHandler

LEMMA CreateChallengeStep ==
    ASSUME LoginInv, NEW h \in Handlers, CreateChallenge(h) PROVE LoginInv'
<1> DEFINE kept == {c \in challenges : c.id \notin handlers[h].doomed}
<1>1. PICK id \in Unused(kept) :
        challenges' = kept \cup {[id |-> id, password |-> handlers[h].password,
                                  attempts |-> 0, overtaken |-> handlers[h].overtaken]}
    BY DEF CreateChallenge
<1> DEFINE new == [id |-> id, password |-> handlers[h].password,
                   attempts |-> 0, overtaken |-> handlers[h].overtaken]
<1>2. handlers[h] \in Handler /\ HandlerOK(handlers[h]) /\ handlers[h].pc = "challenge"
    BY DEF LoginInv, SessionsTypeOK, CreateChallenge
<1>3. Current(handlers[h])
    BY <1>2 DEF HandlerOK
<1>4. id \in Ids /\ 0 \in 0..MaxAttempts
    BY DEF Unused
<1>5. Current(new) /\ new.overtaken = handlers[h].overtaken
    BY <1>3 DEF Current
<1>6. kept \subseteq MfaChallenge /\ \A c \in kept : Current(c)
    BY DEF LoginInv, SessionsTypeOK
<1>7. handlers[h].overtaken \in BOOLEAN
    BY <1>2 DEF Handler
<1>8. handlers[h].password \in 0..MaxPasswords
    BY <1>2 DEF Handler
<1>9. /\ UNCHANGED <<account, link, mfa, sessions, now, made, begun>>
      /\ handlers' = [handlers EXCEPT ![h] = IdleHandler]
    BY DEF CreateChallenge, End
<1>10. handlers[h].password # 0
    BY <1>2 DEF HandlerOK
<1>11. new \in MfaChallenge
    BY <1>4, <1>7, <1>8, <1>10 DEF MfaChallenge
<1> QED
    BY <1>1, <1>2, <1>5, <1>6, <1>9, <1>11, IdleHandlerTyped, EndOK, OneHandler DEF LoginInv, SessionsTypeOK

LEMMA CreateSessionStep ==
    ASSUME LoginInv, NEW h \in Handlers, CreateSession(h) PROVE LoginInv'
<1>1. PICK id \in Unused(sessions) :
        sessions' = sessions \cup {[id |-> id, password |-> handlers[h].password,
                                    factor |-> handlers[h].factor,
                                    overtaken |-> handlers[h].overtaken]}
    BY DEF CreateSession
<1> DEFINE new == [id |-> id, password |-> handlers[h].password, factor |-> handlers[h].factor,
                   overtaken |-> handlers[h].overtaken]
<1>2. handlers[h] \in Handler /\ HandlerOK(handlers[h]) /\ handlers[h].pc = "open"
    BY DEF LoginInv, SessionsTypeOK, CreateSession
<1>3. /\ handlers[h].password \in 0..MaxPasswords /\ handlers[h].password # 0
      /\ handlers[h].factor \in BOOLEAN /\ handlers[h].overtaken \in BOOLEAN
    BY <1>2 DEF Handler, HandlerOK
<1>4. new \in AuthSession
    BY <1>3 DEF AuthSession, Unused
<1>5. Current(new) /\ (mfa.enabled => new.factor \/ new.overtaken)
    BY <1>2 DEF HandlerOK, Current
<1>6. /\ UNCHANGED <<account, link, mfa, challenges, now, made, begun>>
      /\ handlers' = [handlers EXCEPT ![h] = IdleHandler]
    BY DEF CreateSession, End
<1>7. /\ link' \in BOOLEAN /\ mfa' \in MfaCredential /\ challenges' \subseteq MfaChallenge
      /\ made' \in [passwords : 1..MaxPasswords, secrets : 0..MaxSecrets]
      /\ sessions \subseteq AuthSession /\ begun' \in 0..MaxRequests
      /\ \A c \in challenges' : Current(c)
    BY <1>6 DEF LoginInv, SessionsTypeOK
<1> HIDE DEF new
<1>8. sessions' = sessions \cup {new}
    BY <1>1 DEF new
<1> QED
    BY <1>2, <1>4, <1>5, <1>6, <1>7, <1>8, IdleHandlerTyped, EndOK, OneHandler

\* A request begins that neither logs in nor deletes anything yet.
LEMMA PlainBegin ==
    ASSUME LoginInv, NEW h \in Handlers, NEW w \in Handler,
           w.pc \notin {"checked", "challenge", "open", "enable"}, Begin(h, w),
           UNCHANGED <<account, link, mfa, sessions, challenges, now, made>>
    PROVE  LoginInv'
<1>1. HandlerOK(w)
    BY DEF HandlerOK
<1> QED
    BY <1>1, BeginStep

LEMMA LookUpStep == ASSUME LoginInv, NEW h \in Handlers, LookUp(h) PROVE LoginInv'
<1>1. PICK c \in challenges : Begin(h, [IdleHandler EXCEPT !.pc = "code", !.session = c.id,
                                                           !.seen = c.attempts])
    BY DEF LookUp
<1> DEFINE w == [IdleHandler EXCEPT !.pc = "code", !.session = c.id, !.seen = c.attempts]
<1>2. c.id \in Ids /\ c.attempts \in 0..MaxAttempts
    BY DEF LoginInv, SessionsTypeOK, MfaChallenge
<1>3. w \in Handler /\ w.pc = "code"
    BY <1>2, IdleHandlerTyped DEF Handler
<1> QED
    BY <1>1, <1>3, PlainBegin DEF LookUp

LEMMA CheckOldStep == ASSUME LoginInv, NEW h \in Handlers, CheckOld(h) PROVE LoginInv'
<1>1. PICK s \in sessions : Begin(h, [IdleHandler EXCEPT !.pc = "change", !.session = s.id])
    BY DEF CheckOld
<1> DEFINE w == [IdleHandler EXCEPT !.pc = "change", !.session = s.id]
<1>2. s.id \in Ids
    BY DEF LoginInv, SessionsTypeOK, AuthSession
<1>3. w \in Handler /\ w.pc = "change"
    BY <1>2, IdleHandlerTyped DEF Handler
<1> QED
    BY <1>1, <1>3, PlainBegin DEF CheckOld

LEMMA ReadPendingStep == ASSUME LoginInv, NEW h \in Handlers, ReadPending(h) PROVE LoginInv'
<1> DEFINE w == [IdleHandler EXCEPT !.pc = "setup", !.row = mfa.row]
<1>1. mfa.row \in 0..MaxSecrets
    BY DEF LoginInv, SessionsTypeOK, MfaCredential
<1>2. w \in Handler /\ w.pc = "setup"
    BY <1>1, IdleHandlerTyped DEF Handler
<1> QED
    BY <1>2, PlainBegin DEF ReadPending

LEMMA ReadCodeStep == ASSUME LoginInv, NEW h \in Handlers, ReadCode(h) PROVE LoginInv'
<1>1. PICK s \in sessions, c \in FreshCounters(-2) :
        Begin(h, [IdleHandler EXCEPT !.pc = "enable", !.session = s.id, !.row = mfa.row, !.code = c])
    BY DEF ReadCode
<1> DEFINE w == [IdleHandler EXCEPT !.pc = "enable", !.session = s.id, !.row = mfa.row, !.code = c]
<1>2. s.id \in Ids /\ mfa.row \in 0..MaxSecrets
    BY DEF LoginInv, SessionsTypeOK, MfaCredential, AuthSession
<1>3. c \in Counters /\ c \in Codes
    BY CodesTyped DEF FreshCounters, LoginInv, SessionsTypeOK
<1>4. w \in Handler /\ w.pc = "enable" /\ w.code = c
    BY <1>2, <1>3, IdleHandlerTyped DEF Handler
<1>5. HandlerOK(w)
    BY <1>3, <1>4 DEF HandlerOK
<1> QED
    BY <1>1, <1>4, <1>5, BeginStep DEF ReadCode

\* The challenge is used up, counted or gone, and with the right code its login may go on.
LEMMA ConsumeStep == ASSUME LoginInv, NEW h \in Handlers, Consume(h) PROVE LoginInv'
<1>1. /\ handlers[h].pc = "code" /\ handlers[h] \in Handler
      /\ UNCHANGED <<account, link, sessions, now, made, begun>>
    BY DEF Consume, LoginInv, SessionsTypeOK
<1>2. /\ link' \in BOOLEAN /\ sessions' \subseteq AuthSession /\ begun' \in 0..MaxRequests
      /\ made' \in [passwords : 1..MaxPasswords, secrets : 0..MaxSecrets]
      /\ challenges \subseteq MfaChallenge /\ mfa \in MfaCredential
      /\ \A c \in challenges : Current(c)
    BY <1>1 DEF LoginInv, SessionsTypeOK
<1>3. CASE End(h) /\ UNCHANGED <<mfa, challenges>>
    BY <1>1, <1>3, IdleHandlerTyped, EndOK, OnlyHandler DEF End, LoginInv, SessionsTypeOK
<1>4. ASSUME NEW c \in challenges, Refuse(h, c) PROVE LoginInv'
    <2> DEFINE counted == [c EXCEPT !.attempts = handlers[h].seen + 1]
    <2>1. End(h) /\ UNCHANGED mfa
        BY <1>4 DEF Refuse
    <2>2. challenges' = challenges \ {c} \/ challenges' = (challenges \ {c}) \cup {counted}
        BY <1>4 DEF Refuse
    <2>3. challenges' = challenges \ {c} \/ handlers[h].seen + 1 \in 0..MaxAttempts
        BY <1>1, <1>4 DEF Refuse, Handler
    <2>4. /\ handlers[h].seen + 1 \in 0..MaxAttempts => counted \in MfaChallenge
          /\ counted.password = c.password /\ counted.overtaken = c.overtaken
        BY <1>2 DEF MfaChallenge
    <2> HIDE DEF counted
    <2>5. Current(counted)
        BY <1>2, <2>4 DEF Current
    <2>6. challenges' \subseteq MfaChallenge /\ \A d \in challenges' : Current(d)
        BY <1>2, <2>2, <2>3, <2>4, <2>5
    <2> QED
        BY <1>1, <1>2, <2>1, <2>6, IdleHandlerTyped, EndOK, OneHandler DEF End
<1>5. ASSUME NEW c \in challenges, NEW code \in Usable, mfa' = Accepted(code),
             challenges' = challenges \ {c},
             handlers' = [handlers EXCEPT
               ![h] = [IdleHandler EXCEPT !.pc = "open", !.password = c.password,
                                          !.factor = TRUE, !.overtaken = c.overtaken]]
      PROVE  LoginInv'
    <2> DEFINE w == [IdleHandler EXCEPT !.pc = "open", !.password = c.password,
                                        !.factor = TRUE, !.overtaken = c.overtaken]
    <2>1. c.password \in 1..MaxPasswords /\ c.overtaken \in BOOLEAN
        BY <1>2 DEF MfaChallenge
    <2>2. c.password \in 0..MaxPasswords /\ c.password # 0
        BY <2>1
    <2>3. /\ w \in Handler /\ w.pc = "open" /\ w.password = c.password
          /\ w.overtaken = c.overtaken /\ w.factor
        BY <2>1, <2>2, IdleHandlerTyped DEF Handler
    <2>4. handlers' = [handlers EXCEPT ![h] = w]
        BY <1>5
    <2> HIDE DEF w
    <2>5. HandlerOK(w)
        BY <1>2, <2>2, <2>3 DEF HandlerOK, Current
    <2>6. mfa' \in MfaCredential /\ mfa'.enabled = mfa.enabled
        BY <1>5, AcceptedTyped DEF LoginInv
    <2> QED
        BY <1>1, <1>2, <1>5, <2>3, <2>4, <2>5, <2>6, OneHandler
<1> QED
    BY <1>3, <1>4, <1>5 DEF Consume

LEMMA NewPasswordTyped ==
    ASSUME SessionsTypeOK, NewPassword
    PROVE  /\ account' \in Account /\ account'.password = made.passwords + 1
           /\ made' \in [passwords : 1..MaxPasswords, secrets : 0..MaxSecrets]
           /\ made.passwords + 1 \in 1..MaxPasswords
<1>1. made \in [passwords : 1..MaxPasswords, secrets : 0..MaxSecrets] /\ account \in Account
    BY DEF SessionsTypeOK
<1>2. made.passwords + 1 \in 1..MaxPasswords
    BY <1>1 DEF NewPassword
<1> QED
    BY <1>1, <1>2 DEF NewPassword, Account

\* Every row is marked, and every login that has not yet written its row.
LEMMA OutlivedTyped ==
    ASSUME SessionsTypeOK
    PROVE  /\ Outlived(challenges) \subseteq MfaChallenge /\ \A c \in Outlived(challenges) : c.overtaken
           /\ Outlived(sessions) \subseteq AuthSession /\ \A s \in Outlived(sessions) : s.overtaken
BY DEF SessionsTypeOK, Outlived, MfaChallenge, AuthSession

LEMMA OvertakeTyped ==
    ASSUME SessionsTypeOK, NEW hs
    PROVE  /\ Overtake(hs) \in [Handlers -> Handler]
           /\ \A g \in Handlers : /\ Overtake(hs)[g].pc = handlers[g].pc
                                  /\ Overtake(hs)[g].session = handlers[g].session
                                  /\ Overtake(hs)[g].password = handlers[g].password
                                  /\ Overtake(hs)[g].factor = handlers[g].factor
                                  /\ Overtake(hs)[g].code = handlers[g].code
                                  /\ g \in hs => Overtake(hs)[g].overtaken
                                  /\ handlers[g].overtaken => Overtake(hs)[g].overtaken
<1> DEFINE w(g) == [handlers[g] EXCEPT !.overtaken = TRUE]
<1>1. ASSUME NEW g \in Handlers
      PROVE  /\ w(g) \in Handler /\ handlers[g] \in Handler
             /\ w(g).pc = handlers[g].pc /\ w(g).session = handlers[g].session
             /\ w(g).password = handlers[g].password /\ w(g).factor = handlers[g].factor
             /\ w(g).code = handlers[g].code
             /\ w(g).overtaken
    <2>1. handlers[g] \in Handler
        BY DEF SessionsTypeOK
    <2> QED
        BY <2>1 DEF Handler
<1>2. Overtake(hs) = [g \in Handlers |-> IF g \in hs THEN w(g) ELSE handlers[g]]
    BY DEF Overtake
<1> HIDE DEF w
<1> QED
    BY <1>1, <1>2

\* A password that nobody has checked yet: what rested on the old one is marked or gone.
LEMMA ResetStep ==
    ASSUME LoginInv, ConsumeReset \/ Provision PROVE LoginInv'
<1> DEFINE hs == {h \in Handlers : Rests(h)}
<1>1. /\ NewPassword /\ sessions' = {} /\ challenges' \in {{}, Outlived(challenges)}
      /\ handlers' = Overtake(hs) /\ link' \in BOOLEAN /\ UNCHANGED <<mfa, now, begun>>
    BY DEF ConsumeReset, Provision, LoginInv, SessionsTypeOK
<1>2. SessionsTypeOK
    BY DEF LoginInv
<1>3. challenges' \subseteq MfaChallenge /\ \A c \in challenges' : c.overtaken
    BY <1>1, <1>2, OutlivedTyped
<1>4. handlers' \in [Handlers -> Handler]
    BY <1>1, <1>2, OvertakeTyped
<1>5. SessionsTypeOK'
    BY <1>1, <1>2, <1>3, <1>4, NewPasswordTyped DEF SessionsTypeOK
<1>6. ASSUME NEW g \in Handlers PROVE HandlerOK(handlers[g])'
    <2>1. HandlerOK(handlers[g])
        BY DEF LoginInv
    <2>2. handlers'[g].pc \in {"checked", "challenge", "open"} => handlers'[g].overtaken
        BY <1>1, <1>2, OvertakeTyped DEF Rests
    <2> QED
        BY <1>1, <1>2, <2>1, <2>2, OvertakeTyped DEF HandlerOK, Current
<1> QED
    BY <1>1, <1>3, <1>5, <1>6 DEF LoginInv, Current

\* The caller's session goes with the new password; its request will delete the others.
LEMMA CommitNewStep == ASSUME LoginInv, NEW h \in Handlers, CommitNew(h) PROVE LoginInv'
<1> DEFINE hs == {g \in Handlers : Rests(g)}
           w == [Overtake(hs)[h] EXCEPT !.pc = "changed"]
           moved(s) == IF s.id = handlers[h].session
                       THEN [s EXCEPT !.password = made.passwords + 1] ELSE s
<1>1. /\ NewPassword /\ sessions' = {moved(s) : s \in sessions} /\ challenges' = Outlived(challenges)
      /\ handlers' = [Overtake(hs) EXCEPT ![h].pc = "changed"] /\ handlers[h].pc = "change"
      /\ UNCHANGED <<link, mfa, now, begun>>
    BY DEF CommitNew
<1>2. SessionsTypeOK
    BY DEF LoginInv
<1>3. Overtake(hs) \in [Handlers -> Handler]
    BY <1>2, OvertakeTyped
<1>4. w \in Handler /\ w.pc = "changed" /\ w.session = handlers[h].session
    <2>1. Overtake(hs)[h] \in Handler /\ Overtake(hs)[h].session = handlers[h].session
        BY <1>2, <1>3, OvertakeTyped
    <2> HIDE DEF hs
    <2> QED
        BY <2>1 DEF Handler
<1>5. handlers' = [Overtake(hs) EXCEPT ![h] = w]
    BY <1>1, <1>3
<1>6. ASSUME NEW s \in sessions
      PROVE  /\ moved(s) \in AuthSession /\ moved(s).id = s.id
             /\ s.id = handlers[h].session => moved(s).password = made.passwords + 1
             /\ s.factor => moved(s).factor
             /\ s.overtaken => moved(s).overtaken
    <2>1. s \in AuthSession
        BY <1>2 DEF SessionsTypeOK
    <2> QED
        BY <1>1, <1>2, <2>1, NewPasswordTyped DEF AuthSession
<1> HIDE DEF w, moved, hs
<1>7. challenges' \subseteq MfaChallenge /\ \A c \in challenges' : c.overtaken
    BY <1>1, <1>2, OutlivedTyped
<1>8. sessions' \subseteq AuthSession
    BY <1>1, <1>6
<1>9. SessionsTypeOK'
    BY <1>1, <1>2, <1>3, <1>4, <1>5, <1>7, <1>8, NewPasswordTyped DEF SessionsTypeOK
<1>10. ASSUME NEW g \in Handlers PROVE HandlerOK(handlers[g])'
    <2>1. CASE g = h
        BY <1>3, <1>4, <1>5, <2>1 DEF HandlerOK
    <2>2. CASE g # h
        <3>1. HandlerOK(handlers[g]) /\ handlers'[g] = Overtake(hs)[g]
            BY <1>3, <1>5, <2>2 DEF LoginInv
        <3>2. handlers'[g].pc \in {"checked", "challenge", "open"} => handlers'[g].overtaken
            BY <1>2, <3>1, OvertakeTyped DEF Rests, hs
        <3> QED
            BY <1>1, <1>2, <3>1, <3>2, OvertakeTyped DEF HandlerOK, Current
    <2> QED
        BY <2>1, <2>2
<1>11. ASSUME NEW s \in sessions, NEW r, r = moved(s) PROVE SessionOK(r)'
    <2>1. SessionOK(s)
        BY DEF LoginInv
    <2>2. Current(r)' \/ Doomed("changed", r)'
        <3>1. CASE s.id = handlers[h].session
            BY <1>1, <1>2, <1>6, <1>11, <3>1, NewPasswordTyped DEF Current
        <3>2. CASE s.id # handlers[h].session
            <4>1. handlers'[h].pc = "changed" /\ handlers'[h].session # r.id
                BY <1>3, <1>4, <1>5, <1>6, <1>11, <3>2
            <4> QED
                BY <4>1 DEF Doomed
        <3> QED
            BY <3>1, <3>2
    <2>3. Doomed("enabled", s) => Doomed("enabled", r)'
        <3> SUFFICES ASSUME NEW g \in Handlers, handlers[g].pc = "enabled", handlers[g].session # s.id
                     PROVE  handlers'[g].pc = "enabled" /\ handlers'[g].session # r.id
            BY DEF Doomed
        <3>1. g # h /\ handlers'[g] = Overtake(hs)[g]
            BY <1>1, <1>3, <1>5
        <3> QED
            BY <1>2, <1>6, <1>11, <3>1, OvertakeTyped
    <2>4. (s.factor => r.factor) /\ (s.overtaken => r.overtaken) /\ mfa' = mfa
        BY <1>1, <1>6, <1>11
    <2>5. mfa.enabled => s.factor \/ s.overtaken \/ Doomed("enabled", s)
        BY <2>1 DEF SessionOK
    <2>6. (mfa.enabled => r.factor \/ r.overtaken \/ Doomed("enabled", r))'
        BY <2>3, <2>4, <2>5
    <2> QED
        BY <2>2, <2>6 DEF SessionOK
<1>12. \A s \in sessions' : SessionOK(s)'
    BY <1>1, <1>11
<1> QED
    BY <1>7, <1>9, <1>10, <1>12 DEF LoginInv, Current

\* The caller's session is the only one left; what other requests have doomed of it still is.
LEMMA DeleteOthersStep == ASSUME LoginInv, NEW h \in Handlers, DeleteOthers(h) PROVE LoginInv'
<1>1. /\ sessions' = {s \in sessions : s.id = handlers[h].session}
      /\ handlers' = [handlers EXCEPT ![h] = IdleHandler]
      /\ UNCHANGED <<account, link, mfa, challenges, now, made, begun>>
    BY DEF DeleteOthers, End
<1>2. SessionsTypeOK /\ handlers \in [Handlers -> Handler]
    BY DEF LoginInv, SessionsTypeOK
<1>3. SessionsTypeOK'
    BY <1>1, <1>2, IdleHandlerTyped DEF SessionsTypeOK
<1>4. ASSUME NEW g \in Handlers PROVE HandlerOK(handlers[g])'
    <2>1. HandlerOK(handlers[g])
        BY DEF LoginInv
    <2>2. handlers'[g] = handlers[g] \/ handlers'[g] = IdleHandler
        BY <1>1, <1>2
    <2> QED
        BY <1>1, <2>1, <2>2, IdleHandlerTyped DEF HandlerOK, Current
<1>5. ASSUME NEW s \in sessions' PROVE SessionOK(s)'
    <2>1. s \in sessions /\ s.id = handlers[h].session /\ SessionOK(s)
        BY <1>1 DEF LoginInv
    <2>2. ASSUME NEW pc, Doomed(pc, s) PROVE Doomed(pc, s)'
        <3>1. PICK g \in Handlers : handlers[g].pc = pc /\ handlers[g].session # s.id
            BY <2>2 DEF Doomed
        <3>2. handlers'[g] = handlers[g]
            BY <1>1, <1>2, <2>1, <3>1
        <3> QED
            BY <3>1, <3>2 DEF Doomed
    <2> QED
        BY <1>1, <2>1, <2>2 DEF SessionOK, Current
<1> QED
    BY <1>1, <1>3, <1>4, <1>5 DEF LoginInv, Current

\* A request that dies before it has deleted the sessions leaves them marked.
LEMMA DieStep == ASSUME LoginInv, NEW h \in Handlers, Die(h) PROVE LoginInv'
<1>1. /\ handlers' = [handlers EXCEPT ![h] = IdleHandler]
      /\ UNCHANGED <<account, link, mfa, challenges, now, made, begun>>
    BY DEF Die, End
<1>2. CASE handlers[h].pc \notin {"changed", "enabled"}
    <2>1. UNCHANGED sessions /\ begun' \in 0..MaxRequests
        BY <1>1, <1>2 DEF Die, LoginInv, SessionsTypeOK
    <2> QED
        BY <1>1, <1>2, <2>1, IdleHandlerTyped, EndOK, OnlyHandler
<1>3. CASE handlers[h].pc \in {"changed", "enabled"}
    <2>1. sessions' = Outlived(sessions)
        BY <1>3 DEF Die
    <2>2. SessionsTypeOK /\ handlers \in [Handlers -> Handler]
        BY DEF LoginInv, SessionsTypeOK
    <2>3. sessions' \subseteq AuthSession /\ \A s \in sessions' : s.overtaken
        BY <2>1, <2>2, OutlivedTyped
    <2>4. SessionsTypeOK'
        BY <1>1, <2>2, <2>3, IdleHandlerTyped DEF SessionsTypeOK
    <2>5. ASSUME NEW g \in Handlers PROVE HandlerOK(handlers[g])'
        <3>1. HandlerOK(handlers[g])
            BY DEF LoginInv
        <3>2. handlers'[g] = handlers[g] \/ handlers'[g] = IdleHandler
            BY <1>1, <2>2
        <3> QED
            BY <1>1, <3>1, <3>2, IdleHandlerTyped DEF HandlerOK, Current
    <2>6. \A s \in sessions' : SessionOK(s)'
        BY <2>3 DEF SessionOK, Current
    <2> QED
        BY <1>1, <2>4, <2>5, <2>6 DEF LoginInv, Current
<1> QED
    BY <1>2, <1>3

LEMMA SavePendingStep == ASSUME LoginInv, NEW h \in Handlers, SavePending(h) PROVE LoginInv'
<1> DEFINE new == [NoCredential EXCEPT !.row = NewSecret, !.secret = NewSecret]
           same == [mfa EXCEPT !.secret = NewSecret, !.uses = NoUses]
<1>1. /\ mfa \in MfaCredential /\ NewSecret \in 0..MaxSecrets /\ begun \in 0..MaxRequests
      /\ made \in [passwords : 1..MaxPasswords, secrets : 0..MaxSecrets]
    BY DEF SavePending, NewSecret, LoginInv, SessionsTypeOK
<1>2. NoUses \in [Codes -> Nat]
    BY DEF NoUses
<1>3. new \in MfaCredential /\ ~new.enabled
    BY <1>1, NoCredentialTyped DEF MfaCredential
<1>4. same \in MfaCredential /\ same.enabled = mfa.enabled
    BY <1>1, <1>2 DEF MfaCredential
<1>5. mfa' = mfa \/ mfa' = new \/ mfa' = same
    BY DEF SavePending
<1>6. made' \in [passwords : 1..MaxPasswords, secrets : 0..MaxSecrets]
    BY <1>1 DEF SavePending
<1>7. /\ handlers' = [handlers EXCEPT ![h] = IdleHandler] /\ handlers[h].pc = "setup"
      /\ UNCHANGED <<account, link, sessions, challenges, now, begun>>
    BY DEF SavePending, End
<1> HIDE DEF new, same
<1>8. mfa' \in MfaCredential /\ (mfa'.enabled => mfa.enabled)
    BY <1>1, <1>3, <1>4, <1>5
<1> QED
    BY <1>1, <1>6, <1>7, <1>8, IdleHandlerTyped, EndOK, OneHandler DEF LoginInv, SessionsTypeOK

LEMMA CheckFactorStep == ASSUME LoginInv, NEW h \in Handlers, CheckFactor(h) PROVE LoginInv'
<1>1. PICK code \in Usable : mfa' = Accepted(code)
    BY DEF CheckFactor
<1> DEFINE w == [IdleHandler EXCEPT !.pc = "disable"]
<1>2. w \in Handler /\ w.pc = "disable"
    BY IdleHandlerTyped DEF Handler
<1>3. HandlerOK(w)
    BY <1>2 DEF HandlerOK
<1>4. mfa' \in MfaCredential /\ mfa'.enabled = mfa.enabled
    BY <1>1, AcceptedTyped DEF LoginInv
<1>5. /\ handlers[h].pc = "idle" /\ begun' \in 0..MaxRequests /\ handlers' = [handlers EXCEPT ![h] = w]
      /\ UNCHANGED <<account, link, sessions, challenges, now, made>>
    BY DEF CheckFactor, Begin, LoginInv, SessionsTypeOK
<1> HIDE DEF w
<1>6. /\ link' \in BOOLEAN /\ sessions' \subseteq AuthSession /\ challenges' \subseteq MfaChallenge
      /\ made' \in [passwords : 1..MaxPasswords, secrets : 0..MaxSecrets]
      /\ \A c \in challenges' : Current(c)
    BY <1>5 DEF LoginInv, SessionsTypeOK
<1> QED
    BY <1>2, <1>3, <1>4, <1>5, <1>6, OneHandler

LEMMA DisableStep == ASSUME LoginInv, NEW h \in Handlers, Disable(h) PROVE LoginInv'
<1>1. /\ mfa' = NoCredential /\ challenges' = {} /\ sessions' = {} /\ handlers[h].pc = "disable"
      /\ handlers' = [handlers EXCEPT ![h] = IdleHandler]
      /\ UNCHANGED <<account, link, now, made, begun>>
    BY DEF Disable, RemoveCredential, End
<1>2. /\ link' \in BOOLEAN /\ begun' \in 0..MaxRequests
      /\ made' \in [passwords : 1..MaxPasswords, secrets : 0..MaxSecrets]
    BY <1>1 DEF LoginInv, SessionsTypeOK
<1> QED
    BY <1>1, <1>2, IdleHandlerTyped, NoCredentialTyped, EndOK, OneHandler

\* The caller's session has its second factor; its request will delete the others.  A login that
\* had found the factor disabled is marked.
LEMMA EnableStep == ASSUME LoginInv, NEW h \in Handlers, Enable(h) PROVE LoginInv'
<1>1. CASE mfa.row # handlers[h].row /\ End(h) /\ UNCHANGED <<mfa, sessions, challenges>>
    <2>1. /\ handlers[h].pc = "enable" /\ handlers' = [handlers EXCEPT ![h] = IdleHandler]
          /\ UNCHANGED <<account, link, mfa, sessions, challenges, now, made>>
          /\ begun' \in 0..MaxRequests
        BY <1>1 DEF Enable, End, LoginInv, SessionsTypeOK
    <2> QED
        BY <2>1, IdleHandlerTyped, EndOK, OnlyHandler
<1>2. CASE mfa.row = handlers[h].row /\ challenges' = {}
    <2> DEFINE hs == {g \in Handlers : handlers[g].pc = "open" /\ ~handlers[g].factor}
               w == [Overtake(hs)[h] EXCEPT !.pc = "enabled"]
               marked(s) == IF s.id = handlers[h].session THEN [s EXCEPT !.factor = TRUE] ELSE s
    <2>0. \/ mfa.row # handlers[h].row
          \/ /\ mfa' = [mfa EXCEPT !.enabled = TRUE, !.last = handlers[h].code, !.recovery = TRUE,
                                   !.uses[RecoveryCode] = 0, !.doubled = @ \/ mfa.enabled]
             /\ sessions' = {marked(s) : s \in sessions}
             /\ handlers' = [Overtake(hs) EXCEPT ![h].pc = "enabled"]
        BY DEF Enable
    <2>1. /\ mfa' = [mfa EXCEPT !.enabled = TRUE, !.last = handlers[h].code, !.recovery = TRUE,
                                !.uses[RecoveryCode] = 0, !.doubled = @ \/ mfa.enabled]
          /\ sessions' = {marked(s) : s \in sessions}
          /\ handlers' = [Overtake(hs) EXCEPT ![h].pc = "enabled"] /\ handlers[h].pc = "enable"
          /\ UNCHANGED <<account, link, now, made, begun>>
        BY <1>2, <2>0 DEF Enable
    <2>2. SessionsTypeOK /\ handlers[h] \in Handler
        BY DEF LoginInv, SessionsTypeOK
    <2>3. Overtake(hs) \in [Handlers -> Handler]
        BY <2>2, OvertakeTyped
    <2>4. w \in Handler /\ w.pc = "enabled" /\ w.session = handlers[h].session
        <3>1. Overtake(hs)[h] \in Handler /\ Overtake(hs)[h].session = handlers[h].session
            BY <2>2, <2>3, OvertakeTyped
        <3> HIDE DEF hs
        <3> QED
            BY <3>1 DEF Handler
    <2>5. handlers' = [Overtake(hs) EXCEPT ![h] = w]
        BY <2>1, <2>3
    <2>6. ASSUME NEW s \in sessions
          PROVE  /\ marked(s) \in AuthSession /\ marked(s).id = s.id
                 /\ marked(s).password = s.password /\ marked(s).overtaken = s.overtaken
                 /\ s.id = handlers[h].session => marked(s).factor
        <3>1. s \in AuthSession
            BY <2>2 DEF SessionsTypeOK
        <3> QED
            BY <3>1 DEF AuthSession
    <2>7. mfa' \in MfaCredential
        <3>1. mfa \in MfaCredential /\ mfa.uses \in [Codes -> Nat]
            BY <2>2 DEF SessionsTypeOK, MfaCredential
        <3>2. [mfa.uses EXCEPT ![RecoveryCode] = 0] \in [Codes -> Nat]
            BY <3>1
        <3>3. handlers[h].code \in Counters \cup {-2}
            BY <2>1 DEF LoginInv, HandlerOK
        <3>4. mfa' = [mfa EXCEPT !.enabled = TRUE, !.last = handlers[h].code, !.recovery = TRUE,
                                 !.uses = [mfa.uses EXCEPT ![RecoveryCode] = 0],
                                 !.doubled = @ \/ mfa.enabled]
            BY <2>1, <3>1 DEF MfaCredential
        <3> QED
            BY <3>1, <3>2, <3>3, <3>4 DEF MfaCredential
    <2> HIDE DEF w, marked, hs
    <2>8. sessions' \subseteq AuthSession
        BY <2>1, <2>6
    <2>9. SessionsTypeOK'
        BY <1>2, <2>1, <2>2, <2>3, <2>4, <2>5, <2>7, <2>8 DEF SessionsTypeOK
    <2>10. ASSUME NEW g \in Handlers PROVE HandlerOK(handlers[g])'
        <3>1. CASE g = h
            BY <2>3, <2>4, <2>5, <3>1 DEF HandlerOK
        <3>2. CASE g # h
            <4>1. HandlerOK(handlers[g]) /\ handlers'[g] = Overtake(hs)[g]
                BY <2>3, <2>5, <3>2 DEF LoginInv
            <4>2. handlers'[g].pc = "open" => handlers'[g].factor \/ handlers'[g].overtaken
                BY <2>2, <4>1, OvertakeTyped DEF hs
            <4> QED
                BY <2>1, <2>2, <4>1, <4>2, OvertakeTyped DEF HandlerOK, Current
        <3> QED
            BY <3>1, <3>2
    <2>11. ASSUME NEW s \in sessions, NEW r, r = marked(s) PROVE SessionOK(r)'
        <3>1. SessionOK(s) /\ account' = account
            BY <2>1 DEF LoginInv
        <3>2. Doomed("changed", s) => Doomed("changed", r)'
            <4> SUFFICES ASSUME NEW g \in Handlers, handlers[g].pc = "changed", handlers[g].session # s.id
                         PROVE  handlers'[g].pc = "changed" /\ handlers'[g].session # r.id
                BY DEF Doomed
            <4>1. g # h /\ handlers'[g] = Overtake(hs)[g]
                BY <2>1, <2>3, <2>5
            <4> QED
                BY <2>2, <2>6, <2>11, <4>1, OvertakeTyped
        <3>3. (Current(r) \/ Doomed("changed", r))'
            BY <2>6, <2>11, <3>1, <3>2 DEF SessionOK, Current
        <3>4. r.factor \/ Doomed("enabled", r)'
            <4>1. CASE s.id = handlers[h].session
                BY <2>6, <2>11, <4>1
            <4>2. CASE s.id # handlers[h].session
                <5>1. handlers'[h].pc = "enabled" /\ handlers'[h].session # r.id
                    BY <2>3, <2>4, <2>5, <2>6, <2>11, <4>2
                <5> QED
                    BY <5>1 DEF Doomed
            <4> QED
                BY <4>1, <4>2
        <3> QED
            BY <3>3, <3>4 DEF SessionOK
    <2>12. \A s \in sessions' : SessionOK(s)'
        BY <2>1, <2>11
    <2> QED
        BY <1>2, <2>9, <2>10, <2>12 DEF LoginInv, Current
<1> QED
    BY <1>1, <1>2 DEF Enable

\* The steps of nobody's request.
LEMMA OutsideStep ==
    ASSUME LoginInv,
           \/ IssueReset \/ ExpireReset \/ AdminResetMfa \/ Revoke \/ ExpireChallenge \/ Tick
           \/ \E blocked \in BOOLEAN : Block(blocked)
    PROVE  LoginInv'
<1>1. /\ account \in Account /\ link \in BOOLEAN /\ mfa \in MfaCredential /\ now \in 0..MaxClock
    BY DEF LoginInv, SessionsTypeOK
<1>2. CASE IssueReset \/ ExpireReset \/ Revoke \/ ExpireChallenge
    BY <1>1, <1>2, NoHandler DEF IssueReset, ExpireReset, Revoke, ExpireChallenge
<1>3. CASE AdminResetMfa
    BY <1>1, <1>3, NoHandler, NoCredentialTyped DEF AdminResetMfa, RemoveCredential
<1>4. CASE Tick
    BY <1>1, <1>4, NoHandler DEF Tick
<1>5. ASSUME NEW blocked \in BOOLEAN, Block(blocked) PROVE LoginInv'
    <2>1. account' \in Account /\ account'.password = account.password
        BY <1>1, <1>5 DEF Block, Account
    <2> QED
        BY <1>1, <1>5, <2>1, NoHandler DEF Block
<1> QED
    BY <1>2, <1>3, <1>4, <1>5

LEMMA LoginNext == ASSUME LoginInv, [SessionsNext]_sessionsVars PROVE LoginInv'
<1>1. CASE UNCHANGED sessionsVars
    BY <1>1 DEF sessionsVars, LoginInv, SessionsTypeOK, Current, SessionOK, HandlerOK, Doomed
<1>2. ASSUME NEW h \in Handlers,
             \/ Authenticate(h) \/ AskFactor(h) \/ CreateChallenge(h) \/ CreateSession(h)
             \/ LookUp(h) \/ Consume(h)
             \/ CheckOld(h) \/ CommitNew(h) \/ DeleteOthers(h)
             \/ ReadPending(h) \/ SavePending(h) \/ ReadCode(h) \/ Enable(h)
             \/ CheckFactor(h) \/ Disable(h) \/ Die(h)
      PROVE  LoginInv'
    BY <1>2, AuthenticateStep, AskFactorStep, CreateChallengeStep, CreateSessionStep, LookUpStep,
       ConsumeStep, CheckOldStep, CommitNewStep, DeleteOthersStep, ReadPendingStep, SavePendingStep,
       ReadCodeStep, EnableStep, CheckFactorStep, DisableStep, DieStep
<1> QED
    BY <1>1, <1>2, ResetStep, OutsideStep DEF SessionsNext

-----------------------------------------------------------------------------
(* Codes.                                                                  *)

\* An accepted code cannot be accepted again: a recovery code is spent, a time code is not
\* later than the last one any more.
LEMMA AcceptStep ==
    ASSUME SessionsTypeOK, UsedOnce(mfa), mfa.enabled, NEW code \in Usable
    PROVE  UsedOnce(Accepted(code))
<1> DEFINE m == Accepted(code)
<1>1. /\ m.uses = [mfa.uses EXCEPT ![code] = @ + 1] /\ m.enabled = mfa.enabled
      /\ m.last = (IF code = RecoveryCode THEN mfa.last ELSE code)
      /\ m.recovery = (mfa.recovery /\ code # RecoveryCode)
    BY AcceptedTyped
<1> HIDE DEF m
<1>2. /\ code \in Codes /\ mfa.uses \in [Codes -> Nat] /\ mfa.last \in Counters \cup {-2}
      /\ mfa.recovery \in BOOLEAN
    BY UsableTyped DEF SessionsTypeOK, MfaCredential
<1>3. \A c \in Codes : m.uses[c] = IF c = code THEN mfa.uses[c] + 1 ELSE mfa.uses[c]
    BY <1>1, <1>2
<1>4. CASE code = RecoveryCode
    <2>1. mfa.recovery
        BY <1>4, CodesTyped DEF Usable, FreshCounters, SessionsTypeOK
    <2>2. mfa.uses[code] = 0 /\ m.last = mfa.last /\ ~m.recovery /\ m.enabled
        BY <1>1, <1>4, <2>1 DEF UsedOnce
    <2>3. \A c \in Codes : m.uses[c] <= 1
        BY <1>2, <1>3, <2>2 DEF UsedOnce
    <2>4. \A c \in Counters : c > m.last => m.uses[c] = 0
        BY <1>3, <1>4, <2>2, CodesTyped DEF UsedOnce
    <2> QED
        BY <2>2, <2>3, <2>4 DEF UsedOnce, m
<1>5. CASE code # RecoveryCode
    <2>1. code \in Counters /\ code > mfa.last
        BY <1>2, <1>5, CodesTyped DEF Usable, FreshCounters, Codes
    <2>2. mfa.uses[code] = 0 /\ m.last = code /\ (m.recovery => mfa.recovery) /\ m.enabled
        <3>1. mfa.uses[code] = 0
            BY <2>1 DEF UsedOnce
        <3>2. m.last = code /\ (m.recovery => mfa.recovery)
            BY <1>1, <1>5
        <3> QED
            BY <1>1, <3>1, <3>2
    <2>3. \A c \in Codes : m.uses[c] <= 1
        BY <1>2, <1>3, <2>2 DEF UsedOnce
    <2>4. ASSUME NEW c \in Counters, c > m.last PROVE m.uses[c] = 0
        <3>1. c \in Int /\ code \in Int /\ mfa.last \in Int /\ c \in Codes
            <4>1. mfa.last \in Counters \/ mfa.last = -2
                BY <1>2
            <4> QED
                BY <2>1, <4>1, CodesTyped DEF Counters
        <3>2. c > mfa.last /\ c # code
            BY <2>1, <2>2, <2>4, <3>1
        <3> QED
            BY <1>3, <3>1, <3>2 DEF UsedOnce
    <2>5. m.recovery => m.uses[RecoveryCode] = 0
        BY <1>3, <1>5, <2>2, CodesTyped DEF UsedOnce
    <2> QED
        BY <2>2, <2>3, <2>4, <2>5 DEF UsedOnce, m
<1> QED
    BY <1>4, <1>5

LEMMA NoCredentialUsed == UsedOnce(NoCredential)
BY NoCredentialTyped, CodesTyped DEF UsedOnce

\* A new secret has not been used; one that replaces an enabled secret leaves the last counter
\* and the recovery code as they are.
LEMMA SavedUsed ==
    ASSUME CodesInv, NEW h \in Handlers, SavePending(h)
    PROVE  ~mfa'.doubled => UsedOnce(mfa')
<1> DEFINE new == [NoCredential EXCEPT !.row = NewSecret, !.secret = NewSecret]
           same == [mfa EXCEPT !.secret = NewSecret, !.uses = NoUses]
<1>1. mfa \in MfaCredential
    BY DEF CodesInv, SessionsTypeOK
<1>2. /\ new.uses = NoCredential.uses /\ new.last = NoCredential.last
      /\ new.recovery = NoCredential.recovery /\ new.enabled = NoCredential.enabled
    BY NoCredentialTyped DEF MfaCredential
<1>3. UsedOnce(new)
    BY <1>2, NoCredentialUsed DEF UsedOnce
<1>4. same.uses = NoUses /\ \A c \in Codes : NoUses[c] = 0
    BY <1>1 DEF MfaCredential, NoUses
<1>5. UsedOnce(same)
    BY <1>4, CodesTyped DEF UsedOnce
<1>6. mfa' = mfa \/ mfa' = new \/ mfa' = same
    BY DEF SavePending
<1> HIDE DEF new, same
<1> QED
    BY <1>3, <1>5, <1>6 DEF CodesInv

LEMMA EnabledUsed ==
    ASSUME CodesInv, NEW h \in Handlers, Enable(h)
    PROVE  ~mfa'.doubled => UsedOnce(mfa')
<1>1. CASE mfa' = mfa
    BY <1>1 DEF CodesInv
<1>2. CASE mfa' = [mfa EXCEPT !.enabled = TRUE, !.last = handlers[h].code, !.recovery = TRUE,
                              !.uses[RecoveryCode] = 0, !.doubled = @ \/ mfa.enabled]
    <2>1. mfa \in MfaCredential /\ mfa.uses \in [Codes -> Nat]
        BY DEF CodesInv, SessionsTypeOK, MfaCredential
    <2>2. /\ mfa'.uses = [mfa.uses EXCEPT ![RecoveryCode] = 0] /\ mfa'.enabled
          /\ mfa'.doubled = (mfa.doubled \/ mfa.enabled)
        BY <1>2, <2>1 DEF MfaCredential
    <2>3. ASSUME ~mfa'.doubled PROVE UsedOnce(mfa')
        <3>1. \A c \in Codes : mfa.uses[c] = 0
            BY <2>2, <2>3 DEF CodesInv, UsedOnce
        <3>2. \A c \in Codes : mfa'.uses[c] = 0
            BY <2>1, <2>2, <3>1
        <3> QED
            BY <2>2, <3>2, CodesTyped DEF UsedOnce
    <2> QED
        BY <2>3
<1> QED
    BY <1>1, <1>2 DEF Enable

LEMMA CodesNext ==
    ASSUME CodesInv, SessionsTypeOK', [SessionsNext]_sessionsVars PROVE CodesInv'
<1>1. CASE UNCHANGED mfa
    BY <1>1 DEF CodesInv, UsedOnce
<1>2. ASSUME NEW code \in Usable, mfa' = Accepted(code), mfa.enabled PROVE CodesInv'
    <2>1. mfa'.doubled = mfa.doubled
        BY <1>2, AcceptedTyped DEF CodesInv
    <2>2. ~mfa'.doubled => UsedOnce(Accepted(code))
        BY <1>2, <2>1, AcceptStep DEF CodesInv
    <2> QED
        BY <1>2, <2>2 DEF CodesInv, UsedOnce
<1>3. CASE RemoveCredential
    BY <1>3, NoCredentialUsed DEF CodesInv, UsedOnce, RemoveCredential
<1>4. ASSUME NEW h \in Handlers, SavePending(h) \/ Enable(h) PROVE CodesInv'
    <2>1. ~mfa'.doubled => UsedOnce(mfa')
        BY <1>4, SavedUsed, EnabledUsed
    <2> QED
        BY <2>1 DEF CodesInv, UsedOnce
<1>5. ASSUME NEW h \in Handlers, Consume(h) \/ CheckFactor(h) \/ Disable(h) PROVE CodesInv'
    <2>1. CASE Consume(h)
        <3>1. \/ UNCHANGED mfa
              \/ mfa.enabled /\ \E code \in Usable : mfa' = Accepted(code)
            BY <2>1 DEF Consume, Refuse
        <3> QED
            BY <1>1, <1>2, <3>1
    <2>2. CASE CheckFactor(h)
        BY <1>2, <2>2 DEF CheckFactor
    <2>3. CASE Disable(h)
        BY <1>3, <2>3 DEF Disable
    <2> QED
        BY <1>5, <2>1, <2>2, <2>3
<1>6. ASSUME NEW h \in Handlers,
             \/ Authenticate(h) \/ AskFactor(h) \/ CreateChallenge(h) \/ CreateSession(h)
             \/ LookUp(h) \/ CheckOld(h) \/ CommitNew(h) \/ DeleteOthers(h)
             \/ ReadPending(h) \/ ReadCode(h) \/ Die(h)
      PROVE  CodesInv'
    BY <1>1, <1>6 DEF Authenticate, AskFactor, CreateChallenge, CreateSession, LookUp, CheckOld,
                      CommitNew, DeleteOthers, ReadPending, ReadCode, Die
<1>7. CASE \/ IssueReset \/ ExpireReset \/ ConsumeReset \/ Provision
           \/ Revoke \/ ExpireChallenge \/ Tick \/ \E blocked \in BOOLEAN : Block(blocked)
    BY <1>1, <1>7 DEF IssueReset, ExpireReset, ConsumeReset, Provision, Revoke, ExpireChallenge,
                      Tick, Block
<1>8. CASE AdminResetMfa
    BY <1>3, <1>8 DEF AdminResetMfa
<1>9. CASE UNCHANGED sessionsVars
    BY <1>1, <1>9 DEF sessionsVars
<1> QED
    BY <1>4, <1>5, <1>6, <1>7, <1>8, <1>9 DEF SessionsNext

-----------------------------------------------------------------------------

LEMMA LoginInvariant == SessionsSpec => []LoginInv
<1>1. SessionsInit => LoginInv
    BY LoginInit
<1> QED
    BY <1>1, LoginNext, PTL DEF SessionsSpec

\* Type correctness: every reachable state of an account and its logins is well typed.
THEOREM SessionsTypeCorrect == SessionsSpec => []SessionsTypeOK
<1>1. LoginInv => SessionsTypeOK
    BY DEF LoginInv
<1> QED
    BY <1>1, LoginInvariant, PTL

\* A session or a challenge rests on the present password (auth.py's create_session, mfa.py's
\* create_challenge, and what a reset or a change of the password deletes), unless its login was
\* overtaken by the change.
THEOREM PasswordIsCurrent == SessionsSpec => []CurrentPassword
<1>1. LoginInv => CurrentPassword
    <2> SUFFICES ASSUME LoginInv, \A h \in Handlers : handlers[h].pc # "changed",
                        NEW r \in sessions \cup challenges
                 PROVE  r.password = account.password \/ r.overtaken
        BY DEF CurrentPassword
    <2> QED
        BY DEF LoginInv, SessionOK, Doomed, Current
<1> QED
    BY <1>1, LoginInvariant, PTL

\* While the second factor is enabled, every session has passed it (main.py 546-561), unless its
\* login was overtaken by the request that has enabled it.
THEOREM FactorIsPassed == SessionsSpec => []SecondFactor
<1>1. LoginInv => SecondFactor
    BY DEF LoginInv, SessionOK, Doomed, SecondFactor
<1> QED
    BY <1>1, LoginInvariant, PTL

\* A code is accepted once (mfa.py's verify_second_factor, under the lock of the credential),
\* however many logins and requests try it, unless two requests have enabled the same row.
THEOREM CodeIsUsedOnce == SessionsSpec => []FactorUsedOnce
<1>1. CodesInv => FactorUsedOnce
    BY DEF CodesInv, FactorUsedOnce, UsedOnce
<1>2. SessionsInit => CodesInv
    BY LoginInit
<1> QED
    BY <1>1, <1>2, CodesNext, SessionsTypeCorrect, PTL DEF SessionsSpec

=============================================================================
