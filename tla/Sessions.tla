------------------------------ MODULE Sessions ------------------------------
(***************************************************************************)
(* The login of one account (auth.py, mfa.py, password_reset.py and their  *)
(* endpoints in main.py): its password, its second factor, the sessions    *)
(* and challenges that rest on them, and the requests that change them.    *)
(*                                                                         *)
(* A request is a handler with its own database transaction (READ          *)
(* COMMITTED): what it has read may have changed when it commits.  A step  *)
(* runs from one commit, or one read that matters later, to the next.      *)
(* What runs under a row lock, or commits what it has read at once, is one *)
(* step.                                                                   *)
(*                                                                         *)
(* Passwords and secrets are numbered in the order they are made.          *)
(***************************************************************************)
EXTENDS Integers, FiniteSets

CONSTANTS Handlers,       \* requests that can be under way at a time
          Ids,            \* ids of sessions, and of challenges
          Nothing,
          MaxPasswords, MaxSecrets, MaxClock, MaxRequests,
          MaxAttempts     \* CHALLENGE_MAX_ATTEMPTS

ASSUME SessionsAssumption ==
    /\ Nothing \notin Ids
    /\ MaxPasswords \in Nat \ {0} /\ MaxAttempts \in Nat \ {0}
    /\ MaxSecrets \in Nat /\ MaxClock \in Nat /\ MaxRequests \in Nat

VARIABLES account, link, mfa, sessions, challenges, handlers, now, made, begun

sessionsVars == <<account, link, mfa, sessions, challenges, handlers, now, made, begun>>

-----------------------------------------------------------------------------

\* link: whether the last password reset link is unspent and unexpired.
Account == [password : 1..MaxPasswords, blocked : BOOLEAN]

Counters == -1..(MaxClock + 1)
RecoveryCode == MaxClock + 2
Codes == Counters \cup {RecoveryCode}

\* row: which row of the table it is (0: none).  recovery: the recovery code is unspent.  last
\* is last_totp_counter, -2 for none.  Kept for the properties only: uses counts the times a
\* code was accepted, doubled says that two requests have enabled the row.
MfaCredential == [row : 0..MaxSecrets, enabled : BOOLEAN, secret : 0..MaxSecrets,
                  last : Counters \cup {-2}, recovery : BOOLEAN,
                  uses : [Codes -> Nat], doubled : BOOLEAN]
NoCredential == [row |-> 0, enabled |-> FALSE, secret |-> 0, last |-> -2, recovery |-> FALSE,
                 uses |-> [c \in Codes |-> 0], doubled |-> FALSE]

\* password: the one that its login has checked.  factor: a second factor was checked too, or
\* the session itself has set it up.  overtaken (kept for the properties only): the check it
\* rests on was out of date before the row was written, or nobody was left to delete it.
AuthSession == [id : Ids, password : 1..MaxPasswords, factor : BOOLEAN, overtaken : BOOLEAN]
MfaChallenge == [id : Ids, password : 1..MaxPasswords, attempts : 0..MaxAttempts,
                 overtaken : BOOLEAN]

\* session: the caller's own.  seen: attempts, doomed: challenges, row and code: credential and
\* code, as the handler has read them.
Handler == [pc : {"idle", "checked", "challenge", "code", "open", "change", "changed",
                  "setup", "enable", "enabled", "disable"},
            session : Ids \cup {Nothing}, password : 0..MaxPasswords, factor : BOOLEAN,
            overtaken : BOOLEAN, seen : 0..MaxAttempts, doomed : SUBSET Ids,
            row : 0..MaxSecrets, code : Codes]
IdleHandler == [pc |-> "idle", session |-> Nothing, password |-> 0, factor |-> FALSE,
                overtaken |-> FALSE, seen |-> 0, doomed |-> {}, row |-> 0, code |-> RecoveryCode]

SessionsTypeOK ==
    /\ account \in Account /\ link \in BOOLEAN
    /\ mfa \in MfaCredential
    /\ sessions \subseteq AuthSession /\ challenges \subseteq MfaChallenge
    /\ handlers \in [Handlers -> Handler]
    /\ now \in 0..MaxClock
    /\ made \in [passwords : 1..MaxPasswords, secrets : 0..MaxSecrets]
    /\ begun \in 0..MaxRequests

\* An account that has just been made, with its first password.
SessionsInit ==
    /\ account = [password |-> 1, blocked |-> FALSE] /\ link = FALSE
    /\ mfa = NoCredential
    /\ sessions = {} /\ challenges = {}
    /\ handlers = [h \in Handlers |-> IdleHandler]
    /\ now = 0 /\ made = [passwords |-> 1, secrets |-> 0] /\ begun = 0

-----------------------------------------------------------------------------

\* An id that no row has and no handler remembers.
Unused(rows) == Ids \ ({r.id : r \in rows} \cup {handlers[h].session : h \in Handlers})

\* The steps of a handler.
Begin(h, new) == /\ handlers[h].pc = "idle" /\ begun < MaxRequests
                 /\ begun' = begun + 1
                 /\ handlers' = [handlers EXCEPT ![h] = new]
End(h) == handlers' = [handlers EXCEPT ![h] = IdleHandler]

\* principal_from_bearer and current_user: whose session asks.
Caller(s) == s \in sessions /\ ~account.blocked

\* A login that has checked the password and not yet written what rests on it.
Rests(h) == handlers[h].pc \in {"checked", "challenge", "open"}
Overtake(hs) == [h \in Handlers |-> IF h \in hs THEN [handlers[h] EXCEPT !.overtaken = TRUE]
                                    ELSE handlers[h]]

\* The password is a new one.
NewPassword == /\ made.passwords < MaxPasswords
               /\ made' = [made EXCEPT !.passwords = @ + 1]
               /\ account' = [account EXCEPT !.password = made.passwords + 1]
Outlived(rows) == {[r EXCEPT !.overtaken = TRUE] : r \in rows}

\* verify_totp: the counters around the clock that are later than last.
FreshCounters(last) == {c \in (now - 1)..(now + 1) : c > last}
Usable == FreshCounters(mfa.last) \cup (IF mfa.recovery THEN {RecoveryCode} ELSE {})

\* Faulty: the list of recovery codes is changed in place, which the session does not notice.
AcceptedInPlace(code) ==
    [mfa EXCEPT !.uses[code] = @ + 1,
                !.last = IF code = RecoveryCode THEN @ ELSE code]

Accepted(code) ==
    [mfa EXCEPT !.uses[code] = @ + 1,
                !.last = IF code = RecoveryCode THEN @ ELSE code,
                !.recovery = @ /\ code # RecoveryCode]

-----------------------------------------------------------------------------
(* Login.                                                                  *)

\* authenticate_password.
Authenticate(h) ==
    /\ ~account.blocked
    /\ Begin(h, [IdleHandler EXCEPT !.pc = "checked", !.password = account.password])
    /\ UNCHANGED <<account, link, mfa, sessions, challenges, now, made>>

\* enabled_credential.  The DELETE of create_challenge takes the rows of this moment.
AskFactor(h) ==
    /\ handlers[h].pc = "checked"
    /\ handlers' = [handlers EXCEPT
         ![h].pc = IF mfa.enabled THEN "challenge" ELSE "open",
         ![h].doomed = IF mfa.enabled THEN {c.id : c \in challenges} ELSE {}]
    /\ UNCHANGED <<account, link, mfa, sessions, challenges, now, made, begun>>

CreateChallenge(h) ==
    LET kept == {c \in challenges : c.id \notin handlers[h].doomed}
    IN  /\ handlers[h].pc = "challenge"
        /\ \E id \in Unused(kept) :
             challenges' = kept \cup {[id |-> id, password |-> handlers[h].password,
                                       attempts |-> 0, overtaken |-> handlers[h].overtaken]}
        /\ End(h)
        /\ UNCHANGED <<account, link, mfa, sessions, now, made, begun>>

CreateSession(h) ==
    /\ handlers[h].pc = "open"
    /\ \E id \in Unused(sessions) :
         sessions' = sessions \cup {[id |-> id, password |-> handlers[h].password,
                                     factor |-> handlers[h].factor,
                                     overtaken |-> handlers[h].overtaken]}
    /\ End(h)
    /\ UNCHANGED <<account, link, mfa, challenges, now, made, begun>>

\* auth_mfa_verify looks the challenge up; consume_challenge locks the row but keeps the
\* attributes that were loaded here.
LookUp(h) ==
    /\ \E c \in challenges : Begin(h, [IdleHandler EXCEPT !.pc = "code", !.session = c.id,
                                                          !.seen = c.attempts])
    /\ UNCHANGED <<account, link, mfa, sessions, challenges, now, made>>

Refuse(h, c) ==
    /\ challenges' = IF handlers[h].seen + 1 >= MaxAttempts \/ ~mfa.enabled
                     THEN challenges \ {c}
                     ELSE (challenges \ {c}) \cup {[c EXCEPT !.attempts = handlers[h].seen + 1]}
    /\ End(h) /\ UNCHANGED mfa

\* consume_challenge, under the locks of the challenge and of the credential.
Consume(h) ==
    /\ handlers[h].pc = "code"
    /\ \/ /\ \A c \in challenges : c.id # handlers[h].session
          /\ End(h) /\ UNCHANGED <<mfa, challenges>>
       \/ \E c \in challenges :
            /\ c.id = handlers[h].session
            /\ \/ Refuse(h, c)
               \/ /\ mfa.enabled
                  /\ \E code \in Usable : mfa' = Accepted(code)
                  /\ challenges' = challenges \ {c}
                  /\ handlers' = [handlers EXCEPT
                       ![h] = [IdleHandler EXCEPT !.pc = "open", !.password = c.password,
                                                  !.factor = TRUE, !.overtaken = c.overtaken]]
    /\ UNCHANGED <<account, link, sessions, now, made, begun>>

-----------------------------------------------------------------------------
(* The password.                                                           *)

IssueReset == /\ ~account.blocked /\ link' = TRUE
              /\ UNCHANGED <<account, mfa, sessions, challenges, handlers, now, made, begun>>

ExpireReset == /\ link /\ link' = FALSE
               /\ UNCHANGED <<account, mfa, sessions, challenges, handlers, now, made, begun>>

\* Faulty: the challenges are left to expire.
ConsumeResetOnly ==
    /\ link /\ ~account.blocked
    /\ NewPassword
    /\ link' = FALSE /\ sessions' = {}
    /\ handlers' = Overtake({h \in Handlers : Rests(h)})
    /\ UNCHANGED <<mfa, challenges, now, begun>>

\* consume_password_reset, under the lock of the token's row.
ConsumeReset ==
    /\ link /\ ~account.blocked
    /\ NewPassword
    /\ link' = FALSE /\ sessions' = {} /\ challenges' = {}
    /\ handlers' = Overtake({h \in Handlers : Rests(h)})
    /\ UNCHANGED <<mfa, now, begun>>

\* provision_user_account: the challenges stay.
Provision ==
    /\ NewPassword
    /\ sessions' = {} /\ challenges' = Outlived(challenges)
    /\ handlers' = Overtake({h \in Handlers : Rests(h)})
    /\ UNCHANGED <<link, mfa, now, begun>>

\* my_password_change: the old password is checked, the new one is committed, and then the
\* other sessions are deleted.
CheckOld(h) ==
    /\ \E s \in sessions : Caller(s) /\ Begin(h, [IdleHandler EXCEPT !.pc = "change", !.session = s.id])
    /\ UNCHANGED <<account, link, mfa, sessions, challenges, now, made>>

CommitNew(h) ==
    /\ handlers[h].pc = "change"
    /\ NewPassword
    /\ sessions' = {IF s.id = handlers[h].session
                    THEN [s EXCEPT !.password = made.passwords + 1] ELSE s : s \in sessions}
    /\ challenges' = Outlived(challenges)
    /\ handlers' = [Overtake({g \in Handlers : Rests(g)}) EXCEPT ![h].pc = "changed"]
    /\ UNCHANGED <<link, mfa, now, begun>>

\* Faulty: the other sessions stay.
DeleteNone(h) ==
    /\ handlers[h].pc \in {"changed", "enabled"}
    /\ End(h)
    /\ UNCHANGED <<account, link, mfa, sessions, challenges, now, made, begun>>

\* The second commit of my_password_change, and of auth_mfa_enable.
DeleteOthers(h) ==
    /\ handlers[h].pc \in {"changed", "enabled"}
    /\ sessions' = {s \in sessions : s.id = handlers[h].session}
    /\ End(h)
    /\ UNCHANGED <<account, link, mfa, challenges, now, made, begun>>

-----------------------------------------------------------------------------
(* The second factor.                                                      *)

NewSecret == made.secrets + 1
NoUses == [c \in Codes |-> 0]

\* save_pending_secret reads the row ...
ReadPending(h) ==
    /\ ~mfa.enabled
    /\ \E s \in sessions : Caller(s) /\ Begin(h, [IdleHandler EXCEPT !.pc = "setup", !.row = mfa.row])
    /\ UNCHANGED <<account, link, mfa, sessions, challenges, now, made>>

\* ... and writes the columns that differ from what it has read: the secret only, when there
\* was a row.  It fails when the row is not the one it has read, or is there by now.
SavePending(h) ==
    /\ handlers[h].pc = "setup" /\ made.secrets < MaxSecrets
    /\ made' = [made EXCEPT !.secrets = NewSecret]
    /\ mfa' = IF mfa.row # handlers[h].row THEN mfa
              ELSE IF mfa.row = 0
              THEN [NoCredential EXCEPT !.row = NewSecret, !.secret = NewSecret]
              ELSE [mfa EXCEPT !.secret = NewSecret, !.uses = NoUses]
    /\ End(h)
    /\ UNCHANGED <<account, link, sessions, challenges, now, begun>>

\* enable_credential reads the row and checks the code; there is no last counter yet.
ReadCode(h) ==
    /\ mfa.row # 0 /\ ~mfa.enabled
    /\ \E s \in sessions, c \in FreshCounters(-2) :
         Caller(s) /\ Begin(h, [IdleHandler EXCEPT !.pc = "enable", !.session = s.id,
                                                   !.row = mfa.row, !.code = c])
    /\ UNCHANGED <<account, link, mfa, sessions, challenges, now, made>>

Enable(h) ==
    /\ handlers[h].pc = "enable"
    /\ \/ mfa.row # handlers[h].row /\ End(h) /\ UNCHANGED <<mfa, sessions, challenges>>
       \/ /\ mfa.row = handlers[h].row
          /\ mfa' = [mfa EXCEPT !.enabled = TRUE, !.last = handlers[h].code, !.recovery = TRUE,
                                !.uses[RecoveryCode] = 0, !.doubled = @ \/ mfa.enabled]
          /\ challenges' = {}
          /\ sessions' = {IF s.id = handlers[h].session
                          THEN [s EXCEPT !.factor = TRUE] ELSE s : s \in sessions}
          /\ handlers' = [Overtake({g \in Handlers : handlers[g].pc = "open" /\ ~handlers[g].factor})
                            EXCEPT ![h].pc = "enabled"]
    /\ UNCHANGED <<account, link, now, made, begun>>

\* auth_mfa_disable: verify_second_factor commits, then remove_credential.
CheckFactor(h) ==
    /\ mfa.enabled
    /\ \E s \in sessions : Caller(s)
    /\ Begin(h, [IdleHandler EXCEPT !.pc = "disable"])
    /\ \E code \in Usable : mfa' = Accepted(code)
    /\ UNCHANGED <<account, link, sessions, challenges, now, made>>

RemoveCredential == mfa' = NoCredential /\ challenges' = {} /\ sessions' = {}

Disable(h) == /\ handlers[h].pc = "disable"
              /\ RemoveCredential /\ End(h)
              /\ UNCHANGED <<account, link, now, made, begun>>

AdminResetMfa == /\ mfa.row # 0
                 /\ RemoveCredential
                 /\ UNCHANGED <<account, link, handlers, now, made, begun>>

-----------------------------------------------------------------------------
(* Sessions and time.                                                      *)

\* block_user.
Block(blocked) ==
    /\ account' = [account EXCEPT !.blocked = blocked]
    /\ sessions' = IF blocked THEN {} ELSE sessions
    /\ UNCHANGED <<link, mfa, challenges, handlers, now, made, begun>>

\* auth_logout, admin_revoke_session and expiry; my_sessions_revoke_all;
\* admin_revoke_all_user_sessions.
Revoke ==
    /\ \E s \in sessions : sessions' \in {sessions \ {s}, {s}, {}}
    /\ UNCHANGED <<account, link, mfa, challenges, handlers, now, made, begun>>

ExpireChallenge ==
    /\ \E c \in challenges : challenges' = challenges \ {c}
    /\ UNCHANGED <<account, link, mfa, sessions, handlers, now, made, begun>>

Tick == /\ now < MaxClock /\ now' = now + 1
        /\ UNCHANGED <<account, link, mfa, sessions, challenges, handlers, made, begun>>

\* The process of a handler ends; sessions it was about to delete stay.
Die(h) ==
    /\ handlers[h].pc # "idle"
    /\ sessions' = IF handlers[h].pc \in {"changed", "enabled"}
                   THEN Outlived(sessions) ELSE sessions
    /\ End(h)
    /\ UNCHANGED <<account, link, mfa, challenges, now, made, begun>>

SessionsNext ==
    \/ \E h \in Handlers :
         \/ Authenticate(h) \/ AskFactor(h) \/ CreateChallenge(h) \/ CreateSession(h)
         \/ LookUp(h) \/ Consume(h)
         \/ CheckOld(h) \/ CommitNew(h) \/ DeleteOthers(h)
         \/ ReadPending(h) \/ SavePending(h) \/ ReadCode(h) \/ Enable(h)
         \/ CheckFactor(h) \/ Disable(h) \/ Die(h)
    \/ IssueReset \/ ExpireReset \/ ConsumeReset \/ Provision
    \/ AdminResetMfa \/ Revoke \/ ExpireChallenge \/ Tick
    \/ \E blocked \in BOOLEAN : Block(blocked)

SessionsSpec == SessionsInit /\ [][SessionsNext]_sessionsVars

-----------------------------------------------------------------------------

\* A session or a challenge rests on the account's present password, unless its login was
\* overtaken by the change or the change spares it (provision_user_account and
\* my_password_change spare challenges).
CurrentPassword ==
    (\A h \in Handlers : handlers[h].pc # "changed") =>
        \A r \in sessions \cup challenges : r.password = account.password \/ r.overtaken

\* While the second factor is enabled, a session has passed it, unless its login was overtaken
\* (main.py:546-561 ends the sessions of before).
SecondFactor ==
    mfa.enabled /\ (\A h \in Handlers : handlers[h].pc # "enabled") =>
        \A s \in sessions : s.factor \/ s.overtaken

\* A time code and a recovery code are accepted once, by logins and by the request that
\* disables the factor together, unless two requests have enabled the same row.
FactorUsedOnce == ~mfa.doubled => \A c \in Codes : mfa.uses[c] <= 1

=============================================================================
