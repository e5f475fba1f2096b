----------------------------- MODULE Activation -----------------------------
(***************************************************************************)
(* How users get an account for the console: a link sent to a chat user    *)
(* (account_activation.py, auth_activate), public registration and the     *)
(* administrator.  The database keeps user names unique; a request learns  *)
(* that a name is taken before it has consumed its link, or after.         *)
(***************************************************************************)
EXTENDS Naturals

CONSTANTS Persons,        \* people that can become users
          Names, NoName,
          Requests        \* requests that can be under way at a time

ASSUME ActivationAssumption == NoName \notin Names /\ Persons # {}

VARIABLES known,          \* users with a row
          barred,         \* users that are blocked
          usernames, tokens, requests,
          promised        \* users whose last link has not expired (for the properties only)

activationVars == <<known, barred, usernames, tokens, requests, promised>>

-----------------------------------------------------------------------------

\* The link of a user, or none; an expired one stays until it is used.
Token == {"none", "valid", "expired"}

\* named: the name was free; locked: the token is locked and the account inserted, not yet
\* committed; register and issue: the other two kinds of request.
Request == [pc : {"idle", "named", "locked", "register", "issue"}, user : Persons, name : Names \cup {NoName}]
NoRequest == [pc |-> "idle", user |-> CHOOSE u \in Persons : TRUE, name |-> NoName]

ActivationTypeOK ==
    /\ known \subseteq Persons /\ barred \subseteq known /\ promised \subseteq known
    /\ usernames \in [Persons -> Names \cup {NoName}]
    /\ tokens \in [Persons -> Token]
    /\ requests \in [Requests -> Request]

ActivationInit ==
    /\ known = {} /\ barred = {} /\ promised = {}
    /\ usernames = [u \in Persons |-> NoName]
    /\ tokens = [u \in Persons |-> "none"]
    /\ requests = [r \in Requests |-> NoRequest]

-----------------------------------------------------------------------------

Taken(n) == \E u \in Persons : usernames[u] = n
Locked == {r \in Requests : requests[r].pc = "locked"}

\* Other transactions wait for a locked token and for a name that is being inserted.
TokenFree(u) == \A r \in Locked : requests[r].user # u
NameFree(n) == \A r \in Locked : requests[r].name # n

Enter(r, new) == requests[r].pc = "idle" /\ requests' = [requests EXCEPT ![r] = new]
Leave(r) == requests' = [requests EXCEPT ![r] = NoRequest]

-----------------------------------------------------------------------------
(* Activation.                                                             *)

\* resolve_user: the first message of a chat user.
Meet(u) == /\ u \notin known /\ known' = known \cup {u}
           /\ UNCHANGED <<barred, usernames, tokens, requests, promised>>

\* _handle_account_command looks for an account, then create_activation_token replaces the link.
AskLink(r, u) ==
    /\ u \in known /\ usernames[u] = NoName
    /\ Enter(r, [NoRequest EXCEPT !.pc = "issue", !.user = u])
    /\ UNCHANGED <<known, barred, usernames, tokens, promised>>

SendLink(r) ==
    LET u == requests[r].user
    IN  /\ requests[r].pc = "issue" /\ TokenFree(u)
        /\ tokens' = [tokens EXCEPT ![u] = "valid"]
        /\ promised' = promised \cup {u}
        /\ Leave(r)
        /\ UNCHANGED <<known, barred, usernames>>

ExpireLink(u) == /\ tokens[u] = "valid"
                 /\ tokens' = [tokens EXCEPT ![u] = "expired"]
                 /\ promised' = promised \ {u}
                 /\ UNCHANGED <<known, barred, usernames, requests>>

\* auth_activate looks at the name first.
AskName(r, u, n) ==
    /\ u \in known /\ tokens[u] # "none" /\ ~Taken(n)
    /\ Enter(r, [NoRequest EXCEPT !.pc = "named", !.user = u, !.name = n])
    /\ UNCHANGED <<known, barred, usernames, tokens, promised>>

\* activate_account refuses; a link that is expired, or of a user with an account, goes.
RefuseLink(r) ==
    LET u == requests[r].user
        useless == tokens[u] = "expired" \/ (u \notin barred /\ usernames[u] # NoName)
    IN  /\ requests[r].pc = "named" /\ TokenFree(u)
        /\ tokens[u] = "none" \/ useless \/ u \in barred
        /\ tokens' = IF useless THEN [tokens EXCEPT ![u] = "none"] ELSE tokens
        /\ Leave(r)
        /\ UNCHANGED <<known, barred, usernames, promised>>

\* Faulty: the link is consumed before the account is inserted, in a transaction of its own.
ConsumeLinkFirst(r) ==
    LET u == requests[r].user
    IN  /\ requests[r].pc = "named" /\ TokenFree(u)
        /\ tokens[u] = "valid" /\ u \notin barred /\ usernames[u] = NoName
        /\ NameFree(requests[r].name)
        /\ IF Taken(requests[r].name) THEN Leave(r)
           ELSE requests' = [requests EXCEPT ![r].pc = "locked"]
        /\ tokens' = [tokens EXCEPT ![u] = "none"]
        /\ UNCHANGED <<known, barred, usernames, promised>>

\* activate_account consumes the link and inserts the account; a name that was taken meanwhile
\* rolls both back.
ConsumeLink(r) ==
    LET u == requests[r].user
    IN  /\ requests[r].pc = "named" /\ TokenFree(u)
        /\ tokens[u] = "valid" /\ u \notin barred /\ usernames[u] = NoName
        /\ NameFree(requests[r].name)
        /\ IF Taken(requests[r].name) THEN Leave(r)
           ELSE requests' = [requests EXCEPT ![r].pc = "locked"]
        /\ UNCHANGED <<known, barred, usernames, tokens, promised>>

\* create_session commits.
Activate(r) ==
    LET u == requests[r].user
    IN  /\ requests[r].pc = "locked"
        /\ usernames' = [usernames EXCEPT ![u] = requests[r].name]
        /\ tokens' = [tokens EXCEPT ![u] = "none"]
        /\ Leave(r)
        /\ UNCHANGED <<known, barred, promised>>

\* The request ends early; its transaction is rolled back.
Abandon(r) == /\ requests[r].pc # "idle" /\ Leave(r)
              /\ UNCHANGED <<known, barred, usernames, tokens, promised>>

-----------------------------------------------------------------------------
(* The other ways to an account.                                           *)

\* auth_register: the name is looked at, then user and account are inserted.
AskRegister(r, n) ==
    /\ ~Taken(n)
    /\ Enter(r, [NoRequest EXCEPT !.pc = "register", !.name = n])
    /\ UNCHANGED <<known, barred, usernames, tokens, promised>>

Register(r) ==
    /\ requests[r].pc = "register" /\ NameFree(requests[r].name)
    /\ \/ Taken(requests[r].name) /\ UNCHANGED <<known, usernames>>
       \/ /\ ~Taken(requests[r].name)
          /\ \E u \in Persons \ known : /\ known' = known \cup {u}
                                      /\ usernames' = [usernames EXCEPT ![u] = requests[r].name]
    /\ Leave(r)
    /\ UNCHANGED <<barred, tokens, promised>>

\* provision_user_account: a new account, or another name for the one there is.
ProvisionName(u, n) ==
    /\ u \in known /\ TokenFree(u) /\ NameFree(n)
    /\ \A v \in Persons \ {u} : usernames[v] # n
    /\ usernames' = [usernames EXCEPT ![u] = n]
    /\ UNCHANGED <<known, barred, tokens, requests, promised>>

BlockUser(u, blocked) ==
    /\ u \in known
    /\ barred' = IF blocked THEN barred \cup {u} ELSE barred \ {u}
    /\ UNCHANGED <<known, usernames, tokens, requests, promised>>

ActivationNext ==
    \/ \E r \in Requests :
         \/ SendLink(r) \/ RefuseLink(r) \/ ConsumeLink(r) \/ Activate(r) \/ Register(r) \/ Abandon(r)
         \/ \E u \in Persons : AskLink(r, u)
         \/ \E n \in Names : AskRegister(r, n) \/ \E u \in Persons : AskName(r, u, n)
    \/ \E u \in Persons : \/ Meet(u) \/ ExpireLink(u)
                        \/ \E n \in Names : ProvisionName(u, n)
                        \/ \E blocked \in BOOLEAN : BlockUser(u, blocked)

ActivationSpec == ActivationInit /\ [][ActivationNext]_activationVars

-----------------------------------------------------------------------------

\* A link that was sent and has not expired works until its user has an account, whatever else
\* went wrong with it: a name that somebody else was quicker to take, two requests at once, a
\* request that was cut off (main.py:418-420).
LinkWorks == \A u \in promised : usernames[u] = NoName => tokens[u] = "valid"

=============================================================================
