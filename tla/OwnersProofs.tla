---------------------------- MODULE OwnersProofs ----------------------------
(***************************************************************************)
(* Links that keep working, and merges that lose nothing, for any number   *)
(* of people, rows and requests.                                           *)
(***************************************************************************)
EXTENDS MCOwners, FiniteSetTheorems, TLAPS

\* A request that has a name to give knows it; a link is for a user that is known.
Knows(q) == /\ q.pc \in {"named", "locked", "register"} => q.name \in Names
            /\ q.pc = "issue" => q.user \in known

ActivationInv == /\ ActivationTypeOK
                 /\ \A r \in Requests : Knows(requests[r])
                 /\ LinkWorks

-----------------------------------------------------------------------------
(* Links.                                                                  *)

LEMMA NoRequestTyped == NoRequest \in Request /\ NoRequest.pc = "idle"
<1>1. (CHOOSE u \in Persons : TRUE) \in Persons
    BY ActivationAssumption
<1> QED
    BY <1>1 DEF NoRequest, Request

\* One request changes to q.
LEMMA OneRequest ==
    ASSUME ActivationInv, NEW r \in Requests, NEW q \in Request, Knows(q),
           requests' = [requests EXCEPT ![r] = q], known \subseteq known'
    PROVE  /\ requests' \in [Requests -> Request]
           /\ \A s \in Requests : Knows(requests[s])'
BY DEF ActivationInv, ActivationTypeOK, Knows

LEMMA LeaveRequest ==
    ASSUME ActivationInv, NEW r \in Requests, Leave(r), known \subseteq known'
    PROVE  /\ requests' \in [Requests -> Request]
           /\ \A s \in Requests : Knows(requests[s])'
<1>1. Knows(NoRequest)
    BY NoRequestTyped DEF Knows
<1> QED
    BY <1>1, NoRequestTyped, OneRequest DEF Leave

LEMMA RequestFields ==
    ASSUME ActivationInv, NEW r \in Requests
    PROVE  /\ requests[r] \in Request
           /\ requests[r].user \in Persons
           /\ requests[r].pc \in {"named", "locked", "register"} => requests[r].name \in Names
           /\ requests[r].pc = "issue" => requests[r].user \in known
BY DEF ActivationInv, ActivationTypeOK, Knows, Request

LEMMA InitLinks == ActivationInit => ActivationInv
<1> SUFFICES ASSUME ActivationInit PROVE ActivationInv
    OBVIOUS
<1>1. ActivationTypeOK
    BY NoRequestTyped DEF ActivationInit, ActivationTypeOK, Token
<1> QED
    BY <1>1, NoRequestTyped DEF ActivationInit, ActivationInv, Knows, LinkWorks

LEMMA AskStep ==
    ASSUME ActivationInv, NEW r \in Requests,
           \/ \E u \in Persons : AskLink(r, u) \/ \E n \in Names : AskName(r, u, n)
           \/ \E n \in Names : AskRegister(r, n)
    PROVE  ActivationInv'
<1>1. PICK q \in Request : Knows(q) /\ requests' = [requests EXCEPT ![r] = q]
    <2>1. ASSUME NEW u \in Persons, AskLink(r, u)
          PROVE  \E q \in Request : Knows(q) /\ requests' = [requests EXCEPT ![r] = q]
        <3> DEFINE q == [NoRequest EXCEPT !.pc = "issue", !.user = u]
        <3>1. q \in Request /\ q.pc = "issue" /\ q.user = u
            BY NoRequestTyped DEF Request
        <3> QED
            BY <2>1, <3>1 DEF AskLink, Enter, Knows
    <2>2. ASSUME NEW u \in Persons, NEW n \in Names, AskName(r, u, n)
          PROVE  \E q \in Request : Knows(q) /\ requests' = [requests EXCEPT ![r] = q]
        <3> DEFINE q == [NoRequest EXCEPT !.pc = "named", !.user = u, !.name = n]
        <3>1. q \in Request /\ q.pc = "named" /\ q.name = n
            BY NoRequestTyped DEF Request
        <3> QED
            BY <2>2, <3>1 DEF AskName, Enter, Knows
    <2>3. ASSUME NEW n \in Names, AskRegister(r, n)
          PROVE  \E q \in Request : Knows(q) /\ requests' = [requests EXCEPT ![r] = q]
        <3> DEFINE q == [NoRequest EXCEPT !.pc = "register", !.name = n]
        <3>1. q \in Request /\ q.pc = "register" /\ q.name = n
            BY NoRequestTyped DEF Request
        <3> QED
            BY <2>3, <3>1 DEF AskRegister, Enter, Knows
    <2> QED
        BY <2>1, <2>2, <2>3
<1>2. UNCHANGED <<known, barred, usernames, tokens, promised>>
    BY DEF AskLink, AskName, AskRegister
<1>3. /\ requests' \in [Requests -> Request]
      /\ \A s \in Requests : Knows(requests[s])'
    BY <1>1, <1>2, OneRequest
<1> QED
    BY <1>2, <1>3 DEF ActivationInv, ActivationTypeOK, Knows, LinkWorks

\* Requests that leave.
LEMMA EndStep ==
    ASSUME ActivationInv, NEW r \in Requests,
           SendLink(r) \/ RefuseLink(r) \/ Activate(r) \/ Register(r) \/ Abandon(r)
    PROVE  ActivationInv'
<1> DEFINE u == requests[r].user
<1>0. /\ Leave(r) /\ u \in Persons
      /\ requests[r].pc \in {"locked", "register"} => requests[r].name \in Names
      /\ requests[r].pc = "issue" => u \in known
      /\ known \subseteq known'
    BY RequestFields DEF SendLink, RefuseLink, Activate, Register, Abandon
<1>1. /\ requests' \in [Requests -> Request]
      /\ \A s \in Requests : Knows(requests[s])'
    BY <1>0, LeaveRequest
<1>2. CASE SendLink(r)
    <2>1. tokens' \in [Persons -> Token] /\ promised' \subseteq known /\ UNCHANGED <<known, barred, usernames>>
        BY <1>0, <1>2 DEF SendLink, ActivationInv, ActivationTypeOK, Token
    <2> QED
        BY <1>0, <1>1, <1>2, <2>1 DEF SendLink, ActivationInv, ActivationTypeOK, Knows, LinkWorks
<1>3. CASE RefuseLink(r)
    <2>1. tokens' \in [Persons -> Token] /\ UNCHANGED <<known, barred, usernames, promised>>
        BY <1>0, <1>3 DEF RefuseLink, ActivationInv, ActivationTypeOK, Token
    <2>2. LinkWorks'
        BY <1>0, <1>3, <2>1 DEF RefuseLink, ActivationInv, ActivationTypeOK, LinkWorks
    <2> QED
        BY <1>1, <2>1, <2>2 DEF ActivationInv, ActivationTypeOK, Knows
<1>4. CASE Activate(r)
    <2>1. requests[r].name \in Names /\ requests[r].name # NoName
        BY <1>0, <1>4, ActivationAssumption DEF Activate
    <2>2. /\ usernames' \in [Persons -> Names \cup {NoName}] /\ tokens' \in [Persons -> Token]
          /\ UNCHANGED <<known, barred, promised>>
        BY <1>0, <1>4, <2>1 DEF Activate, ActivationInv, ActivationTypeOK, Token
    <2>3. LinkWorks'
        BY <1>0, <1>4, <2>1 DEF Activate, ActivationInv, ActivationTypeOK, LinkWorks
    <2> QED
        BY <1>1, <2>2, <2>3 DEF ActivationInv, ActivationTypeOK, Knows
<1>5. CASE Register(r)
    <2>1. requests[r].name \in Names /\ requests[r].name # NoName
        BY <1>0, <1>5, ActivationAssumption DEF Register
    <2>2. /\ known \subseteq known' /\ known' \subseteq Persons
          /\ usernames' \in [Persons -> Names \cup {NoName}]
          /\ \A v \in Persons : usernames'[v] = NoName => usernames[v] = NoName
          /\ UNCHANGED <<barred, tokens, promised>>
        BY <1>5, <2>1 DEF Register, ActivationInv, ActivationTypeOK
    <2> QED
        BY <1>1, <2>2 DEF ActivationInv, ActivationTypeOK, Knows, LinkWorks
<1>6. CASE Abandon(r)
    BY <1>1, <1>6 DEF Abandon, ActivationInv, ActivationTypeOK, Knows, LinkWorks
<1> QED
    BY <1>2, <1>3, <1>4, <1>5, <1>6

LEMMA ConsumeStep == ASSUME ActivationInv, NEW r \in Requests, ConsumeLink(r) PROVE ActivationInv'
<1>1. /\ requests' \in [Requests -> Request]
      /\ \A s \in Requests : Knows(requests[s])'
    <2>0. UNCHANGED known
        BY DEF ConsumeLink
    <2>1. CASE Leave(r)
        BY <2>0, <2>1, LeaveRequest
    <2>2. CASE ~Leave(r)
        <3> DEFINE q == [requests[r] EXCEPT !.pc = "locked"]
        <3>1. q \in Request /\ Knows(q)
            BY RequestFields DEF Request, Knows, ConsumeLink
        <3> QED
            BY <2>0, <2>2, <3>1, OneRequest DEF ConsumeLink
    <2> QED
        BY <2>1, <2>2
<1> QED
    BY <1>1 DEF ConsumeLink, ActivationInv, ActivationTypeOK, Knows, LinkWorks

LEMMA PersonStep ==
    ASSUME ActivationInv, NEW u \in Persons,
           \/ Meet(u) \/ ExpireLink(u)
           \/ \E n \in Names : ProvisionName(u, n)
           \/ \E blocked \in BOOLEAN : BlockUser(u, blocked)
    PROVE  ActivationInv'
<1>1. CASE Meet(u)
    BY <1>1 DEF Meet, ActivationInv, ActivationTypeOK, Knows, LinkWorks
<1>2. CASE ExpireLink(u)
    BY <1>2 DEF ExpireLink, ActivationInv, ActivationTypeOK, Token, Knows, LinkWorks
<1>3. ASSUME NEW n \in Names, ProvisionName(u, n) PROVE ActivationInv'
    BY <1>3, ActivationAssumption DEF ProvisionName, ActivationInv, ActivationTypeOK, Knows, LinkWorks
<1>4. ASSUME NEW blocked \in BOOLEAN, BlockUser(u, blocked) PROVE ActivationInv'
    BY <1>4 DEF BlockUser, ActivationInv, ActivationTypeOK, Knows, LinkWorks
<1> QED
    BY <1>1, <1>2, <1>3, <1>4

LEMMA ActivationStep ==
    ASSUME ActivationInv, [ActivationNext]_activationVars PROVE ActivationInv'
<1>1. CASE UNCHANGED activationVars
    BY <1>1 DEF activationVars, ActivationInv, ActivationTypeOK, Knows, LinkWorks
<1>2. CASE ActivationNext
    BY <1>2, AskStep, EndStep, ConsumeStep, PersonStep DEF ActivationNext
<1> QED
    BY <1>1, <1>2

\* A link that was sent and has not expired works until its user has an account, for any number
\* of people, names and requests: whoever takes the name, asks twice or is cut off
\* (account_activation.py, auth_activate).
THEOREM LinksWork == ActivationSpec => []LinkWorks
<1>1. ActivationInv => LinkWorks
    BY DEF ActivationInv
<1> QED
    BY InitLinks, ActivationStep, <1>1, PTL DEF ActivationSpec

-----------------------------------------------------------------------------
(* Merges.                                                                 *)

\* A merge that is under way has two users, both of which have existed.
TwoUsers(w) == w.pc \in {"resolved", "moved"} =>
                   w.source \in users \cup gone /\ w.target \in users \cup gone /\ w.source # w.target

\* What a merge has read is still so: its rows are the source's, none that counts is missing, and
\* the user that gets them is there.
ReadAll(w) == w.pc = "moved" =>
    /\ \A r \in w.rows \cup w.dropped : owner[r] = w.source
    /\ \A r \in Rows \ excused : owner[r] = w.source => r \in w.rows \cup w.dropped
    /\ w.rows # {} => w.target \in users

\* An identity is unbound only while its user has another one.
HasAnother(w) == w.pc = "unbind" =>
    /\ w.source \in users
    /\ \A r \in w.rows : r \in Identities /\ owner[r] = w.source
    /\ \E i \in Identities \ w.rows : owner[i] = w.source

\* Locks: one merge out of a user, one unbinding of a user, and not both.
Apart(v, w) ==
    /\ ~(v.pc = "moved" /\ w.pc = "moved" /\ v.source = w.source)
    /\ ~(v.pc = "unbind" /\ w.pc = "unbind" /\ v.source = w.source)
    /\ ~(v.pc = "unbind" /\ w.pc = "moved" /\ v.source \in {w.source, w.target})

BindingInv ==
    /\ BindingTypeOK
    /\ codes \subseteq users \cup gone
    /\ \A r \in Rows : owner[r] \in users \cup {Nobody}
    /\ \A j \in Jobs : TwoUsers(jobs[j]) /\ ReadAll(jobs[j]) /\ HasAnother(jobs[j])
    /\ \A j, k \in Jobs : j # k => Apart(jobs[j], jobs[k])
    /\ NothingLost /\ KeepsAnIdentity

LEMMA NoJobTyped == NoJob \in Job /\ NoJob.pc = "idle"
<1>1. NoJob \in Job
    BY Zenon DEF NoJob, Job
<1> QED
    BY <1>1 DEF NoJob

LEMMA JobFields ==
    ASSUME BindingInv, NEW j \in Jobs
    PROVE  /\ jobs[j] \in Job /\ jobs[j].rows \subseteq Rows /\ jobs[j].dropped \subseteq Rows
           /\ TwoUsers(jobs[j]) /\ ReadAll(jobs[j]) /\ HasAnother(jobs[j])
           /\ jobs[j].pc \in {"resolved", "moved", "unbind"} =>
                 jobs[j].source \in Users /\ jobs[j].source # Nobody
BY BindingAssumption DEF BindingInv, BindingTypeOK, Job, TwoUsers, HasAnother

\* One job changes to w; no row and no user changes.
LEMMA OneJob ==
    ASSUME BindingInv, NEW j \in Jobs, NEW w \in Job, jobs' = [jobs EXCEPT ![j] = w],
           UNCHANGED <<users, gone, owner, excused>>, codes' \subseteq codes,
           TwoUsers(w), ReadAll(w), HasAnother(w),
           \A k \in Jobs \ {j} : Apart(w, jobs[k]) /\ Apart(jobs[k], w)
    PROVE  BindingInv'
<1>1. \A k \in Jobs : jobs'[k] = IF k = j THEN w ELSE jobs[k]
    BY DEF BindingInv, BindingTypeOK
<1>2. BindingTypeOK'
    BY DEF BindingInv, BindingTypeOK
<1>3. ASSUME NEW k \in Jobs PROVE (TwoUsers(jobs[k]) /\ ReadAll(jobs[k]) /\ HasAnother(jobs[k]))'
    <2>1. CASE k = j
        BY <1>1, <2>1 DEF TwoUsers, ReadAll, HasAnother
    <2>2. CASE k # j
        BY <1>1, <2>2, JobFields DEF TwoUsers, ReadAll, HasAnother
    <2> QED
        BY <2>1, <2>2
<1>4. ASSUME NEW g \in Jobs, NEW k \in Jobs, g # k PROVE Apart(jobs[g], jobs[k])'
    <2>1. CASE g = j
        BY <1>1, <1>4, <2>1 DEF Apart
    <2>2. CASE k = j
        BY <1>1, <1>4, <2>2 DEF Apart
    <2>3. CASE g # j /\ k # j
        BY <1>1, <1>4, <2>3 DEF BindingInv, Apart
    <2> QED
        BY <2>1, <2>2, <2>3
<1>5. (codes \subseteq users \cup gone)' /\ (\A r \in Rows : owner[r] \in users \cup {Nobody})'
      /\ NothingLost' /\ KeepsAnIdentity'
    BY DEF BindingInv, NothingLost, KeepsAnIdentity, Owned
<1> QED
    BY <1>2, <1>3, <1>4, <1>5 DEF BindingInv

\* Jobs that have read no row yet, or have ended, stand in nobody's way.
LEMMA QuietJob ==
    ASSUME BindingInv, NEW j \in Jobs, NEW w \in Job, jobs' = [jobs EXCEPT ![j] = w],
           UNCHANGED <<users, gone, owner, excused>>, codes' \subseteq codes,
           w.pc \notin {"moved", "unbind"}, TwoUsers(w)
    PROVE  BindingInv'
<1>1. ReadAll(w) /\ HasAnother(w) /\ \A k \in Jobs \ {j} : Apart(w, jobs[k]) /\ Apart(jobs[k], w)
    BY DEF ReadAll, HasAnother, Apart
<1> QED
    BY <1>1, OneJob

LEMMA FinishStep ==
    ASSUME BindingInv, NEW j \in Jobs, Finish(j),
           UNCHANGED <<users, gone, owner, excused>>, codes' \subseteq codes
    PROVE  BindingInv'
BY NoJobTyped, QuietJob DEF Finish, TwoUsers

\* Rows change hands, and jobs end.
LEMMA RowsStep ==
    ASSUME BindingInv, BindingTypeOK',
           \A j \in Jobs : jobs'[j] = jobs[j] \/ jobs'[j] = NoJob,
           users \cup gone \subseteq users' \cup gone', codes' \subseteq codes,
           \A r \in Rows : owner'[r] \in users' \cup {Nobody},
           \A j \in Jobs : jobs'[j] = jobs[j] => ReadAll(jobs[j])' /\ HasAnother(jobs[j])',
           NothingLost', KeepsAnIdentity'
    PROVE  BindingInv'
<1>1. ASSUME NEW j \in Jobs PROVE (TwoUsers(jobs[j]) /\ ReadAll(jobs[j]) /\ HasAnother(jobs[j]))'
    <2>1. CASE jobs'[j] = NoJob
        BY <2>1, NoJobTyped DEF TwoUsers, ReadAll, HasAnother
    <2>2. CASE jobs'[j] = jobs[j]
        <3>1. TwoUsers(jobs[j])'
            BY <2>2, JobFields DEF TwoUsers
        <3> QED
            BY <2>2, <3>1
    <2> QED
        BY <2>1, <2>2
<1>2. ASSUME NEW j \in Jobs, NEW k \in Jobs, j # k PROVE Apart(jobs[j], jobs[k])'
    <2>1. CASE jobs'[j] = jobs[j] /\ jobs'[k] = jobs[k]
        BY <1>2, <2>1 DEF BindingInv, Apart
    <2>2. CASE jobs'[j] = NoJob \/ jobs'[k] = NoJob
        BY <2>2, NoJobTyped DEF Apart
    <2> QED
        BY <2>1, <2>2
<1>3. codes' \subseteq users' \cup gone'
    BY DEF BindingInv
<1> QED
    BY <1>1, <1>2, <1>3 DEF BindingInv

-----------------------------------------------------------------------------
(* One lemma for every action.                                             *)

LEMMA InitOwners == BindingInit => BindingInv
<1> SUFFICES ASSUME BindingInit PROVE BindingInv
    OBVIOUS
<1>1. \A j \in Jobs : jobs[j] = NoJob
    BY DEF BindingInit
<1>2. BindingTypeOK
    BY NoJobTyped DEF BindingInit, BindingTypeOK
<1> QED
    BY <1>1, <1>2, NoJobTyped
       DEF BindingInit, BindingInv, TwoUsers, ReadAll, HasAnother, Apart, NothingLost, KeepsAnIdentity

LEMMA ResolveStep == ASSUME BindingInv, NEW i \in Identities, ResolveUser(i) PROVE BindingInv'
<1>1. PICK u \in Users \ (users \cup gone), card \in Named :
         /\ owner[card] = Nobody /\ card \in excused
         /\ users' = users \cup {u}
         /\ owner' = [owner EXCEPT ![i] = u, ![card] = u]
         /\ excused' = excused \ {i, card}
    BY DEF ResolveUser
<1>2. /\ i \in Rows /\ card \in Rows /\ i # card /\ owner[i] = Nobody
      /\ UNCHANGED <<gone, codes, jobs>>
    BY BindingAssumption DEF ResolveUser, Rows
<1>10. u \in users' /\ users \subseteq users' /\ excused' = excused \ {i, card}
    BY <1>1
<1>3. \A r \in Rows : owner'[r] = IF r \in {i, card} THEN u ELSE owner[r]
    BY <1>1, <1>2 DEF BindingInv, BindingTypeOK
<1>4. BindingTypeOK'
    BY <1>1, <1>2 DEF BindingInv, BindingTypeOK
<1>5. \A r \in Rows : owner'[r] \in users' \cup {Nobody}
    <2>1. \A r \in Rows : owner[r] \in users \cup {Nobody}
        BY DEF BindingInv
    <2> QED
        BY <1>10, <1>3, <2>1
<1>6. NothingLost'
    <2>1. \A r \in Rows \ excused : owner[r] \in users
        BY DEF BindingInv, NothingLost
    <2>2. ASSUME NEW r \in Rows \ excused' PROVE owner'[r] \in users'
        <3>1. CASE r \in {i, card}
            BY <1>10, <1>3, <2>2, <3>1
        <3>2. CASE r \notin {i, card}
            BY <1>10, <1>3, <2>1, <2>2, <3>2
        <3> QED
            BY <3>1, <3>2
    <2> QED
        BY <2>2 DEF NothingLost
<1>7. KeepsAnIdentity'
    <2>1. ASSUME NEW v \in users' PROVE \E x \in Identities : owner'[x] = v
        <3>1. CASE v = u
            BY <1>2, <1>3, <3>1
        <3>2. CASE v # u
            <4>1. PICK x \in Identities : owner[x] = v
                BY <1>1, <2>1, <3>2 DEF BindingInv, KeepsAnIdentity, Owned
            <4>2. x \in Rows /\ x \notin {i, card}
                BY <1>1, <1>2, <3>2, <4>1, <2>1, BindingAssumption DEF Rows, BindingInv, BindingTypeOK
            <4> QED
                BY <1>3, <4>1, <4>2
        <3> QED
            BY <3>1, <3>2
    <2> QED
        BY <2>1 DEF KeepsAnIdentity, Owned, Rows
<1>8. ASSUME NEW j \in Jobs PROVE ReadAll(jobs[j])' /\ HasAnother(jobs[j])'
    <2>1. jobs[j].pc \in {"moved", "unbind"} => jobs[j].source # u /\ jobs[j].source # Nobody
        BY <1>1, JobFields DEF TwoUsers, HasAnother
    <2>2. ReadAll(jobs[j])'
        <3>1. jobs[j].pc = "moved" =>
                 /\ \A r \in jobs[j].rows \cup jobs[j].dropped : r \notin {i, card} /\ r \in Rows
                 /\ \A r \in Rows \ excused' : owner'[r] = jobs[j].source => r \notin {i, card}
            BY <1>1, <1>2, <1>3, <2>1, JobFields DEF ReadAll
        <3> QED
            BY <1>1, <1>2, <1>3, <3>1, JobFields DEF ReadAll
    <2>3. HasAnother(jobs[j])'
        <3>1. jobs[j].pc = "unbind" =>
                 \A r \in Rows : owner[r] = jobs[j].source => r \notin {i, card}
            BY <1>1, <1>2, <2>1
        <3> QED
            BY <1>1, <1>2, <1>3, <3>1, JobFields DEF HasAnother, Rows
    <2> QED
        BY <2>2, <2>3
<1>9. /\ \A j \in Jobs : jobs'[j] = jobs[j]
      /\ users \cup gone \subseteq users' \cup gone' /\ codes' \subseteq codes
    BY <1>1, <1>2
<1> QED
    BY <1>4, <1>5, <1>6, <1>7, <1>8, <1>9, RowsStep

LEMMA StartStep ==
    ASSUME BindingInv, NEW j \in Jobs, NEW u \in Users,
           FindUser(j, u) \/ \E c \in Users : ResolveBind(j, u, c) \/ MergeByCode(j, u, c)
    PROVE  BindingInv'
<1>1. CASE FindUser(j, u)
    <2> DEFINE w == [NoJob EXCEPT !.pc = "add", !.source = u]
    <2>1. w \in Job /\ w.pc = "add"
        BY NoJobTyped DEF Job
    <2> QED
        BY <1>1, <2>1, QuietJob DEF FindUser, Start, TwoUsers
<1>2. ASSUME NEW c \in Users, ResolveBind(j, u, c) PROVE BindingInv'
    <2>1. CASE UNCHANGED jobs
        <3>1. UNCHANGED <<users, gone, owner, excused, jobs>> /\ codes' \subseteq codes
            BY <1>2, <2>1 DEF ResolveBind
        <3>2. BindingTypeOK'
            BY <3>1 DEF BindingInv, BindingTypeOK
        <3>3. \A k \in Jobs : ReadAll(jobs[k])' /\ HasAnother(jobs[k])'
            BY <3>1, JobFields DEF ReadAll, HasAnother
        <3>4. NothingLost' /\ KeepsAnIdentity'
            BY <3>1 DEF BindingInv, NothingLost, KeepsAnIdentity, Owned
        <3> QED
            BY <3>1, <3>2, <3>3, <3>4, RowsStep DEF BindingInv
    <2>2. CASE ~UNCHANGED jobs
        <3> DEFINE w == [NoJob EXCEPT !.pc = "resolved", !.source = u, !.target = c]
        <3>1. w \in Job /\ w.pc = "resolved" /\ w.source = u /\ w.target = c
            BY NoJobTyped DEF Job
        <3>2. TwoUsers(w)
            BY <1>2, <2>2, <3>1 DEF TwoUsers, ResolveBind, BindingInv
        <3> QED
            BY <1>2, <2>2, <3>1, <3>2, QuietJob DEF ResolveBind, Start
    <2> QED
        BY <2>1, <2>2
<1>3. ASSUME NEW c \in Users, MergeByCode(j, u, c) PROVE BindingInv'
    <2> DEFINE w == [NoJob EXCEPT !.pc = "resolved", !.source = c, !.target = u, !.locked = TRUE]
    <2>1. w \in Job /\ w.pc = "resolved" /\ w.source = c /\ w.target = u
        BY NoJobTyped DEF Job
    <2>2. TwoUsers(w)
        BY <1>3, <2>1 DEF TwoUsers, MergeByCode, BindingInv
    <2> QED
        BY <1>3, <2>1, <2>2, QuietJob DEF MergeByCode, Start
<1> QED
    BY <1>1, <1>2, <1>3

LEMMA CodeStep ==
    ASSUME BindingInv, NEW u \in Users, CreateBindCode(u) \/ ExpireBindCode(u)
    PROVE  BindingInv'
<1>1. UNCHANGED <<users, gone, owner, excused, jobs>>
    BY DEF CreateBindCode, ExpireBindCode
<1>2. codes' \subseteq users \cup gone
    BY DEF CreateBindCode, ExpireBindCode, BindingInv
<1>3. BindingTypeOK'
    BY <1>1, <1>2 DEF BindingInv, BindingTypeOK
<1>4. \A k \in Jobs : (TwoUsers(jobs[k]) /\ ReadAll(jobs[k]) /\ HasAnother(jobs[k]))'
    BY <1>1, JobFields DEF TwoUsers, ReadAll, HasAnother
<1> QED
    BY <1>1, <1>2, <1>3, <1>4 DEF BindingInv, Apart, NothingLost, KeepsAnIdentity, Owned

LEMMA AddRowStep == ASSUME BindingInv, NEW j \in Jobs, AddRow(j) PROVE BindingInv'
<1> DEFINE u == jobs[j].source
<1>1. CASE UNCHANGED <<owner, excused>>
    BY <1>1, FinishStep DEF AddRow
<1>2. CASE ~UNCHANGED <<owner, excused>>
    <2>1. PICK r \in excused \cap (Plain \cup Named) :
             /\ u \in users /\ owner[r] = Nobody
             /\ owner' = [owner EXCEPT ![r] = u]
             /\ excused' = IF TooLate(u) THEN excused ELSE excused \ {r}
        BY <1>2 DEF AddRow
    <2>2. /\ r \in Rows /\ r \notin Identities
          /\ jobs' = [jobs EXCEPT ![j] = NoJob] /\ UNCHANGED <<users, gone, codes>>
        BY <2>1, BindingAssumption DEF AddRow, Finish, Rows
    <2>3. \A x \in Rows : owner'[x] = IF x = r THEN u ELSE owner[x]
        BY <2>1, <2>2 DEF BindingInv, BindingTypeOK
    <2>4. \A k \in Jobs : jobs'[k] = IF k = j THEN NoJob ELSE jobs[k]
        BY <2>2 DEF BindingInv, BindingTypeOK
    <2>5. BindingTypeOK'
        BY <2>1, <2>2, NoJobTyped DEF BindingInv, BindingTypeOK
    <2>6. (\A x \in Rows : owner'[x] \in users' \cup {Nobody}) /\ NothingLost'
        BY <2>1, <2>2, <2>3 DEF BindingInv, NothingLost
    <2>7. KeepsAnIdentity'
        BY <2>2, <2>3 DEF BindingInv, KeepsAnIdentity, Owned, Rows
    <2>8. ASSUME NEW k \in Jobs, jobs'[k] = jobs[k] PROVE ReadAll(jobs[k])' /\ HasAnother(jobs[k])'
        <3>1. ReadAll(jobs[k])'
            <4>1. ASSUME jobs[k].pc = "moved", NEW x \in jobs[k].rows \cup jobs[k].dropped
                  PROVE  owner'[x] = jobs[k].source
                BY <2>1, <2>3, <4>1, JobFields DEF ReadAll
            <4>2. ASSUME jobs[k].pc = "moved", NEW x \in Rows \ excused', owner'[x] = jobs[k].source
                  PROVE  x \in jobs[k].rows \cup jobs[k].dropped
                <5>1. x # r
                    BY <2>1, <2>3, <4>2 DEF TooLate, Moving
                <5> QED
                    BY <2>1, <2>3, <4>2, <5>1, JobFields DEF ReadAll
            <4> QED
                BY <2>2, <2>8, <4>1, <4>2, JobFields DEF ReadAll
        <3>2. HasAnother(jobs[k])'
            BY <2>2, <2>3, <2>8, JobFields DEF HasAnother, Rows
        <3> QED
            BY <3>1, <3>2
    <2> QED
        BY <2>2, <2>4, <2>5, <2>6, <2>7, <2>8, RowsStep
<1> QED
    BY <1>1, <1>2

LEMMA DeleteRowStep == ASSUME BindingInv, NEW r \in Rows, DeleteRow(r) PROVE BindingInv'
<1>1. /\ r \notin Identities
      /\ \A k \in Jobs : jobs[k].pc = "moved" => r \notin jobs[k].rows \cup jobs[k].dropped
      /\ owner' = [owner EXCEPT ![r] = Nobody] /\ excused' = excused \cup {r}
      /\ UNCHANGED <<users, gone, codes, jobs>>
    BY BindingAssumption DEF DeleteRow, Moving
<1>2. \A x \in Rows : owner'[x] = IF x = r THEN Nobody ELSE owner[x]
    BY <1>1 DEF BindingInv, BindingTypeOK
<1>3. BindingTypeOK'
    BY <1>1 DEF BindingInv, BindingTypeOK
<1>4. (\A x \in Rows : owner'[x] \in users' \cup {Nobody}) /\ NothingLost'
    BY <1>1, <1>2 DEF BindingInv, NothingLost
<1>5. KeepsAnIdentity'
    BY <1>1, <1>2 DEF BindingInv, KeepsAnIdentity, Owned, Rows
<1>6. ASSUME NEW k \in Jobs PROVE ReadAll(jobs[k])' /\ HasAnother(jobs[k])'
    <2>1. ReadAll(jobs[k])'
        BY <1>1, <1>2, JobFields DEF ReadAll
    <2>2. HasAnother(jobs[k])'
        BY <1>1, <1>2, JobFields DEF HasAnother, Rows
    <2> QED
        BY <2>1, <2>2
<1> QED
    BY <1>1, <1>3, <1>4, <1>5, <1>6, RowsStep

LEMMA MoveStep == ASSUME BindingInv, NEW j \in Jobs, Move(j) PROVE BindingInv'
<1> DEFINE source == jobs[j].source
           target == jobs[j].target
           dropped == Clashing(source, target)
           rows == Migrating(source) \ dropped
<1>1. CASE Finish(j)
    BY <1>1, FinishStep DEF Move
<1>2. CASE ~Finish(j)
    <2> DEFINE w == [jobs[j] EXCEPT !.pc = "moved", !.rows = rows, !.dropped = dropped]
    <2>1. /\ jobs[j].pc = "resolved" /\ jobs[j] \in Job
          /\ rows \in SUBSET Rows /\ dropped \in SUBSET Rows
          /\ rows \cup dropped = Owned(source)
        BY JobFields DEF Move, Migrating, Clashing, Owned
    <2>2. /\ target \in users \/ rows = {}
          /\ jobs' = [jobs EXCEPT ![j].pc = "moved", ![j].rows = rows, ![j].dropped = dropped]
          /\ UNCHANGED <<users, gone, owner, codes, excused>>
        BY <1>2 DEF Move
    <2>3. /\ w \in Job /\ w.pc = "moved" /\ w.source = source /\ w.target = target
          /\ w.rows = rows /\ w.dropped = dropped
        <3> HIDE DEF rows, dropped
        <3> QED
            BY <2>1 DEF Job
    <2>4. jobs' = [jobs EXCEPT ![j] = w]
        <3>1. [jobs[j] EXCEPT !.pc = "moved", !.rows = rows, !.dropped = dropped] = w
            OBVIOUS
        <3> HIDE DEF rows, dropped
        <3> QED
            BY <2>2
    <2>5. TwoUsers(w) /\ HasAnother(w)
        BY <2>1, <2>3, JobFields DEF TwoUsers, HasAnother
    <2>6. ReadAll(w)
        BY <2>1, <2>2, <2>3 DEF ReadAll, Owned
    <2>7. ASSUME NEW k \in Jobs \ {j} PROVE Apart(w, jobs[k]) /\ Apart(jobs[k], w)
        <3>1. /\ jobs[k].pc = "moved" => jobs[k].source # source
              /\ jobs[k].pc = "unbind" => jobs[k].source \notin {source, target}
            BY DEF Move, Moving, Unbinding
        <3> QED
            BY <2>3, <3>1 DEF Apart
    <2> QED
        BY <2>2, <2>3, <2>4, <2>5, <2>6, <2>7, OneJob
<1> QED
    BY <1>1, <1>2

LEMMA DeleteStep == ASSUME BindingInv, NEW j \in Jobs, Delete(j) PROVE BindingInv'
<1> DEFINE source == jobs[j].source
           target == jobs[j].target
           rows == jobs[j].rows
<1>1. /\ jobs[j].pc = "moved" /\ jobs[j] \in Job /\ rows \subseteq Rows /\ jobs[j].dropped \subseteq Rows
      /\ source \in users \cup gone /\ source \in Users /\ source # Nobody /\ source # target
      /\ \A r \in rows \cup jobs[j].dropped : owner[r] = source
      /\ \A r \in Rows \ excused : owner[r] = source => r \in rows \cup jobs[j].dropped
      /\ rows # {} => target \in users
    BY JobFields DEF Delete, TwoUsers, ReadAll
<1>2. /\ users' = users \ {source}
      /\ gone' = gone \cup (users \cap {source})
      /\ excused' = excused \cup jobs[j].dropped \cup (IF TooLate(target) THEN rows ELSE {})
      /\ codes' \subseteq codes
      /\ jobs' = [jobs EXCEPT ![j] = NoJob]
    BY DEF Delete, Remaining, Finish
<1>3. owner' = [r \in Rows |-> IF r \in rows THEN target
                               ELSE IF owner[r] = source THEN Nobody ELSE owner[r]]
    BY DEF Delete
<1>4. /\ \A r \in rows : owner'[r] = target /\ target \in users'
      /\ \A r \in Rows \ rows : owner[r] = source => owner'[r] = Nobody
      /\ \A r \in Rows \ rows : owner[r] # source => owner'[r] = owner[r]
    BY <1>1, <1>2, <1>3
<1>5. \A k \in Jobs : jobs'[k] = IF k = j THEN NoJob ELSE jobs[k]
    BY <1>2 DEF BindingInv, BindingTypeOK
<1>6. \A r \in Rows : owner'[r] \in users' \cup {Nobody}
    <2>1. \A r \in Rows : owner[r] \in users \cup {Nobody}
        BY DEF BindingInv
    <2>2. ASSUME NEW r \in Rows PROVE owner'[r] \in users' \cup {Nobody}
        <3>1. CASE r \in rows
            BY <1>4, <3>1
        <3>2. CASE r \notin rows /\ owner[r] = source
            BY <1>4, <2>2, <3>2
        <3>3. CASE r \notin rows /\ owner[r] # source
            BY <1>2, <1>4, <2>1, <2>2, <3>3
        <3> QED
            BY <3>1, <3>2, <3>3
    <2> QED
        BY <2>2
<1>7. BindingTypeOK'
    <2>1. users' \subseteq Users /\ gone' \subseteq Users \ users' /\ codes' \subseteq Users
        BY <1>2 DEF BindingInv, BindingTypeOK
    <2>2. owner' \in [Rows -> Users \cup {Nobody}]
        BY <1>3, <1>6, <2>1
    <2>3. jobs' \in [Jobs -> Job]
        BY <1>2, NoJobTyped DEF BindingInv, BindingTypeOK
    <2>4. excused' \subseteq Rows
        BY <1>1, <1>2 DEF BindingInv, BindingTypeOK
    <2> QED
        BY <2>1, <2>2, <2>3, <2>4 DEF BindingTypeOK
<1>8. NothingLost'
    <2>1. \A r \in Rows \ excused : owner[r] \in users
        BY DEF BindingInv, NothingLost
    <2>2. ASSUME NEW r \in Rows \ excused' PROVE owner'[r] \in users'
        <3>1. r \in Rows \ excused /\ r \notin jobs[j].dropped
            BY <1>2, <2>2
        <3>2. CASE r \in rows
            BY <1>4, <3>2
        <3>3. CASE r \notin rows
            <4>1. owner[r] # source
                BY <1>1, <3>1, <3>3
            <4> QED
                BY <1>2, <1>4, <2>1, <3>1, <3>3, <4>1
        <3> QED
            BY <3>2, <3>3
    <2> QED
        BY <2>2 DEF NothingLost
<1>9. KeepsAnIdentity'
    <2>1. ASSUME NEW u \in users' PROVE \E i \in Identities : owner'[i] = u
        <3>1. u \in users /\ u # source
            BY <1>2, <2>1
        <3>2. PICK i \in Identities : owner[i] = u
            BY <3>1 DEF BindingInv, KeepsAnIdentity, Owned
        <3>3. i \in Rows \ rows
            BY <1>1, <3>1, <3>2 DEF Rows
        <3> QED
            BY <1>4, <3>1, <3>2, <3>3
    <2> QED
        BY <2>1 DEF KeepsAnIdentity, Owned, Rows
<1>10. ASSUME NEW k \in Jobs, jobs'[k] = jobs[k] PROVE ReadAll(jobs[k])' /\ HasAnother(jobs[k])'
    <2>1. CASE k = j
        BY <1>5, <1>10, <2>1, NoJobTyped DEF ReadAll, HasAnother
    <2>2. CASE k # j
        <3>1. /\ jobs[k].pc \in {"moved", "unbind"} => jobs[k].source # source /\ jobs[k].source # Nobody
              /\ Apart(jobs[k], jobs[j])
            BY <1>1, <2>2, JobFields DEF BindingInv, Apart
        <3>2. \A r \in Rows : owner[r] = jobs[k].source /\ jobs[k].source # source =>
                                 r \notin rows /\ owner'[r] = owner[r]
            BY <1>1, <1>4
        <3>3. ReadAll(jobs[k])'
            <4>1. SUFFICES ASSUME jobs[k].pc = "moved"
                           PROVE  /\ \A r \in jobs[k].rows \cup jobs[k].dropped : owner'[r] = jobs[k].source
                                  /\ \A r \in Rows \ excused' : owner'[r] = jobs[k].source =>
                                        r \in jobs[k].rows \cup jobs[k].dropped
                                  /\ jobs[k].rows # {} => jobs[k].target \in users'
                BY <1>10 DEF ReadAll
            <4>2. ASSUME NEW r \in jobs[k].rows \cup jobs[k].dropped PROVE owner'[r] = jobs[k].source
                BY <3>1, <3>2, <4>1, <4>2, JobFields DEF ReadAll
            <4>3. ASSUME NEW r \in Rows \ excused', owner'[r] = jobs[k].source
                  PROVE  r \in jobs[k].rows \cup jobs[k].dropped
                <5>1. r \notin rows
                    <6>1. SUFFICES ASSUME r \in rows PROVE FALSE
                        OBVIOUS
                    <6>2. target = jobs[k].source
                        BY <1>4, <4>3, <6>1
                    <6>3. TooLate(target)
                        BY <4>1, <6>2 DEF TooLate, Moving
                    <6> QED
                        BY <1>2, <4>3, <6>1, <6>3
                <5>2. owner[r] = jobs[k].source
                    BY <1>4, <3>1, <4>1, <4>3, <5>1
                <5> QED
                    BY <1>2, <4>1, <4>3, <5>2, JobFields DEF ReadAll
            <4>4. ASSUME jobs[k].rows # {} PROVE jobs[k].target \in users'
                <5>1. jobs[k].target \in users
                    BY <4>1, <4>4, JobFields DEF ReadAll
                <5>2. jobs[k].target # source
                    BY <4>1, <4>4 DEF Delete, Moving
                <5> QED
                    BY <1>2, <5>1, <5>2
            <4> QED
                BY <4>2, <4>3, <4>4
        <3>4. HasAnother(jobs[k])'
            <4>1. SUFFICES ASSUME jobs[k].pc = "unbind"
                           PROVE  /\ jobs[k].source \in users'
                                  /\ \A r \in jobs[k].rows : r \in Identities /\ owner'[r] = jobs[k].source
                                  /\ \E i \in Identities \ jobs[k].rows : owner'[i] = jobs[k].source
                BY <1>10 DEF HasAnother
            <4>2. /\ jobs[k].source \in users
                  /\ \A r \in jobs[k].rows : r \in Identities /\ owner[r] = jobs[k].source
                  /\ \E i \in Identities \ jobs[k].rows : owner[i] = jobs[k].source
                BY <4>1, JobFields DEF HasAnother
            <4> QED
                BY <1>2, <3>1, <3>2, <4>1, <4>2 DEF Rows
        <3> QED
            BY <3>3, <3>4
    <2> QED
        BY <2>1, <2>2
<1>11. /\ \A k \in Jobs : jobs'[k] = jobs[k] \/ jobs'[k] = NoJob
       /\ users \cup gone \subseteq users' \cup gone'
    BY <1>2, <1>5
<1> QED
    BY <1>2, <1>6, <1>7, <1>8, <1>9, <1>10, <1>11, RowsStep

LEMMA RollBackStep == ASSUME BindingInv, NEW j \in Jobs, RollBack(j) PROVE BindingInv'
BY FinishStep DEF RollBack

\* A set that is counted as more than one holds something else besides each of its elements.
LEMMA MoreThanOne ==
    ASSUME NEW S, NEW i \in S, Cardinality(S) > 1
    PROVE  \E k \in S : k # i
<1>1. SUFFICES ASSUME S = {i} PROVE FALSE
    OBVIOUS
<1>2. Cardinality({i}) = 1
    BY FS_Singleton
<1> QED
    BY <1>1, <1>2

LEMMA CountStep ==
    ASSUME BindingInv, NEW j \in Jobs, NEW u \in Users, CountIdentities(j, u) PROVE BindingInv'
<1>1. PICK i \in Owned(u) \cap Identities :
         Start(j, [NoJob EXCEPT !.pc = "unbind", !.source = u, !.rows = {i}])
    BY DEF CountIdentities
<1> DEFINE w == [NoJob EXCEPT !.pc = "unbind", !.source = u, !.rows = {i}]
<1>2. /\ i \in Identities /\ i \in Rows /\ owner[i] = u /\ u \in users
      /\ UNCHANGED <<users, gone, owner, codes, excused>>
    BY <1>1 DEF Owned, Rows, CountIdentities
<1>3. w \in Job /\ w.pc = "unbind" /\ w.source = u /\ w.rows = {i}
    <2>1. {i} \in SUBSET Rows
        BY <1>2
    <2> QED
        BY <2>1, NoJobTyped DEF Job
<1>4. PICK k \in Owned(u) \cap Identities : k # i
    BY <1>1, MoreThanOne DEF CountIdentities
<1>5. TwoUsers(w) /\ ReadAll(w) /\ HasAnother(w)
    BY <1>2, <1>3, <1>4 DEF TwoUsers, ReadAll, HasAnother, Owned
<1>6. ASSUME NEW g \in Jobs \ {j} PROVE Apart(w, jobs[g]) /\ Apart(jobs[g], w)
    <2>1. /\ jobs[g].pc = "unbind" => jobs[g].source # u
          /\ jobs[g].pc = "moved" => u \notin {jobs[g].source, jobs[g].target}
        BY DEF CountIdentities, Unbinding, Moving
    <2> QED
        BY <1>3, <2>1 DEF Apart
<1> QED
    BY <1>1, <1>2, <1>3, <1>5, <1>6, OneJob DEF Start

LEMMA UnbindStep == ASSUME BindingInv, NEW j \in Jobs, Unbind(j) PROVE BindingInv'
<1> DEFINE u == jobs[j].source
           rows == jobs[j].rows
<1>1. /\ jobs[j].pc = "unbind" /\ rows \subseteq Rows /\ u \in users /\ u # Nobody
      /\ \A r \in rows : owner[r] = u
      /\ \E i \in Identities \ rows : owner[i] = u
    BY JobFields DEF Unbind, HasAnother
<1>2. /\ owner' = [r \in Rows |-> IF r \in rows THEN Nobody ELSE owner[r]]
      /\ excused' = excused \cup rows
      /\ jobs' = [jobs EXCEPT ![j] = NoJob] /\ UNCHANGED <<users, gone, codes>>
    BY DEF Unbind, Finish
<1>3. \A r \in Rows : owner'[r] = IF r \in rows THEN Nobody ELSE owner[r]
    BY <1>2
<1>4. \A k \in Jobs : jobs'[k] = IF k = j THEN NoJob ELSE jobs[k]
    BY <1>2 DEF BindingInv, BindingTypeOK
<1>5. BindingTypeOK'
    BY <1>1, <1>2, NoJobTyped DEF BindingInv, BindingTypeOK
<1>6. (\A r \in Rows : owner'[r] \in users' \cup {Nobody}) /\ NothingLost'
    BY <1>2, <1>3 DEF BindingInv, NothingLost
<1>7. KeepsAnIdentity'
    <2>1. ASSUME NEW v \in users PROVE \E i \in Identities : owner'[i] = v
        <3>1. PICK i \in Identities \ rows : owner[i] = v
            BY <1>1 DEF BindingInv, KeepsAnIdentity, Owned
        <3> QED
            BY <1>3, <3>1 DEF Rows
    <2> QED
        BY <1>2, <2>1 DEF KeepsAnIdentity, Owned, Rows
<1>8. ASSUME NEW k \in Jobs, jobs'[k] = jobs[k] PROVE ReadAll(jobs[k])' /\ HasAnother(jobs[k])'
    <2>1. CASE k = j
        BY <1>4, <1>8, <2>1, NoJobTyped DEF ReadAll, HasAnother
    <2>2. CASE k # j
        <3>1. jobs[k].pc \in {"moved", "unbind"} => jobs[k].source # u /\ jobs[k].source # Nobody
            BY <1>1, <2>2, JobFields DEF BindingInv, Apart
        <3>2. \A r \in Rows : owner[r] = jobs[k].source /\ jobs[k].source # u =>
                                 owner'[r] = jobs[k].source
            BY <1>1, <1>3
        <3>3. \A r \in Rows : owner'[r] = jobs[k].source /\ jobs[k].source # Nobody =>
                                 owner[r] = jobs[k].source
            BY <1>3
        <3>4. ReadAll(jobs[k])'
            <4>1. SUFFICES ASSUME jobs[k].pc = "moved"
                           PROVE  /\ \A r \in jobs[k].rows \cup jobs[k].dropped : owner'[r] = jobs[k].source
                                  /\ \A r \in Rows \ excused' : owner'[r] = jobs[k].source =>
                                        r \in jobs[k].rows \cup jobs[k].dropped
                                  /\ jobs[k].rows # {} => jobs[k].target \in users'
                BY <1>8 DEF ReadAll
            <4>2. UNCHANGED users /\ excused \subseteq excused'
                BY <1>2
            <4> QED
                BY <3>1, <3>2, <3>3, <4>1, <4>2, JobFields DEF ReadAll
        <3>5. HasAnother(jobs[k])'
            <4>1. SUFFICES ASSUME jobs[k].pc = "unbind"
                           PROVE  /\ jobs[k].source \in users'
                                  /\ \A r \in jobs[k].rows : r \in Identities /\ owner'[r] = jobs[k].source
                                  /\ \E i \in Identities \ jobs[k].rows : owner'[i] = jobs[k].source
                BY <1>8 DEF HasAnother
            <4>2. /\ jobs[k].source \in users
                  /\ \A r \in jobs[k].rows : r \in Identities /\ owner[r] = jobs[k].source
                  /\ \E i \in Identities \ jobs[k].rows : owner[i] = jobs[k].source
                BY <4>1, JobFields DEF HasAnother
            <4>3. UNCHANGED users
                BY <1>2
            <4> QED
                BY <3>1, <3>2, <4>1, <4>2, <4>3 DEF Rows
        <3> QED
            BY <3>4, <3>5
    <2> QED
        BY <2>1, <2>2
<1> QED
    BY <1>2, <1>4, <1>5, <1>6, <1>7, <1>8, RowsStep

LEMMA BindingStep == ASSUME BindingInv, [BindingNext]_bindingVars PROVE BindingInv'
<1>1. CASE UNCHANGED bindingVars
    <2>1. \A k \in Jobs : ReadAll(jobs[k])' /\ HasAnother(jobs[k])'
        BY <1>1, JobFields DEF bindingVars, ReadAll, HasAnother
    <2> QED
        BY <1>1, <2>1, RowsStep
           DEF bindingVars, BindingInv, BindingTypeOK, NothingLost, KeepsAnIdentity, Owned
<1>2. CASE BindingNext
    BY <1>2, ResolveStep, StartStep, CodeStep, AddRowStep, DeleteRowStep, MoveStep, DeleteStep,
       RollBackStep, CountStep, UnbindStep DEF BindingNext
<1> QED
    BY <1>1, <1>2

LEMMA OwnersInvariant == BindingSpec => []BindingInv
BY InitOwners, BindingStep, PTL DEF BindingSpec

\* A merge loses nothing, for any number of users, rows and requests: a row that was created has
\* an owner, unless it was unbound, its name was taken at the target, or it came to the source
\* after the merge had read the source's rows (binding.py, _merge_into).
THEOREM MergesLoseNothing == BindingSpec => []NothingLost
<1>1. BindingInv => NothingLost
    BY DEF BindingInv
<1> QED
    BY OwnersInvariant, <1>1, PTL

\* However merges and unbindings overlap, a user keeps an identity to be reached through
\* (my_identity_unbind, _merge_into).
THEOREM IdentityIsKept == BindingSpec => []KeepsAnIdentity
<1>1. BindingInv => KeepsAnIdentity
    BY DEF BindingInv
<1> QED
    BY OwnersInvariant, <1>1, PTL

-----------------------------------------------------------------------------
(* Both components, as the runs take them.                                 *)

LEMMA OwnersStep ==
    ASSUME ActivationInv, BindingInv, [OwnersNext]_ownersVars
    PROVE  ActivationInv' /\ BindingInv'
<1>1. [ActivationNext]_activationVars /\ [BindingNext]_bindingVars
    BY DEF OwnersNext, ownersVars
<1> QED
    BY <1>1, ActivationStep, BindingStep

\* Requests, links, rows and merges only ever hold values of their types.
THEOREM OwnersTypeCorrect == OwnersSpec => []OwnersTypeOK
<1>1. OwnersInit => ActivationInv /\ BindingInv
    BY InitLinks, InitOwners DEF OwnersInit
<1>2. ActivationInv /\ BindingInv /\ [OwnersNext]_ownersVars => ActivationInv' /\ BindingInv'
    BY OwnersStep
<1>3. ActivationInv /\ BindingInv => OwnersTypeOK
    BY DEF ActivationInv, BindingInv, OwnersTypeOK
<1> QED
    BY <1>1, <1>2, <1>3, PTL DEF OwnersSpec

=============================================================================
