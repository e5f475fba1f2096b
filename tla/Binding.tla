------------------------------ MODULE Binding -------------------------------
(***************************************************************************)
(* Who owns what: chat identities and the rows of a user, and the merging  *)
(* of two users into one (binding.py, the identity endpoints of main.py,   *)
(* resolve_user).                                                          *)
(*                                                                         *)
(* A merge is one transaction, but what other transactions commit between  *)
(* its reads and its commit is there when the source user is deleted.  Row *)
(* locks make writers of the same row wait for each other, and the foreign *)
(* keys make the deletion of a user wait for transactions that have given  *)
(* it a row.                                                               *)
(***************************************************************************)
EXTENDS Naturals, FiniteSets

CONSTANTS Users, Nobody,
          Identities,     \* channel identities
          Plain,          \* rows without a name: messages, memories, usage, channel instances ...
          Named,          \* rows of one name: cards, presets, knowledge items ...
          Jobs            \* requests and tasks that can be under way at a time

ASSUME BindingAssumption == /\ Nobody \notin Users
                            /\ Identities \cap (Plain \cup Named) = {}

VARIABLES users,          \* the rows of the table users
          gone,           \* users that have been merged into others
          owner, codes, jobs,
          excused         \* rows that may be without an owner (for the properties only)

bindingVars == <<users, gone, owner, codes, jobs, excused>>

-----------------------------------------------------------------------------

Rows == Identities \cup Plain \cup Named

\* source is merged into target; code is the user whose bind code it was, locked says that its
\* row is locked.  rows and dropped: what the merge has moved and dropped, not yet committed; the
\* identity that an unbinding deletes.
Job == [pc : {"idle", "resolved", "moved", "unbind", "add"}, source : Users \cup {Nobody},
        target : Users \cup {Nobody}, locked : BOOLEAN,
        rows : SUBSET Rows, dropped : SUBSET Rows]
NoJob == [pc |-> "idle", source |-> Nobody, target |-> Nobody, locked |-> FALSE,
          rows |-> {}, dropped |-> {}]

\* codes: the users with an unexpired bind code, gone or not: its row has no foreign key.
BindingTypeOK ==
    /\ users \subseteq Users /\ gone \subseteq Users \ users
    /\ owner \in [Rows -> Users \cup {Nobody}]
    /\ codes \subseteq Users
    /\ jobs \in [Jobs -> Job]
    /\ excused \subseteq Rows

BindingInit ==
    /\ users = {} /\ gone = {} /\ codes = {} /\ excused = Rows
    /\ owner = [r \in Rows |-> Nobody]
    /\ jobs = [j \in Jobs |-> NoJob]

-----------------------------------------------------------------------------

Owned(u) == {r \in Rows : owner[r] = u}
Moving == {j \in Jobs : jobs[j].pc = "moved"}
Unbinding(u) == \E j \in Jobs : jobs[j].pc = "unbind" /\ jobs[j].source = u
CodeLocked(c) == \E j \in Jobs : jobs[j].locked /\ jobs[j].source = c

\* A row given to a user whose own merge has already read its rows.
TooLate(u) == \E j \in Moving : jobs[j].source = u

Start(j, new) == jobs[j].pc = "idle" /\ jobs' = [jobs EXCEPT ![j] = new]
Finish(j) == jobs' = [jobs EXCEPT ![j] = NoJob]

\* The rows that a merge of source into target drops: target has one of the same name.
Clashing(source, target) == {r \in Owned(source) \cap Named : Owned(target) \cap Named # {}}

\* Faulty: rows without a name are left to the foreign keys.
MigratingNamed(source) == Owned(source) \ Plain
\* The rows that _merge_into looks for.
Migrating(source) == Owned(source)

-----------------------------------------------------------------------------
(* Users and their rows.                                                   *)

\* resolve_user, for an identity that is not known: a user and its default card.
ResolveUser(i) ==
    /\ owner[i] = Nobody
    /\ \E u \in Users \ (users \cup gone), card \in Named :
         /\ owner[card] = Nobody /\ card \in excused
         /\ users' = users \cup {u}
         /\ owner' = [owner EXCEPT ![i] = u, ![card] = u]
         /\ excused' = excused \ {i, card}
    /\ UNCHANGED <<gone, codes, jobs>>

\* A handler that has found the user and will insert a row for it.
FindUser(j, u) == /\ u \in users
                  /\ Start(j, [NoJob EXCEPT !.pc = "add", !.source = u])
                  /\ UNCHANGED <<users, gone, owner, codes, excused>>

\* The insertion fails when the user is gone, and waits for a merge that brings a row of the
\* same name.
AddRow(j) ==
    LET u == jobs[j].source
    IN  /\ jobs[j].pc = "add"
        /\ \/ u \notin users /\ UNCHANGED <<owner, excused>>
           \/ \E r \in excused \cap (Plain \cup Named) :
                /\ u \in users /\ owner[r] = Nobody
                /\ r \in Named => /\ Owned(u) \cap Named = {}
                                  /\ \A k \in Moving : jobs[k].target = u => jobs[k].rows \cap Named = {}
                /\ owner' = [owner EXCEPT ![r] = u]
                /\ excused' = IF TooLate(u) THEN excused ELSE excused \ {r}
        /\ Finish(j)
        /\ UNCHANGED <<users, gone, codes>>

\* A user deletes a row of his; one that a merge has changed is waited for.
DeleteRow(r) ==
    /\ r \in Plain \cup Named /\ owner[r] # Nobody
    /\ \A k \in Moving : r \notin jobs[k].rows \cup jobs[k].dropped
    /\ owner' = [owner EXCEPT ![r] = Nobody]
    /\ excused' = excused \cup {r}
    /\ UNCHANGED <<users, gone, codes, jobs>>

-----------------------------------------------------------------------------
(* Merging.                                                                *)

CreateBindCode(u) == /\ u \in users /\ ~CodeLocked(u)
                     /\ codes' = codes \cup {u}
                     /\ UNCHANGED <<users, gone, owner, jobs, excused>>

ExpireBindCode(u) == /\ u \in codes /\ ~CodeLocked(u)
                     /\ codes' = codes \ {u}
                     /\ UNCHANGED <<users, gone, owner, jobs, excused>>

\* /bind <code>: the user of the channel goes into the user of the code, whose row is not
\* locked.
ResolveBind(j, u, c) ==
    /\ c \in codes /\ u \in users
    /\ \/ c = u /\ ~CodeLocked(c) /\ codes' = codes \ {c} /\ UNCHANGED jobs
       \/ /\ c # u /\ Owned(u) \cap Identities # {}
          /\ Start(j, [NoJob EXCEPT !.pc = "resolved", !.source = u, !.target = c])
          /\ UNCHANGED codes
    /\ UNCHANGED <<users, gone, owner, excused>>

\* merge_by_code: the user of the code goes into the user of the console.
MergeByCode(j, u, c) ==
    /\ c \in codes /\ c # u /\ u \in users /\ ~CodeLocked(c)
    /\ Start(j, [NoJob EXCEPT !.pc = "resolved", !.source = c, !.target = u, !.locked = TRUE])
    /\ UNCHANGED <<users, gone, owner, codes, excused>>

\* _merge_into gives every row of source that is committed by now to target, or drops it.  The
\* foreign keys refuse a target that is gone; a name that another merge brings is waited for.
Move(j) ==
    LET source == jobs[j].source
        target == jobs[j].target
        dropped == Clashing(source, target)
        rows == Migrating(source) \ dropped
    IN  /\ jobs[j].pc = "resolved"
        /\ \A k \in Moving : /\ jobs[k].source # source
                             /\ jobs[k].target = target => {} \in {rows \cap Named, jobs[k].rows \cap Named}
        /\ ~Unbinding(source) /\ ~Unbinding(target)
        /\ \/ /\ target \in users \/ rows = {}
              /\ jobs' = [jobs EXCEPT ![j].pc = "moved", ![j].rows = rows, ![j].dropped = dropped]
           \/ target \notin users /\ rows # {} /\ Finish(j)
        /\ UNCHANGED <<users, gone, owner, codes, excused>>

\* Faulty: the emptied user stays.
RemainingAll(source) == users
Remaining(source) == users \ {source}

\* The source user is deleted, with the rows that it has got meanwhile, and all is committed.
Delete(j) ==
    LET source == jobs[j].source
        target == jobs[j].target
        rows == jobs[j].rows
    IN  /\ jobs[j].pc = "moved"
        /\ \A k \in Moving : jobs[k].target = source => jobs[k].rows = {}
        /\ ~Unbinding(source)
        /\ users' = Remaining(source)
        /\ gone' = gone \cup (users \cap {source})
        /\ owner' = [r \in Rows |-> IF r \in rows THEN target
                                    ELSE IF owner[r] = source THEN Nobody ELSE owner[r]]
        /\ excused' = excused \cup jobs[j].dropped \cup (IF TooLate(target) THEN rows ELSE {})
        /\ codes' = codes \ {IF jobs[j].locked THEN source ELSE target}
        /\ Finish(j)

\* The transaction is rolled back: a deadlock, or the process ends.
RollBack(j) == /\ jobs[j].pc # "idle" /\ Finish(j)
               /\ UNCHANGED <<users, gone, owner, codes, excused>>

-----------------------------------------------------------------------------
(* my_identity_unbind.                                                     *)

\* Faulty: the user and its identities are read without locks.
CountUnlocked(j, u) ==
    /\ u \in users
    /\ Cardinality(Owned(u) \cap Identities) > 1
    /\ \E i \in Owned(u) \cap Identities :
         Start(j, [NoJob EXCEPT !.pc = "unbind", !.source = u, !.rows = {i}])
    /\ UNCHANGED <<users, gone, owner, codes, excused>>

\* The user and its identities are locked and counted; a transaction that has changed one of
\* them, or given the user a row, is waited for.
CountIdentities(j, u) ==
    /\ u \in users /\ ~Unbinding(u)
    /\ \A k \in Moving : u \notin {jobs[k].source, jobs[k].target}
    /\ Cardinality(Owned(u) \cap Identities) > 1
    /\ \E i \in Owned(u) \cap Identities :
         Start(j, [NoJob EXCEPT !.pc = "unbind", !.source = u, !.rows = {i}])
    /\ UNCHANGED <<users, gone, owner, codes, excused>>

Unbind(j) ==
    /\ jobs[j].pc = "unbind"
    /\ owner' = [r \in Rows |-> IF r \in jobs[j].rows THEN Nobody ELSE owner[r]]
    /\ excused' = excused \cup jobs[j].rows
    /\ Finish(j)
    /\ UNCHANGED <<users, gone, codes>>

BindingNext ==
    \/ \E i \in Identities : ResolveUser(i)
    \/ \E r \in Rows : DeleteRow(r)
    \/ \E j \in Jobs :
         \/ AddRow(j) \/ Move(j) \/ Delete(j) \/ Unbind(j) \/ RollBack(j)
         \/ \E u \in Users : \/ FindUser(j, u) \/ CountIdentities(j, u)
                             \/ \E c \in Users : ResolveBind(j, u, c) \/ MergeByCode(j, u, c)
    \/ \E u \in Users : CreateBindCode(u) \/ ExpireBindCode(u)

BindingSpec == BindingInit /\ [][BindingNext]_bindingVars

-----------------------------------------------------------------------------

\* A merge loses nothing: whatever merges, bindings, messages and unbindings overlap, a row that
\* was created has an owner, unless it was unbound, its name was taken at the target, or it came
\* to the source after the merge had read the source's rows.
NothingLost == \A r \in Rows \ excused : owner[r] \in users

\* A user that has come from a channel keeps an identity (main.py:1449-1465).
KeepsAnIdentity == \A u \in users : Owned(u) \cap Identities # {}

=============================================================================
