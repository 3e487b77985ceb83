------------------------------ MODULE Invites ------------------------------
(***************************************************************************)
(* Who may enter a venture: the user, invite and membership tables of the  *)
(* control database (crate/ledger/schema/control/000_init.surql), the      *)
(* sign-ins that turn invites into memberships (routes/auth.rs,            *)
(* accept_pending_invites), and the desk at which owners create, revoke    *)
(* and delete invites (routes/invites.rs).                                 *)
(*                                                                         *)
(* As in Contributions, an action is one statement and what its handler    *)
(* does until the next await.                                              *)
(***************************************************************************)
EXTENDS Integers, FiniteSets

CONSTANTS
    Emails,       \* addresses as some table may store them
    Normal,       \* the addresses that trim and to_lowercase return
    Slugs,        \* ventures
    Roles,        \* roles an invite may offer (a bound on the schema's three)
    MaxInvites,   \* bound: how many invite rows are ever created
    SignIns,      \* sign-ins that may be under way at once (a bound)
    Desks,        \* owner requests that may be under way at once (a bound)
    None          \* no value

ASSUME InvitesAssumption ==
    /\ Normal \subseteq Emails
    /\ Roles \subseteq {"owner", "treasurer", "member"}
    /\ MaxInvites \in Nat
    /\ None \notin Emails \cup Slugs \cup Roles \cup {"owner"}

VARIABLES
    user,         \* password[e] of the rows of the user table, by email
    founder,      \* created_by of the tenant_directory, by slug; None: no venture
    membership,   \* role by email and slug; None: no row
    invite,       \* the invite table: a set of rows
    minted,       \* how many ids were ever given to invite rows
    signin,       \* signin[s]: what the handler of sign-in s holds
    desk          \* desk[d]: what the handler of owner request d holds

vars == <<user, founder, membership, invite, minted, signin, desk>>
tables == <<user, founder, membership, invite, minted>>

Ids == 1..MaxInvites

\* accepted_at and revoked_at matter by whether they are set.
Invite ==
    [id : Ids, slug : Slugs, email : Emails, role : Roles, invited_by : Emails,
     accepted : BOOLEAN, revoked : BOOLEAN]

\* A user row: no row, a row without a password, a row with one.
UserRow == {"none", "google", "password"}

Member(e, slug) == membership[e][slug] # None

Out == [pc |-> "out", who |-> None, listed |-> {}, handled |-> {}, inv |-> None]

\* What accept_pending_invites uses of an invite it listed.
Pending == [id : Ids, slug : Slugs, role : Roles, accepted : BOOLEAN]

SignInState ==
    [pc : {"out", "create", "attach", "list", "member", "mark", "in"},
     who : Emails \cup {None}, listed : SUBSET Pending, handled : SUBSET Pending,
     inv : Pending \cup {None}]

Closed == [pc |-> "closed", who |-> None, slug |-> None, email |-> None, role |-> None, id |-> 0]

DeskState ==
    [pc : {"closed", "lookup", "create", "reactivate", "revoke", "delete"},
     who : Emails \cup {None}, slug : Slugs \cup {None}, email : Emails \cup {None},
     role : Roles \cup {None}, id : {0} \cup Ids]

\* A handler goes on with what it holds now, and leaves the other kind alone.
SignInHolds(s, held) == signin' = [signin EXCEPT ![s] = held] /\ UNCHANGED desk
DeskHolds(d, held) == desk' = [desk EXCEPT ![d] = held] /\ UNCHANGED signin

-----------------------------------------------------------------------------

Init ==
    /\ user = [e \in Emails |-> "none"]
    /\ founder = [v \in Slugs |-> None]
    /\ membership = [e \in Emails |-> [v \in Slugs |-> None]]
    /\ invite = {}
    /\ minted = 0
    /\ signin = [s \in SignIns |-> Out]
    /\ desk = [d \in Desks |-> Closed]

\* create_tenant, as the control database sees it: one transaction.
FoundVenture(e, slug) ==
    /\ user[e] # "none"
    /\ founder[slug] = None
    /\ ~Member(e, slug)
    /\ founder' = [founder EXCEPT ![slug] = e]
    /\ membership' = [membership EXCEPT ![e][slug] = "owner"]
    /\ UNCHANGED <<user, invite, minted, signin, desk>>

(***************************************************************************)
(* Sign-ins.  A slot whose sign-in has ended is taken again.               *)
(***************************************************************************)
Resting(s) == signin[s].pc \in {"out", "in"}

Arrives(s, e, pc) == SignInHolds(s, [Out EXCEPT !.pc = pc, !.who = e])

\* google: upsert_user by the address Google gives, as it is.
GoogleSignIn(s, e) ==
    /\ Resting(s)
    /\ user' = [user EXCEPT ![e] = IF @ = "none" THEN "google" ELSE @]
    /\ Arrives(s, e, "list")
    /\ UNCHANGED <<founder, membership, invite, minted>>

\* login: the row must have a password.
PasswordSignIn(s, e) ==
    /\ Resting(s)
    /\ user[e] = "password"
    /\ Arrives(s, e, "list")
    /\ UNCHANGED tables

\* register: create_password_user looks first ...
Register(s, e) ==
    /\ Resting(s)
    /\ user[e] # "password"
    /\ Arrives(s, e, IF user[e] = "none" THEN "create" ELSE "attach")
    /\ UNCHANGED tables

\* ... then creates the row, unless the unique index finds one by now ...
CreateUser(s) ==
    /\ signin[s].pc = "create"
    /\ IF user[signin[s].who] = "none"
       THEN /\ user' = [user EXCEPT ![signin[s].who] = "password"]
            /\ SignInHolds(s, [signin[s] EXCEPT !.pc = "list"])
       ELSE SignInHolds(s, Out) /\ UNCHANGED user
    /\ UNCHANGED <<founder, membership, invite, minted>>

\* ... or gives the row it found its password.
AttachPassword(s) ==
    /\ signin[s].pc = "attach"
    /\ user' = [user EXCEPT ![signin[s].who] = "password"]
    /\ SignInHolds(s, [signin[s] EXCEPT !.pc = "list"])
    /\ UNCHANGED <<founder, membership, invite, minted>>

\* The sign-in of a handler that holds h goes on with the invites left, or ends
\* in a session.
NextInvite(h) == [h EXCEPT !.pc = IF h.listed = h.handled THEN "in" ELSE "member", !.inv = None]

\* The invites of an address that are not revoked, accepted ones included.
InvitesOf(e) == {i \in invite : i.email = e /\ ~i.revoked}

AsListed(i) == [id |-> i.id, slug |-> i.slug, role |-> i.role, accepted |-> i.accepted]

\* Variant for the checks: the invites are marked as they are listed.
ListInvitesMarking(s) ==
    /\ signin[s].pc = "list"
    /\ LET mine == InvitesOf(signin[s].who)
       IN  /\ SignInHolds(s, NextInvite([signin[s] EXCEPT !.listed = {AsListed(i) : i \in mine}]))
           /\ invite' = (invite \ mine) \cup {[i EXCEPT !.accepted = TRUE] : i \in mine}
    /\ UNCHANGED <<user, founder, membership, minted>>

\* accept_pending_invites: the list ...
ListInvites(s) ==
    /\ signin[s].pc = "list"
    /\ LET mine == InvitesOf(signin[s].who)
       IN  SignInHolds(s, NextInvite([signin[s] EXCEPT !.listed = {AsListed(i) : i \in mine}]))
    /\ UNCHANGED tables

\* Variant for the checks: the loop ends at the first invite taken before.
WriteMembershipOrStop(s) ==
    /\ signin[s].pc = "member"
    /\ \E i \in signin[s].listed \ signin[s].handled :
          /\ membership' = [membership EXCEPT ![signin[s].who][i.slug] = i.role]
          /\ LET taken == [signin[s] EXCEPT !.handled = @ \cup {i}, !.inv = i]
             IN  SignInHolds(s, [taken EXCEPT !.pc = IF i.accepted THEN "in" ELSE "mark"])
    /\ UNCHANGED <<user, founder, invite, minted>>

\* Variant for the checks: a membership that was there before is listed again.
WriteMembershipAgain(s) ==
    /\ signin[s].pc = "member"
    /\ \E i \in signin[s].listed \ signin[s].handled :
          /\ membership' = [membership EXCEPT ![signin[s].who][i.slug] = i.role]
          /\ LET taken == [signin[s] EXCEPT !.handled = @ \cup {i}, !.inv = i]
             IN  SignInHolds(s, IF Member(signin[s].who, i.slug) THEN signin[s]
                                ELSE IF i.accepted THEN NextInvite(taken)
                                ELSE [taken EXCEPT !.pc = "mark"])
    /\ UNCHANGED <<user, founder, invite, minted>>

\* ... then, invite by invite, the membership it offered when it was listed ...
WriteMembership(s) ==
    /\ signin[s].pc = "member"
    /\ \E i \in signin[s].listed \ signin[s].handled :
          /\ membership' = [membership EXCEPT ![signin[s].who][i.slug] = i.role]
          /\ LET taken == [signin[s] EXCEPT !.handled = @ \cup {i}, !.inv = i]
             IN  SignInHolds(s, IF i.accepted THEN NextInvite(taken)
                                ELSE [taken EXCEPT !.pc = "mark"])
    /\ UNCHANGED <<user, founder, invite, minted>>

\* ... and then the mark on its row, if the row is still there.
MarkAccepted(s) ==
    /\ signin[s].pc = "mark"
    /\ invite' = {IF i.id = signin[s].inv.id THEN [i EXCEPT !.accepted = TRUE] ELSE i : i \in invite}
    /\ SignInHolds(s, NextInvite(signin[s]))
    /\ UNCHANGED <<user, founder, membership, minted>>

\* A statement fails (also the mark, when its row is gone) or the client hangs up.
SignInFails(s) ==
    /\ ~Resting(s)
    /\ SignInHolds(s, Out)
    /\ UNCHANGED tables

SignInStep(s) ==
    \/ CreateUser(s)
    \/ AttachPassword(s)
    \/ ListInvites(s)
    \/ WriteMembership(s)
    \/ MarkAccepted(s)

(***************************************************************************)
(* The owners' desk                                                        *)
(***************************************************************************)

\* Variant for the checks: an owner of any venture will do.
OwnerAsksAnywhere(d, e, slug, op, email, role, id) ==
    /\ desk[d].pc = "closed"
    /\ \E v \in Slugs : membership[e][v] = "owner"
    /\ DeskHolds(d, [pc |-> op, who |-> e, slug |-> slug, email |-> email, role |-> role, id |-> id])
    /\ UNCHANGED tables

\* require_owner; the rest of the request is taken as it was checked.
OwnerAsks(d, e, slug, op, email, role, id) ==
    /\ desk[d].pc = "closed"
    /\ membership[e][slug] = "owner"
    /\ DeskHolds(d, [pc |-> op, who |-> e, slug |-> slug, email |-> email, role |-> role, id |-> id])
    /\ UNCHANGED tables

AsksToInvite(d, e, slug) ==
    \E email \in Normal, role \in Roles : OwnerAsks(d, e, slug, "lookup", email, role, 0)

AsksToRemove(d, e, slug) ==
    \E op \in {"revoke", "delete"}, i \in invite : OwnerAsks(d, e, slug, op, None, None, i.id)

\* The row of the invite table that a desk's handler is about to touch.
Addressed(d) == {i \in invite : i.slug = desk[d].slug /\ i.email = desk[d].email}

\* create_invite looks for the row of this slug and email ...
LookUp(d) ==
    /\ desk[d].pc = "lookup"
    /\ DeskHolds(d,
          IF Addressed(d) = {} THEN [desk[d] EXCEPT !.pc = "create"]
          ELSE LET i == CHOOSE i \in Addressed(d) : TRUE
               IN  IF i.revoked THEN [desk[d] EXCEPT !.pc = "reactivate", !.id = i.id]
                   ELSE Closed)
    /\ UNCHANGED tables

\* Variant for the checks: no unique index on slug and email.
CreateInviteUnindexed(d) ==
    /\ desk[d].pc = "create"
    /\ minted < MaxInvites
    /\ minted' = minted + 1
    /\ invite' = invite \cup
          {[id |-> minted + 1, slug |-> desk[d].slug, email |-> desk[d].email,
            role |-> desk[d].role, invited_by |-> desk[d].who,
            accepted |-> FALSE, revoked |-> FALSE]}
    /\ DeskHolds(d, Closed)
    /\ UNCHANGED <<user, founder, membership>>

\* ... then creates one, unless the unique index finds one by now ...
CreateInvite(d) ==
    /\ desk[d].pc = "create"
    /\ Addressed(d) = {}
    /\ minted < MaxInvites
    /\ minted' = minted + 1
    /\ invite' = invite \cup
          {[id |-> minted + 1, slug |-> desk[d].slug, email |-> desk[d].email,
            role |-> desk[d].role, invited_by |-> desk[d].who,
            accepted |-> FALSE, revoked |-> FALSE]}
    /\ DeskHolds(d, Closed)
    /\ UNCHANGED <<user, founder, membership>>

\* ... or takes back the revocation it saw, whatever became of the row since.
Reactivate(d) ==
    /\ desk[d].pc = "reactivate"
    /\ invite' = {IF i.id = desk[d].id
                  THEN [i EXCEPT !.revoked = FALSE, !.role = desk[d].role,
                                 !.invited_by = desk[d].who]
                  ELSE i : i \in invite}
    /\ DeskHolds(d, Closed)
    /\ UNCHANGED <<user, founder, membership, minted>>

RevokeInvite(d) ==
    /\ desk[d].pc = "revoke"
    /\ invite' = {IF i.id = desk[d].id /\ i.slug = desk[d].slug
                  THEN [i EXCEPT !.revoked = TRUE] ELSE i : i \in invite}
    /\ DeskHolds(d, Closed)
    /\ UNCHANGED <<user, founder, membership, minted>>

\* delete_invite: an accepted invite stays.
DeleteInvite(d) ==
    /\ desk[d].pc = "delete"
    /\ invite' = {i \in invite : i.id # desk[d].id \/ i.slug # desk[d].slug \/ i.accepted}
    /\ DeskHolds(d, Closed)
    /\ UNCHANGED <<user, founder, membership, minted>>

\* A statement fails, the unique index among the reasons, or the client hangs up.
DeskFails(d) ==
    /\ desk[d].pc # "closed"
    /\ DeskHolds(d, Closed)
    /\ UNCHANGED tables

DeskStep(d) ==
    \/ LookUp(d)
    \/ CreateInvite(d)
    \/ Reactivate(d)
    \/ RevokeInvite(d)
    \/ DeleteInvite(d)

-----------------------------------------------------------------------------

Next ==
    \/ \E e \in Emails, slug \in Slugs : FoundVenture(e, slug)
    \/ \E s \in SignIns :
          \/ \E e \in Emails : GoogleSignIn(s, e)
          \/ \E e \in Normal : PasswordSignIn(s, e) \/ Register(s, e)
          \/ SignInStep(s)
          \/ SignInFails(s)
    \/ \E d \in Desks :
          \/ \E e \in Emails, slug \in Slugs : AsksToInvite(d, e, slug) \/ AsksToRemove(d, e, slug)
          \/ DeskStep(d)
          \/ DeskFails(d)

Spec == Init /\ [][Next]_vars

\* The runtime polls every sign-in whose await is over.
FairSpec == Spec /\ \A s \in SignIns : WF_vars(SignInStep(s))

-----------------------------------------------------------------------------
(***************************************************************************)
(* Properties                                                              *)
(***************************************************************************)

\* Every variable has its type, an id names one invite, and a venture has one
\* invite for an address, however many owners invite it at once.
TypeOK ==
    /\ user \in [Emails -> UserRow]
    /\ founder \in [Slugs -> Emails \cup {None}]
    /\ membership \in [Emails -> [Slugs -> Roles \cup {"owner", None}]]
    /\ invite \subseteq Invite
    /\ minted \in 0..MaxInvites
    /\ signin \in [SignIns -> SignInState]
    /\ desk \in [Desks -> DeskState]
    /\ \A i \in invite : i.id <= minted
    /\ \A i, j \in invite : i.id = j.id \/ (i.slug = j.slug /\ i.email = j.email) => i = j

\* "If the membership write fails the invite is not marked accepted"
\* (accept_pending_invites): an accepted invite has its membership, whatever
\* fails, whoever revokes, deletes and invites again between the statements.
AcceptedMeansMember == \A i \in invite : i.accepted => Member(i.email, i.slug)

\* A sign-in that ends in a session left no invite of its list behind: whoever
\* deletes or revokes an invite meanwhile, the user is a member of its venture.
SignedInMeansMember ==
    \A s \in SignIns : signin[s].pc = "in" =>
        \A i \in signin[s].listed : Member(signin[s].who, i.slug)

\* Nobody comes from nowhere: invites are for ventures that exist and were
\* written for a member of theirs, and members are users of ventures that
\* exist, although each handler acts on what it read some awaits ago.
NobodyFromNowhere ==
    /\ \A i \in invite : founder[i.slug] # None /\ Member(i.invited_by, i.slug)
    /\ \A e \in Emails, slug \in Slugs :
          Member(e, slug) => user[e] # "none" /\ founder[slug] # None

\* Every sign-in is over some time: its loop takes every invite once.
SignInsEnd == \A s \in SignIns : ~Resting(s) ~> Resting(s)

(***************************************************************************)
(* What the repository says of itself and the code does not keep           *)
(***************************************************************************)

\* "once accepted there's a `membership` row depending on it and the invite
\* stays as audit history" (client.rs, delete_invite): a member who did not
\* found the venture has an invite on record.
MembersHaveInvites ==
    \A e \in Emails, slug \in Slugs :
        (Member(e, slug) /\ founder[slug] # e) =>
            \E i \in invite : i.slug = slug /\ i.email = e

\* "If an active (non-revoked) row exists -> InviteExists" (client.rs,
\* create_invite): the role of an active invite does not change.
ActiveInviteKeepsRole ==
    [][\A i \in invite, j \in invite' :
          (i.id = j.id /\ ~i.revoked /\ ~j.revoked) => i.role = j.role]_vars
=============================================================================
