--------------------------- MODULE InvitesProofs ---------------------------
(***************************************************************************)
(* Proofs about Invites: its tables keep their types, and an accepted      *)
(* invite, a session and a membership each rest on what they claim.        *)
(*                                                                         *)
(* The invariants are not inductive by themselves.  A handler acts on what *)
(* it read some awaits ago, so Invariant adds what every sign-in and every *)
(* desk still knows of the tables (SignInKnows, DeskKnows); TablesGrow is  *)
(* what any step of another handler leaves of that knowledge.              *)
(***************************************************************************)
EXTENDS Invites, TLAPS

\* What the handler that holds h knows of the tables, whoever wrote since.
SignInKnows(h) ==
    /\ h.pc # "out" => h.who \in Emails
    /\ h.pc \in {"out", "create", "attach", "list"} => h.listed = {}
    /\ h.pc \in {"list", "member", "mark", "in"} => user[h.who] # "none"
    /\ h.handled \subseteq h.listed
    /\ \A p \in h.handled : Member(h.who, p.slug)
    /\ \A p \in h.listed :
          /\ founder[p.slug] # None
          /\ p.id <= minted
          /\ \A i \in invite : i.id = p.id => i.slug = p.slug /\ i.email = h.who
    /\ h.pc = "mark" => h.inv \in h.handled
    /\ h.pc = "in" => h.listed = h.handled

DeskKnows(h) ==
    /\ h.pc # "closed" => h.who \in Emails /\ h.slug \in Slugs /\ Member(h.who, h.slug)
    /\ h.pc \in {"lookup", "create", "reactivate"} => h.email \in Emails /\ h.role \in Roles
    /\ h.pc = "reactivate" =>
          h.id <= minted /\ \A i \in invite : i.id = h.id => i.slug = h.slug

Invariant ==
    /\ TypeOK
    /\ AcceptedMeansMember
    /\ NobodyFromNowhere
    /\ \A s \in SignIns : SignInKnows(signin[s])
    /\ \A d \in Desks : DeskKnows(desk[d])

\* No user, venture or member is lost, and an id keeps its venture and address.
TablesGrow ==
    /\ \A e \in Emails : user[e] # "none" => user'[e] # "none"
    /\ \A v \in Slugs : founder[v] # None => founder'[v] # None
    /\ \A e \in Emails, v \in Slugs : Member(e, v) => Member(e, v)'
    /\ minted' \in 0..MaxInvites /\ minted <= minted'
    /\ \A j \in invite' :
          \/ j.id = minted + 1
          \/ \E i \in invite : i.id = j.id /\ i.slug = j.slug /\ i.email = j.email

\* What Invariant says of the tables alone.
TablesHold ==
    /\ user \in [Emails -> UserRow]
    /\ founder \in [Slugs -> Emails \cup {None}]
    /\ membership \in [Emails -> [Slugs -> Roles \cup {"owner", None}]]
    /\ invite \subseteq Invite
    /\ minted \in 0..MaxInvites
    /\ \A i \in invite : i.id <= minted
    /\ \A i, j \in invite : i.id = j.id \/ (i.slug = j.slug /\ i.email = j.email) => i = j
    /\ AcceptedMeansMember
    /\ NobodyFromNowhere

-----------------------------------------------------------------------------

\* What a sign-in knows stays true while others write.
LEMMA SignInStillKnows ==
    ASSUME TypeOK, TablesGrow, NEW h \in SignInState, SignInKnows(h)
    PROVE  SignInKnows(h)'
<1> USE DEF SignInKnows
<1>1. h.listed \subseteq Pending /\ h.handled \subseteq h.listed
    BY DEF SignInState
<1>2. h.pc # "out" => h.who \in Emails
    OBVIOUS
<1>3. h.pc \in {"list", "member", "mark", "in"} => user'[h.who] # "none"
    BY <1>2 DEF TablesGrow
<1>4. ASSUME NEW p \in h.handled PROVE Member(h.who, p.slug)'
    <2>1. p \in Pending /\ h.who \in Emails /\ Member(h.who, p.slug)
        BY <1>1, <1>2
    <2> QED  BY <2>1 DEF TablesGrow, Pending
<1>5. ASSUME NEW p \in h.listed
      PROVE  /\ founder'[p.slug] # None
             /\ p.id <= minted'
             /\ \A i \in invite' : i.id = p.id => i.slug = p.slug /\ i.email = h.who
    <2>1. p \in Pending /\ p.id \in Int /\ minted \in Int /\ minted' \in Int
        BY <1>1, InvitesAssumption DEF Pending, Ids, TypeOK, TablesGrow
    <2>2. founder'[p.slug] # None
        BY <2>1 DEF TablesGrow, Pending
    <2>3. p.id <= minted'
        BY <2>1 DEF TablesGrow
    <2>4. ASSUME NEW i \in invite', i.id = p.id PROVE i.slug = p.slug /\ i.email = h.who
        <3>1. i.id # minted + 1
            BY <2>1, <2>4
        <3>2. PICK o \in invite : o.id = i.id /\ o.slug = i.slug /\ o.email = i.email
            BY <3>1 DEF TablesGrow
        <3> QED  BY <2>4, <3>2
    <2> QED  BY <2>2, <2>3, <2>4
<1> QED  BY <1>3, <1>4, <1>5

\* What a desk knows stays true while others write.
LEMMA DeskStillKnows ==
    ASSUME TypeOK, TablesGrow, NEW h \in DeskState, DeskKnows(h)
    PROVE  DeskKnows(h)'
<1> USE DEF DeskKnows
<1>1. h.pc # "closed" => Member(h.who, h.slug)'
    BY DEF TablesGrow
<1>2. ASSUME h.pc = "reactivate"
      PROVE  h.id <= minted' /\ \A i \in invite' : i.id = h.id => i.slug = h.slug
    <2>1. h.id \in Int /\ minted \in Int /\ minted' \in Int
        BY InvitesAssumption DEF DeskState, Ids, TypeOK, TablesGrow
    <2>2. h.id <= minted /\ minted <= minted'
        BY <1>2 DEF TablesGrow
    <2>3. ASSUME NEW i \in invite', i.id = h.id PROVE i.slug = h.slug
        <3>1. i.id # minted + 1
            BY <2>1, <2>2, <2>3
        <3>2. PICK o \in invite : o.id = i.id /\ o.slug = i.slug
            BY <3>1 DEF TablesGrow
        <3> QED  BY <1>2, <2>3, <3>2
    <2> QED  BY <2>1, <2>2, <2>3
<1> QED  BY <1>1, <1>2

\* A step that leaves the tables alone keeps what holds of them.
LEMMA TablesRest == ASSUME Invariant, UNCHANGED tables PROVE TablesHold' /\ TablesGrow
<1>1. TablesHold /\ TablesHold' = TablesHold
    BY DEF Invariant, TypeOK, TablesHold, tables, AcceptedMeansMember, NobodyFromNowhere, Member
<1>2. TablesGrow
    BY InvitesAssumption DEF Invariant, TypeOK, TablesGrow, tables, Member
<1> QED  BY <1>1, <1>2

\* A step of one sign-in keeps the invariant if it keeps the tables and the
\* sign-in knows what it holds.
LEMMA SignInMoves ==
    ASSUME Invariant, TablesHold', TablesGrow,
           NEW s \in SignIns, NEW held \in SignInState, SignInHolds(s, held), SignInKnows(held)'
    PROVE  Invariant'
<1>1. TypeOK'
    BY DEF Invariant, TypeOK, TablesHold, SignInHolds
<1>2. ASSUME NEW t \in SignIns PROVE SignInKnows(signin[t])'
    <2>1. CASE t = s
        <3>1. signin'[t] = held
            BY <2>1 DEF SignInHolds, Invariant, TypeOK
        <3> QED  BY <3>1 DEF SignInKnows, Member
    <2>2. CASE t # s
        <3>1. signin'[t] = signin[t] /\ signin[t] \in SignInState /\ SignInKnows(signin[t])
            BY <2>2 DEF SignInHolds, Invariant, TypeOK
        <3>2. TypeOK
            BY DEF Invariant
        <3> HIDE DEF SignInKnows
        <3>3. PICK h \in SignInState : h = signin[t]
            BY <3>1
        <3>4. SignInKnows(h)'
            BY <3>1, <3>2, <3>3, SignInStillKnows
        <3> QED  BY <3>1, <3>3, <3>4 DEF SignInKnows, Member
    <2> QED  BY <2>1, <2>2
<1>3. ASSUME NEW d \in Desks PROVE DeskKnows(desk[d])'
    <2>1. desk' = desk /\ desk[d] \in DeskState /\ DeskKnows(desk[d]) /\ TypeOK
        BY DEF SignInHolds, Invariant, TypeOK
    <2>2. PICK h \in DeskState : h = desk[d]
        BY <2>1
    <2>3. DeskKnows(h)'
        BY <2>1, <2>2, DeskStillKnows
    <2> QED  BY <2>1, <2>2, <2>3 DEF DeskKnows, Member
<1> QED  BY <1>1, <1>2, <1>3 DEF Invariant, TablesHold

\* The same for a step of one desk.
LEMMA DeskMoves ==
    ASSUME Invariant, TablesHold', TablesGrow,
           NEW d \in Desks, NEW held \in DeskState, DeskHolds(d, held), DeskKnows(held)'
    PROVE  Invariant'
<1>1. TypeOK'
    BY DEF Invariant, TypeOK, TablesHold, DeskHolds
<1>2. ASSUME NEW c \in Desks PROVE DeskKnows(desk[c])'
    <2>1. CASE c = d
        <3>1. desk'[c] = held
            BY <2>1 DEF DeskHolds, Invariant, TypeOK
        <3> QED  BY <3>1 DEF DeskKnows, Member
    <2>2. CASE c # d
        <3>1. desk'[c] = desk[c] /\ desk[c] \in DeskState /\ DeskKnows(desk[c]) /\ TypeOK
            BY <2>2 DEF DeskHolds, Invariant, TypeOK
        <3>2. PICK h \in DeskState : h = desk[c]
            BY <3>1
        <3>3. DeskKnows(h)'
            BY <3>1, <3>2, DeskStillKnows
        <3> QED  BY <3>1, <3>2, <3>3 DEF DeskKnows, Member
    <2> QED  BY <2>1, <2>2
<1>3. ASSUME NEW s \in SignIns PROVE SignInKnows(signin[s])'
    <2>1. signin' = signin /\ signin[s] \in SignInState /\ SignInKnows(signin[s]) /\ TypeOK
        BY DEF DeskHolds, Invariant, TypeOK
    <2>2. PICK h \in SignInState : h = signin[s]
        BY <2>1
    <2>3. SignInKnows(h)'
        BY <2>1, <2>2, SignInStillKnows
    <2> QED  BY <2>1, <2>2, <2>3 DEF SignInKnows, Member
<1> QED  BY <1>1, <1>2, <1>3 DEF Invariant, TablesHold

\* The same for a step of neither.
LEMMA NobodyMoves ==
    ASSUME Invariant, TablesHold', TablesGrow, UNCHANGED <<signin, desk>>
    PROVE  Invariant'
<1>1. TypeOK'
    BY DEF Invariant, TypeOK, TablesHold
<1>2. ASSUME NEW d \in Desks PROVE DeskKnows(desk[d])'
    <2>1. desk' = desk /\ desk[d] \in DeskState /\ DeskKnows(desk[d]) /\ TypeOK
        BY DEF Invariant, TypeOK
    <2>2. PICK h \in DeskState : h = desk[d]
        BY <2>1
    <2>3. DeskKnows(h)'
        BY <2>1, <2>2, DeskStillKnows
    <2> QED  BY <2>1, <2>2, <2>3 DEF DeskKnows, Member
<1>3. ASSUME NEW s \in SignIns PROVE SignInKnows(signin[s])'
    <2>1. signin' = signin /\ signin[s] \in SignInState /\ SignInKnows(signin[s]) /\ TypeOK
        BY DEF Invariant, TypeOK
    <2>2. PICK h \in SignInState : h = signin[s]
        BY <2>1
    <2>3. SignInKnows(h)'
        BY <2>1, <2>2, SignInStillKnows
    <2> QED  BY <2>1, <2>2, <2>3 DEF SignInKnows, Member
<1> QED  BY <1>1, <1>2, <1>3 DEF Invariant, TablesHold

-----------------------------------------------------------------------------
(***************************************************************************)
(* What each kind of write does to the tables                              *)
(***************************************************************************)

\* A user row is created, or gets a password.
LEMMA UserWritten ==
    ASSUME Invariant, UNCHANGED <<founder, membership, invite, minted>>,
           NEW e \in Emails, NEW row \in UserRow, row # "none", user' = [user EXCEPT ![e] = row]
    PROVE  TablesHold' /\ TablesGrow /\ user'[e] # "none"
<1>1. TypeOK /\ AcceptedMeansMember /\ NobodyFromNowhere
    BY DEF Invariant
<1>2. user' \in [Emails -> UserRow] /\ \A a \in Emails : user[a] # "none" => user'[a] # "none"
    BY <1>1 DEF TypeOK
<1>3. user'[e] # "none"
    BY <1>1 DEF TypeOK
<1>4. TablesHold'
    BY <1>1, <1>2 DEF TablesHold, TypeOK, AcceptedMeansMember, NobodyFromNowhere, Member
<1>5. TablesGrow
    BY <1>1, <1>2, InvitesAssumption DEF TablesGrow, TypeOK, Member
<1> QED  BY <1>3, <1>4, <1>5

\* A user becomes a member of a venture that is there, or its role changes.
LEMMA MembershipWritten ==
    ASSUME Invariant, UNCHANGED <<user, founder, invite, minted>>,
           NEW e \in Emails, NEW v \in Slugs, NEW role \in Roles,
           user[e] # "none", founder[v] # None,
           membership' = [membership EXCEPT ![e][v] = role]
    PROVE  TablesHold' /\ TablesGrow /\ Member(e, v)'
<1>1. TypeOK /\ AcceptedMeansMember /\ NobodyFromNowhere /\ role # None
    BY InvitesAssumption DEF Invariant
<1>2. membership' \in [Emails -> [Slugs -> Roles \cup {"owner", None}]]
    BY <1>1 DEF TypeOK
<1>3. /\ Member(e, v)'
      /\ \A a \in Emails, w \in Slugs : Member(a, w)' <=> Member(a, w) \/ (a = e /\ w = v)
    BY <1>1 DEF TypeOK, Member
<1>4. AcceptedMeansMember' /\ NobodyFromNowhere'
    BY <1>1, <1>3 DEF AcceptedMeansMember, NobodyFromNowhere, TypeOK, Invite
<1>5. TablesHold'
    BY <1>1, <1>2, <1>4 DEF TablesHold, TypeOK
<1>6. TablesGrow
    BY <1>1, <1>3, InvitesAssumption DEF TablesGrow, TypeOK
<1> QED  BY <1>3, <1>5, <1>6

\* Rows of the invite table are amended or removed, never moved.
LEMMA InvitesAmended ==
    ASSUME Invariant, UNCHANGED <<user, founder, membership, minted>>,
           invite' \subseteq Invite,
           \A j \in invite' : \E i \in invite :
              i.id = j.id /\ i.slug = j.slug /\ i.email = j.email,
           \A j, k \in invite' : j.id = k.id => j = k,
           \A j \in invite' :
              (j.accepted => Member(j.email, j.slug)) /\ Member(j.invited_by, j.slug)
    PROVE  TablesHold' /\ TablesGrow
<1>1. TypeOK /\ AcceptedMeansMember /\ NobodyFromNowhere
    BY DEF Invariant
<1>2. \A j \in invite' : j.id <= minted' /\ founder'[j.slug] # None
    BY <1>1 DEF TypeOK, NobodyFromNowhere
<1>3. \A j, k \in invite' : j.id = k.id \/ (j.slug = k.slug /\ j.email = k.email) => j = k
    <2> SUFFICES ASSUME NEW j \in invite', NEW k \in invite', j.slug = k.slug, j.email = k.email
                 PROVE  j = k
        OBVIOUS
    <2>1. PICK i \in invite : i.id = j.id /\ i.slug = j.slug /\ i.email = j.email
        OBVIOUS
    <2>2. PICK l \in invite : l.id = k.id /\ l.slug = k.slug /\ l.email = k.email
        OBVIOUS
    <2>3. i = l
        BY <1>1, <2>1, <2>2 DEF TypeOK
    <2> QED  BY <2>1, <2>2, <2>3
<1>4. AcceptedMeansMember' /\ NobodyFromNowhere'
    BY <1>1, <1>2 DEF AcceptedMeansMember, NobodyFromNowhere, Member
<1>5. TablesHold'
    BY <1>1, <1>2, <1>3, <1>4 DEF TablesHold, TypeOK
<1>6. TablesGrow
    BY <1>1, InvitesAssumption DEF TablesGrow, TypeOK, Member
<1> QED  BY <1>5, <1>6

-----------------------------------------------------------------------------
(***************************************************************************)
(* The steps                                                               *)
(***************************************************************************)

\* A handler that has ended knows nothing and needs nothing.
LEMMA EndedKnows ==
    /\ Out \in SignInState /\ SignInKnows(Out)'
    /\ Closed \in DeskState /\ DeskKnows(Closed)'
BY DEF Out, Closed, SignInState, DeskState, SignInKnows, DeskKnows

\* Taking the next invite, or ending in a session, needs no more knowledge
\* than the loop has.
LEMMA NextInviteKnows ==
    ASSUME NEW h \in SignInState, SignInKnows([h EXCEPT !.pc = "member"])'
    PROVE  NextInvite(h) \in SignInState /\ SignInKnows(NextInvite(h))'
BY DEF NextInvite, SignInState, SignInKnows, Member

\* What Invariant says of one handler.
LEMMA SignInOfInvariant ==
    ASSUME Invariant, NEW s \in SignIns
    PROVE  signin[s] \in SignInState /\ SignInKnows(signin[s])
BY DEF Invariant, TypeOK

\* What it says of one desk.
LEMMA DeskOfInvariant ==
    ASSUME Invariant, NEW d \in Desks
    PROVE  desk[d] \in DeskState /\ DeskKnows(desk[d])
BY DEF Invariant, TypeOK

\* A venture is founded by a user who becomes its owner, in one transaction.
LEMMA FoundVentureStep ==
    ASSUME Invariant, NEW e \in Emails, NEW v \in Slugs, FoundVenture(e, v)
    PROVE  Invariant'
<1> USE DEF FoundVenture
<1>1. TypeOK /\ AcceptedMeansMember /\ NobodyFromNowhere
    BY DEF Invariant
<1>2. /\ founder' \in [Slugs -> Emails \cup {None}]
      /\ \A w \in Slugs : founder'[w] # None <=> founder[w] # None \/ w = v
    BY <1>1, InvitesAssumption DEF TypeOK
<1>3. /\ membership' \in [Emails -> [Slugs -> Roles \cup {"owner", None}]]
      /\ \A a \in Emails, w \in Slugs : Member(a, w)' <=> Member(a, w) \/ (a = e /\ w = v)
    BY <1>1, InvitesAssumption DEF TypeOK, Member
<1>4. AcceptedMeansMember' /\ NobodyFromNowhere'
    BY <1>1, <1>2, <1>3 DEF AcceptedMeansMember, NobodyFromNowhere, TypeOK, Invite
<1>5. TablesHold'
    BY <1>1, <1>2, <1>3, <1>4 DEF TablesHold, TypeOK
<1>6. TablesGrow
    BY <1>1, <1>2, <1>3, InvitesAssumption DEF TablesGrow, TypeOK
<1> QED  BY <1>5, <1>6, NobodyMoves

\* A Google sign-in keeps or creates its user row.
LEMMA GoogleSignInStep ==
    ASSUME Invariant, NEW s \in SignIns, NEW e \in Emails, GoogleSignIn(s, e)
    PROVE  Invariant'
<1> DEFINE row == IF user[e] = "none" THEN "google" ELSE user[e]
           held == [Out EXCEPT !.pc = "list", !.who = e]
<1>1. row \in UserRow /\ row # "none" /\ user' = [user EXCEPT ![e] = row]
    BY DEF Invariant, TypeOK, UserRow, GoogleSignIn
<1>2. TablesHold' /\ TablesGrow /\ user'[e] # "none"
    <2> HIDE DEF row
    <2> QED  BY <1>1, UserWritten DEF GoogleSignIn
<1>3. held \in SignInState /\ SignInKnows(held)' /\ SignInHolds(s, held)
    BY <1>2 DEF SignInState, SignInKnows, Out, GoogleSignIn, Arrives
<1> QED
    <2> HIDE DEF held
    <2> QED  BY <1>2, <1>3, SignInMoves

\* A password sign-in finds a user row.
LEMMA PasswordSignInStep ==
    ASSUME Invariant, NEW s \in SignIns, NEW e \in Normal, PasswordSignIn(s, e)
    PROVE  Invariant'
<1> DEFINE held == [Out EXCEPT !.pc = "list", !.who = e]
<1>1. TablesHold' /\ TablesGrow /\ user' = user
    BY TablesRest DEF PasswordSignIn, tables
<1>2. held \in SignInState /\ SignInKnows(held)' /\ SignInHolds(s, held)
    BY <1>1, InvitesAssumption DEF SignInState, SignInKnows, Out, PasswordSignIn, Arrives
<1> QED
    <2> HIDE DEF held
    <2> QED  BY <1>1, <1>2, SignInMoves

\* A registration has only looked.
LEMMA RegisterStep ==
    ASSUME Invariant, NEW s \in SignIns, NEW e \in Normal, Register(s, e)
    PROVE  Invariant'
<1>1. PICK pc \in {"create", "attach"} : Arrives(s, e, pc)
    BY DEF Register
<1> DEFINE held == [Out EXCEPT !.pc = pc, !.who = e]
<1>2. TablesHold' /\ TablesGrow
    BY TablesRest DEF Register
<1>3. held \in SignInState /\ SignInKnows(held)' /\ SignInHolds(s, held)
    BY <1>1, InvitesAssumption DEF SignInState, SignInKnows, Out, Arrives
<1> QED
    <2> HIDE DEF held
    <2> QED  BY <1>2, <1>3, SignInMoves

\* A registration creates its row, or finds another in its place.
LEMMA CreateUserStep == ASSUME Invariant, NEW s \in SignIns, CreateUser(s) PROVE Invariant'
<1>1. PICK h \in SignInState : h = signin[s] /\ SignInKnows(h)
    BY SignInOfInvariant
<1>2. h.pc = "create" /\ h.who \in Emails
    BY <1>1 DEF CreateUser, SignInKnows
<1>3. CASE user[h.who] = "none"
    <2> DEFINE held == [h EXCEPT !.pc = "list"]
    <2>1. TablesHold' /\ TablesGrow /\ user'[h.who] # "none"
        BY <1>1, <1>2, <1>3, UserWritten DEF CreateUser, UserRow
    <2>2. SignInKnows(h)'
        BY <1>1, <2>1, SignInStillKnows DEF Invariant
    <2>3. held \in SignInState /\ SignInKnows(held)' /\ SignInHolds(s, held)
        BY <1>1, <1>2, <1>3, <2>1, <2>2 DEF SignInState, SignInKnows, CreateUser, Member
    <2> QED
        <3> HIDE DEF held
        <3> QED  BY <2>1, <2>3, SignInMoves
<1>4. CASE user[h.who] # "none"
    <2>1. SignInHolds(s, Out) /\ TablesHold' /\ TablesGrow
        BY <1>1, <1>4, TablesRest DEF CreateUser, tables
    <2> QED  BY <2>1, EndedKnows, SignInMoves
<1> QED  BY <1>3, <1>4

\* A registration gives a row its password.
LEMMA AttachPasswordStep == ASSUME Invariant, NEW s \in SignIns, AttachPassword(s) PROVE Invariant'
<1>1. PICK h \in SignInState : h = signin[s] /\ SignInKnows(h)
    BY SignInOfInvariant
<1>2. h.pc = "attach" /\ h.who \in Emails
    BY <1>1 DEF AttachPassword, SignInKnows
<1> DEFINE held == [h EXCEPT !.pc = "list"]
<1>3. TablesHold' /\ TablesGrow /\ user'[h.who] # "none"
    BY <1>1, <1>2, UserWritten DEF AttachPassword, UserRow
<1>4. SignInKnows(h)'
    BY <1>1, <1>3, SignInStillKnows DEF Invariant
<1>5. held \in SignInState /\ SignInKnows(held)' /\ SignInHolds(s, held)
    BY <1>1, <1>2, <1>3, <1>4 DEF SignInState, SignInKnows, AttachPassword, Member
<1> QED
    <2> HIDE DEF held
    <2> QED  BY <1>3, <1>5, SignInMoves

\* What was listed is addressed to the user and leads to ventures that are there.
LEMMA ListInvitesStep == ASSUME Invariant, NEW s \in SignIns, ListInvites(s) PROVE Invariant'
<1>1. PICK h \in SignInState : h = signin[s] /\ SignInKnows(h)
    BY SignInOfInvariant
<1>2. h.pc = "list" /\ h.who \in Emails /\ user[h.who] # "none" /\ UNCHANGED tables
    BY <1>1 DEF ListInvites, SignInKnows
<1>3. TablesHold' /\ TablesGrow
    BY <1>2, TablesRest
<1>4. PICK mine : mine = {AsListed(i) : i \in InvitesOf(h.who)}
    OBVIOUS
<1> DEFINE listing == [h EXCEPT !.listed = mine]
           held == NextInvite(listing)
<1>5. SignInHolds(s, held)
    BY <1>1, <1>4 DEF ListInvites
<1>6. listing \in SignInState /\ SignInKnows([listing EXCEPT !.pc = "member"])'
    <2>1. InvitesOf(h.who) \subseteq Invite /\ mine \subseteq Pending
        BY <1>4 DEF Invariant, TypeOK, InvitesOf, AsListed, Invite, Pending
    <2>2. listing \in SignInState /\ listing.handled = {} /\ listing.listed = mine /\ listing.who = h.who
        BY <1>1, <1>2, <2>1 DEF SignInState, SignInKnows
    <2>3. ASSUME NEW p \in mine
          PROVE  /\ founder'[p.slug] # None /\ p.id <= minted'
                 /\ \A i \in invite' : i.id = p.id => i.slug = p.slug /\ i.email = h.who
        <3>1. PICK o \in invite : o.email = h.who /\ p.id = o.id /\ p.slug = o.slug
            BY <1>4 DEF InvitesOf, AsListed
        <3> QED  BY <1>2, <3>1 DEF Invariant, TypeOK, NobodyFromNowhere, tables
    <2>4. user'[h.who] # "none"
        BY <1>2 DEF tables
    <2> DEFINE turning == [listing EXCEPT !.pc = "member"]
    <2>5. /\ turning.pc = "member" /\ turning.who = h.who
          /\ turning.handled = {} /\ turning.listed = mine
        BY <2>2 DEF SignInState
    <2> QED
        <3> HIDE DEF turning
        <3> SUFFICES listing \in SignInState /\ SignInKnows(turning)'
            BY DEF turning
        <3> QED  BY <1>2, <2>2, <2>3, <2>4, <2>5 DEF SignInKnows
<1>7. held \in SignInState /\ SignInKnows(held)'
    <2> HIDE DEF listing
    <2> QED  BY <1>6, NextInviteKnows
<1> QED
    <2> HIDE DEF held
    <2> QED  BY <1>3, <1>5, <1>7, SignInMoves

\* A turn of the loop leaves a membership behind.
LEMMA WriteMembershipStep == ASSUME Invariant, NEW s \in SignIns, WriteMembership(s) PROVE Invariant'
<1>1. PICK h \in SignInState : h = signin[s] /\ SignInKnows(h)
    BY SignInOfInvariant
<1>2. h.pc = "member" /\ h.who \in Emails /\ user[h.who] # "none"
    BY <1>1 DEF WriteMembership, SignInKnows
<1> DEFINE taken(p) == [h EXCEPT !.handled = @ \cup {p}, !.inv = p]
           held(p) == IF p.accepted THEN NextInvite(taken(p)) ELSE [taken(p) EXCEPT !.pc = "mark"]
<1>3. PICK p \in h.listed : /\ membership' = [membership EXCEPT ![h.who][p.slug] = p.role]
                            /\ SignInHolds(s, held(p))
    BY <1>1 DEF WriteMembership
<1>4. p \in Pending /\ founder[p.slug] # None
    BY <1>1 DEF SignInState, SignInKnows
<1>5. TablesHold' /\ TablesGrow /\ Member(h.who, p.slug)'
    BY <1>2, <1>3, <1>4, MembershipWritten DEF WriteMembership, Pending
<1>6. SignInKnows(h)'
    BY <1>1, <1>5, SignInStillKnows DEF Invariant
<1>7. taken(p) \in SignInState /\ SignInKnows(taken(p))'
    BY <1>1, <1>2, <1>4, <1>5, <1>6 DEF SignInState, SignInKnows, Member
<1>8. held(p) \in SignInState /\ SignInKnows(held(p))'
    <2>1. CASE p.accepted
        <3>1. SignInKnows([taken(p) EXCEPT !.pc = "member"])'
            BY <1>2, <1>7 DEF SignInState, SignInKnows, Member
        <3> HIDE DEF taken
        <3> QED  BY <1>7, <2>1, <3>1, NextInviteKnows
    <2>2. CASE ~p.accepted
        <3>1. taken(p).inv = p /\ p \in taken(p).handled /\ taken(p).pc = "member"
            BY <1>2 DEF SignInState
        <3>2. held(p) = [taken(p) EXCEPT !.pc = "mark"]
            BY <2>2
        <3> HIDE DEF taken, held
        <3>3. held(p) \in SignInState
            BY <1>7, <3>2 DEF SignInState
        <3>4. SignInKnows([taken(p) EXCEPT !.pc = "mark"])'
            BY <1>7, <3>1 DEF SignInState, SignInKnows, Member
        <3> QED  BY <3>2, <3>3, <3>4 DEF SignInKnows, Member
    <2> QED  BY <2>1, <2>2
<1> QED
    <2> HIDE DEF held
    <2> QED  BY <1>3, <1>5, <1>8, SignInMoves

\* The mark falls on the row that was listed, whose membership is written.
LEMMA MarkAcceptedStep == ASSUME Invariant, NEW s \in SignIns, MarkAccepted(s) PROVE Invariant'
<1>1. PICK h \in SignInState : h = signin[s] /\ SignInKnows(h)
    BY SignInOfInvariant
<1>2. h.pc = "mark" /\ h.inv \in h.listed /\ Member(h.who, h.inv.slug)
    BY <1>1 DEF MarkAccepted, SignInKnows
<1> DEFINE marked(i) == IF i.id = h.inv.id THEN [i EXCEPT !.accepted = TRUE] ELSE i
<1>3. invite' = {marked(i) : i \in invite}
    BY <1>1 DEF MarkAccepted
<1>4. TypeOK /\ AcceptedMeansMember /\ NobodyFromNowhere
    BY DEF Invariant
<1>5. ASSUME NEW i \in invite
      PROVE  /\ marked(i) \in Invite
             /\ marked(i).id = i.id /\ marked(i).slug = i.slug /\ marked(i).email = i.email
             /\ marked(i).invited_by = i.invited_by
             /\ marked(i).accepted => i.accepted \/ i.id = h.inv.id
    BY <1>4 DEF TypeOK, Invite
<1>6. ASSUME NEW i \in invite
      PROVE  /\ marked(i).accepted => Member(marked(i).email, marked(i).slug)
             /\ Member(marked(i).invited_by, marked(i).slug)
    <2>1. i.id = h.inv.id => i.slug = h.inv.slug /\ i.email = h.who
        BY <1>1, <1>2 DEF SignInKnows
    <2> HIDE DEF marked
    <2> QED  BY <1>2, <1>4, <1>5, <2>1 DEF AcceptedMeansMember, NobodyFromNowhere
<1>7. TablesHold' /\ TablesGrow
    <2> HIDE DEF marked
    <2>1. \A j, k \in invite' : j.id = k.id => j = k
        BY <1>3, <1>4, <1>5 DEF TypeOK
    <2>2. invite' \subseteq Invite /\ \A j \in invite' : \E i \in invite :
              i.id = j.id /\ i.slug = j.slug /\ i.email = j.email
        BY <1>3, <1>5
    <2>3. \A j \in invite' :
              (j.accepted => Member(j.email, j.slug)) /\ Member(j.invited_by, j.slug)
        BY <1>3, <1>6
    <2> QED  BY <2>1, <2>2, <2>3, InvitesAmended DEF MarkAccepted
<1>8. NextInvite(h) \in SignInState /\ SignInKnows(NextInvite(h))'
    <2>1. SignInKnows(h)'
        BY <1>1, <1>7, SignInStillKnows DEF Invariant
    <2>2. SignInKnows([h EXCEPT !.pc = "member"])'
        BY <1>1, <1>2, <2>1 DEF SignInState, SignInKnows, Member
    <2> QED  BY <2>2, NextInviteKnows
<1>9. SignInHolds(s, NextInvite(h))
    BY <1>1 DEF MarkAccepted
<1> QED  BY <1>7, <1>8, <1>9, SignInMoves

\* A sign-in may fail anywhere: nothing written is half done.
LEMMA SignInFailsStep == ASSUME Invariant, NEW s \in SignIns, SignInFails(s) PROVE Invariant'
BY TablesRest, EndedKnows, SignInMoves DEF SignInFails

\* Who passes require_owner is a member of the venture asked about.
LEMMA OwnerAsksStep ==
    ASSUME Invariant, NEW d \in Desks, NEW e \in Emails, NEW v \in Slugs,
           AsksToInvite(d, e, v) \/ AsksToRemove(d, e, v)
    PROVE  Invariant'
<1>1. PICK op \in {"lookup", "revoke", "delete"}, email \in Emails \cup {None},
           role \in Roles \cup {None}, id \in {0} \cup Ids :
         /\ OwnerAsks(d, e, v, op, email, role, id)
         /\ op = "lookup" => email \in Emails /\ role \in Roles
    <2>1. CASE AsksToInvite(d, e, v)
        BY <2>1, InvitesAssumption DEF AsksToInvite
    <2>2. CASE AsksToRemove(d, e, v)
        <3>1. PICK op \in {"revoke", "delete"}, i \in invite :
                 OwnerAsks(d, e, v, op, None, None, i.id)
            BY <2>2 DEF AsksToRemove
        <3>2. i.id \in Ids
            BY DEF Invariant, TypeOK, Invite
        <3> QED  BY <3>1, <3>2
    <2> QED  BY <2>1, <2>2
<1> DEFINE held == [pc |-> op, who |-> e, slug |-> v, email |-> email, role |-> role, id |-> id]
<1>2. TablesHold' /\ TablesGrow
    BY <1>1, TablesRest DEF OwnerAsks
<1>3. Member(e, v)'
    BY <1>1, <1>2, InvitesAssumption DEF OwnerAsks, Member, TablesGrow
<1>4. held \in DeskState /\ DeskKnows(held)' /\ DeskHolds(d, held)
    BY <1>1, <1>3 DEF DeskState, DeskKnows, OwnerAsks, Member
<1> QED
    <2> HIDE DEF held
    <2> QED  BY <1>2, <1>4, DeskMoves

\* What a desk looks up belongs to its venture.
LEMMA LookUpStep == ASSUME Invariant, NEW d \in Desks, LookUp(d) PROVE Invariant'
<1>1. PICK h \in DeskState : h = desk[d] /\ DeskKnows(h)
    BY DeskOfInvariant
<1>2. h.pc = "lookup" /\ UNCHANGED tables
    BY <1>1 DEF LookUp
<1>3. TablesHold' /\ TablesGrow /\ DeskKnows(h)'
    BY <1>1, <1>2, TablesRest, DeskStillKnows DEF Invariant
<1>4. CASE Addressed(d) = {}
    <2> DEFINE held == [h EXCEPT !.pc = "create"]
    <2>1. held \in DeskState /\ DeskKnows(held)' /\ DeskHolds(d, held)
        BY <1>1, <1>2, <1>3, <1>4 DEF DeskState, DeskKnows, LookUp, Member
    <2> QED
        <3> HIDE DEF held
        <3> QED  BY <1>3, <2>1, DeskMoves
<1>5. CASE Addressed(d) # {}
    <2>1. PICK i \in invite : /\ i.slug = h.slug
                              /\ DeskHolds(d, IF i.revoked
                                              THEN [h EXCEPT !.pc = "reactivate", !.id = i.id]
                                              ELSE Closed)
        BY <1>1, <1>5 DEF LookUp, Addressed
    <2>2. CASE i.revoked
        <3> DEFINE held == [h EXCEPT !.pc = "reactivate", !.id = i.id]
        <3>1. TypeOK /\ i.id \in Ids /\ i.id <= minted'
            BY <1>2 DEF Invariant, TypeOK, Invite, tables
        <3>2. \A j \in invite' : j.id = i.id => j.slug = h.slug
            BY <1>2, <2>1, <3>1 DEF TypeOK, tables
        <3>3. held \in DeskState /\ DeskHolds(d, held)
            BY <2>1, <2>2, <3>1 DEF DeskState
        <3>4. DeskKnows(held)'
            BY <1>2, <1>3, <3>1, <3>2 DEF DeskState, DeskKnows, Member
        <3> QED
            <4> HIDE DEF held
            <4> QED  BY <1>3, <3>3, <3>4, DeskMoves
    <2>3. CASE ~i.revoked
        BY <1>3, <2>1, <2>3, EndedKnows, DeskMoves
    <2> QED  BY <2>2, <2>3
<1> QED  BY <1>4, <1>5

\* A new invite has a new id and an address not invited before.
LEMMA CreateInviteStep == ASSUME Invariant, NEW d \in Desks, CreateInvite(d) PROVE Invariant'
<1>1. PICK h \in DeskState : h = desk[d] /\ DeskKnows(h)
    BY DeskOfInvariant
<1>2. /\ h.pc = "create" /\ h.who \in Emails /\ h.slug \in Slugs /\ Member(h.who, h.slug)
      /\ h.email \in Emails /\ h.role \in Roles
    BY <1>1 DEF CreateInvite, DeskKnows
<1>3. PICK n : n = [id |-> minted + 1, slug |-> h.slug, email |-> h.email, role |-> h.role,
                   invited_by |-> h.who, accepted |-> FALSE, revoked |-> FALSE]
    OBVIOUS
<1>4. /\ invite' = invite \cup {n} /\ minted' = minted + 1 /\ minted < MaxInvites
      /\ UNCHANGED <<user, founder, membership>> /\ DeskHolds(d, Closed)
      /\ \A i \in invite : i.slug # h.slug \/ i.email # h.email
    BY <1>1, <1>3 DEF CreateInvite, Addressed
<1>5. TypeOK /\ AcceptedMeansMember /\ NobodyFromNowhere /\ minted \in Int /\ minted >= 0
    BY InvitesAssumption DEF Invariant, TypeOK
<1>6. n \in Invite /\ minted' \in 0..MaxInvites
    BY <1>2, <1>3, <1>4, <1>5, InvitesAssumption DEF Invite, Ids
<1>7. \A i \in invite' : i.id <= minted' /\ (i # n => i \in invite /\ i.id # n.id)
    BY <1>3, <1>4, <1>5 DEF TypeOK, Invite, Ids
<1>8. \A i, j \in invite' : i.id = j.id \/ (i.slug = j.slug /\ i.email = j.email) => i = j
    <2>1. \A i \in invite' : i # n => i \in invite /\ i.id # n.id /\ (i.slug # n.slug \/ i.email # n.email)
        BY <1>3, <1>4, <1>7
    <2>2. \A i, j \in invite : i.id = j.id \/ (i.slug = j.slug /\ i.email = j.email) => i = j
        BY <1>5 DEF TypeOK
    <2> QED  BY <2>1, <2>2
<1>9. AcceptedMeansMember' /\ NobodyFromNowhere'
    BY <1>2, <1>3, <1>4, <1>5 DEF AcceptedMeansMember, NobodyFromNowhere, Member
<1>10. TablesHold'
    BY <1>4, <1>5, <1>6, <1>7, <1>8, <1>9 DEF TablesHold, TypeOK
<1>11. TablesGrow
    BY <1>3, <1>4, <1>5, <1>6 DEF TablesGrow, Member
<1> QED  BY <1>4, <1>10, <1>11, EndedKnows, DeskMoves

\* A reactivated row stays the invite it was.
LEMMA ReactivateStep == ASSUME Invariant, NEW d \in Desks, Reactivate(d) PROVE Invariant'
<1>1. PICK h \in DeskState : h = desk[d] /\ DeskKnows(h)
    BY DeskOfInvariant
<1>2. /\ h.pc = "reactivate" /\ h.who \in Emails /\ Member(h.who, h.slug) /\ h.role \in Roles
      /\ \A i \in invite : i.id = h.id => i.slug = h.slug
    BY <1>1 DEF Reactivate, DeskKnows
<1> DEFINE back(i) == IF i.id = h.id
                      THEN [i EXCEPT !.revoked = FALSE, !.role = h.role, !.invited_by = h.who]
                      ELSE i
<1>3. invite' = {back(i) : i \in invite} /\ DeskHolds(d, Closed)
    BY <1>1 DEF Reactivate
<1>4. TypeOK /\ AcceptedMeansMember /\ NobodyFromNowhere
    BY DEF Invariant
<1>5. ASSUME NEW i \in invite
      PROVE  /\ back(i) \in Invite
             /\ back(i).id = i.id /\ back(i).slug = i.slug /\ back(i).email = i.email
             /\ back(i).accepted = i.accepted
             /\ back(i).invited_by = IF i.id = h.id THEN h.who ELSE i.invited_by
    BY <1>2, <1>4 DEF TypeOK, Invite
<1>6. TablesHold' /\ TablesGrow
    <2> HIDE DEF back
    <2>1. \A j, k \in invite' : j.id = k.id => j = k
        BY <1>3, <1>4, <1>5 DEF TypeOK
    <2>2. invite' \subseteq Invite /\ \A j \in invite' : \E i \in invite :
              i.id = j.id /\ i.slug = j.slug /\ i.email = j.email
        BY <1>3, <1>5
    <2>3. \A j \in invite' :
              (j.accepted => Member(j.email, j.slug)) /\ Member(j.invited_by, j.slug)
        BY <1>2, <1>3, <1>4, <1>5 DEF AcceptedMeansMember, NobodyFromNowhere
    <2> QED  BY <2>1, <2>2, <2>3, InvitesAmended DEF Reactivate
<1> QED  BY <1>3, <1>6, EndedKnows, DeskMoves

\* A revoked row stays the invite it was.
LEMMA RevokeInviteStep == ASSUME Invariant, NEW d \in Desks, RevokeInvite(d) PROVE Invariant'
<1>1. PICK h \in DeskState : h = desk[d]
    BY DeskOfInvariant
<1> DEFINE gone(i) == IF i.id = h.id /\ i.slug = h.slug THEN [i EXCEPT !.revoked = TRUE] ELSE i
<1>2. invite' = {gone(i) : i \in invite} /\ DeskHolds(d, Closed)
    BY <1>1 DEF RevokeInvite
<1>3. TypeOK /\ AcceptedMeansMember /\ NobodyFromNowhere
    BY DEF Invariant
<1>4. ASSUME NEW i \in invite
      PROVE  /\ gone(i) \in Invite
             /\ gone(i).id = i.id /\ gone(i).slug = i.slug /\ gone(i).email = i.email
             /\ gone(i).accepted = i.accepted /\ gone(i).invited_by = i.invited_by
    BY <1>3 DEF TypeOK, Invite
<1>5. TablesHold' /\ TablesGrow
    <2> HIDE DEF gone
    <2>1. \A j, k \in invite' : j.id = k.id => j = k
        BY <1>2, <1>3, <1>4 DEF TypeOK
    <2>2. invite' \subseteq Invite /\ \A j \in invite' : \E i \in invite :
              i.id = j.id /\ i.slug = j.slug /\ i.email = j.email
        BY <1>2, <1>4
    <2>3. \A j \in invite' :
              (j.accepted => Member(j.email, j.slug)) /\ Member(j.invited_by, j.slug)
        BY <1>2, <1>3, <1>4 DEF AcceptedMeansMember, NobodyFromNowhere
    <2> QED  BY <2>1, <2>2, <2>3, InvitesAmended DEF RevokeInvite
<1> QED  BY <1>2, <1>5, EndedKnows, DeskMoves

\* A deleted row takes nothing with it.
LEMMA DeleteInviteStep == ASSUME Invariant, NEW d \in Desks, DeleteInvite(d) PROVE Invariant'
<1>1. invite' \subseteq invite /\ DeskHolds(d, Closed)
    BY DEF DeleteInvite
<1>2. TypeOK /\ AcceptedMeansMember /\ NobodyFromNowhere
    BY DEF Invariant
<1>3. /\ \A j, k \in invite' : j.id = k.id => j = k
      /\ invite' \subseteq Invite
      /\ \A j \in invite' : (j.accepted => Member(j.email, j.slug)) /\ Member(j.invited_by, j.slug)
    BY <1>1, <1>2 DEF TypeOK, AcceptedMeansMember, NobodyFromNowhere
<1>4. \A j \in invite' : \E i \in invite : i.id = j.id /\ i.slug = j.slug /\ i.email = j.email
    BY <1>1
<1>5. TablesHold' /\ TablesGrow
    BY <1>3, <1>4, InvitesAmended DEF DeleteInvite
<1> QED  BY <1>1, <1>5, EndedKnows, DeskMoves

\* A desk may fail anywhere.
LEMMA DeskFailsStep == ASSUME Invariant, NEW d \in Desks, DeskFails(d) PROVE Invariant'
BY TablesRest, EndedKnows, DeskMoves DEF DeskFails

-----------------------------------------------------------------------------
(***************************************************************************)
(* The theorems                                                            *)
(***************************************************************************)

\* Before anybody signs in there is nothing to know.
LEMMA InvariantInitially == Init => Invariant
<1> SUFFICES ASSUME Init PROVE Invariant
    OBVIOUS
<1>1. TypeOK
    BY EndedKnows, InvitesAssumption DEF Init, TypeOK, UserRow, Invite
<1>2. AcceptedMeansMember /\ NobodyFromNowhere
    BY DEF Init, AcceptedMeansMember, NobodyFromNowhere, Member
<1>3. ASSUME NEW s \in SignIns PROVE SignInKnows(signin[s])
    BY DEF Init, Out, SignInKnows
<1>4. ASSUME NEW d \in Desks PROVE DeskKnows(desk[d])
    BY DEF Init, Closed, DeskKnows
<1> QED  BY <1>1, <1>2, <1>3, <1>4 DEF Invariant

\* Every step keeps the invariant.
LEMMA InvariantKept == Invariant /\ [Next]_vars => Invariant'
<1> SUFFICES ASSUME Invariant, [Next]_vars PROVE Invariant'
    OBVIOUS
<1>1. ASSUME NEW e \in Emails, NEW v \in Slugs, FoundVenture(e, v) PROVE Invariant'
    BY <1>1, FoundVentureStep
<1>2. ASSUME NEW s \in SignIns, NEW e \in Emails, GoogleSignIn(s, e) PROVE Invariant'
    BY <1>2, GoogleSignInStep
<1>3. ASSUME NEW s \in SignIns, NEW e \in Normal, PasswordSignIn(s, e) \/ Register(s, e)
      PROVE  Invariant'
    BY <1>3, PasswordSignInStep, RegisterStep
<1>4. ASSUME NEW s \in SignIns, SignInStep(s) \/ SignInFails(s) PROVE Invariant'
    BY <1>4, CreateUserStep, AttachPasswordStep, ListInvitesStep, WriteMembershipStep,
       MarkAcceptedStep, SignInFailsStep DEF SignInStep
<1>5. ASSUME NEW d \in Desks, NEW e \in Emails, NEW v \in Slugs,
             AsksToInvite(d, e, v) \/ AsksToRemove(d, e, v)
      PROVE  Invariant'
    BY <1>5, OwnerAsksStep
<1>6. ASSUME NEW d \in Desks, DeskStep(d) \/ DeskFails(d) PROVE Invariant'
    BY <1>6, LookUpStep, CreateInviteStep, ReactivateStep, RevokeInviteStep,
       DeleteInviteStep, DeskFailsStep DEF DeskStep
<1>7. CASE UNCHANGED vars
    BY <1>7, TablesRest, NobodyMoves DEF vars, tables
<1> QED  BY <1>1, <1>2, <1>3, <1>4, <1>5, <1>6, <1>7 DEF Next

\* The tables and all that handlers know of them are consistent at all times.
THEOREM InvariantAlways == Spec => []Invariant
BY InvariantInitially, InvariantKept, PTL DEF Spec

\* The control database keeps its types, its ids and one invite for an address
\* in a venture, for any number of sign-ins, desks, users and ventures.
THEOREM InvitesTypeCorrect == Spec => []TypeOK
<1>1. Invariant => TypeOK
    BY DEF Invariant
<1> QED  BY <1>1, InvariantAlways, PTL

\* An accepted invite has its membership: the fault accept_pending_invites was
\* written to mend cannot come back.
THEOREM AcceptanceHolds == Spec => []AcceptedMeansMember
<1>1. Invariant => AcceptedMeansMember
    BY DEF Invariant
<1> QED  BY <1>1, InvariantAlways, PTL

\* A session is given only to a user who joined every venture it listed.
THEOREM SessionsHold == Spec => []SignedInMeansMember
<1>1. Invariant => SignedInMeansMember
    BY DEF Invariant, SignInKnows, SignedInMeansMember
<1> QED  BY <1>1, InvariantAlways, PTL

\* Invites and memberships rest on users and ventures that are there.
THEOREM OriginsHold == Spec => []NobodyFromNowhere
<1>1. Invariant => NobodyFromNowhere
    BY DEF Invariant
<1> QED  BY <1>1, InvariantAlways, PTL
=============================================================================
