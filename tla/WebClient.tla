----------------------------- MODULE WebClient -----------------------------
(***************************************************************************)
(* The pages on which a venture is run: its settings                       *)
(* (sharam-ui/src/pages/venture.rs, ManagePage) and its invites            *)
(* (pages/admin.rs), in the tab of Browser, with what the gateway does for *)
(* them (routes/settings.rs, routes/invites.rs) and what other owners do   *)
(* meanwhile.                                                              *)
(***************************************************************************)
EXTENDS Browser

Fields == {"name", "cadence", "dues"}

\* Timezone, currency and purpose are fields like the name.
TextOf(s) == [s EXCEPT !.dues = @ \div CentsPerUnit]
Typed(f) ==
    CASE f = "name" -> Names
      [] f = "cadence" -> Rhythms
      [] f = "dues" -> {d \div CentsPerUnit : d \in Dues} \cup {0}

Invite ==
    [id : 1..MaxInvites, slug : Ventures, email : Invitees, role : Offers,
     accepted : BOOLEAN, revoked : BOOLEAN]

\* What a call about a venture has become of, in the tab or at the gateway.
rest == <<server, storage, tab, login, nav, detail>>

(***************************************************************************)
(* The venture of the page                                                 *)
(***************************************************************************)

\* fetch_venture, and fetch_owner_context of the invites: the own role ...
ServeRole ==
    /\ request["venture"].pc = "asked" /\ Holds("venture")
    /\ LET r == role[Caller("venture")][request["venture"].about]
           mine == [role |-> r, settings |-> None]
       IN  IF At("invites") THEN Answer("venture", "data", mine)
           ELSE IF r = None THEN Answer("venture", "error", None)
           ELSE request' = [request EXCEPT !["venture"].pc = "settings", !["venture"].data = mine]
    /\ UNCHANGED <<server, storage, page>>

\* ... then the settings; the members that follow are left out.
ServeSettings ==
    /\ request["venture"].pc = "settings" /\ Holds("venture")
    /\ Answer("venture", "data",
              [request["venture"].data EXCEPT !.settings = settings[request["venture"].about]])
    /\ UNCHANGED <<server, storage, page>>

\* Variant for the checks: the cadence is not filled in.
FilledButCadence(s) ==
    [FormAnew EXCEPT !.mounted = TRUE, !.base = s,
                     !.text = [TextOf(s) EXCEPT !.cadence = CHOOSE c \in Rhythms : TRUE]]

\* The form is filled once, when it is mounted.
Filled(s) == [FormAnew EXCEPT !.mounted = TRUE, !.text = TextOf(s), !.base = s]

\* ManagePage: the form is there for owners and treasurers.
ManageShown ==
    /\ At("manage") /\ request["venture"].pc = "answered"
    /\ venture' = Shown("venture")
    /\ form' = IF venture'.kind = "data" /\ venture'.data.role \in {"owner", "treasurer"}
               THEN IF form.mounted THEN form ELSE Filled(venture'.data.settings)
               ELSE FormAnew
    /\ request' = [request EXCEPT !["venture"] = NoCall,
                                  !["save"] = IF form'.mounted THEN @ ELSE NoCall]
    /\ UNCHANGED <<rest, board>>

(***************************************************************************)
(* The settings form                                                       *)
(***************************************************************************)

\* A field is typed in, also while a save is under way.  Dues that are no whole
\* number are sent as 0.
Edit(f, value) ==
    /\ form.mounted /\ form.text[f] # value
    /\ form' = [form EXCEPT !.text[f] = value, !.edited = @ \cup {f}]
    /\ UNCHANGED <<rest, request, venture, board>>

\* "Save changes": every field is sent.
PressSave ==
    /\ form.mounted /\ form.sent = None
    /\ LET all == [form.text EXCEPT !.dues = @ * CentsPerUnit]
       IN  /\ form' = [form EXCEPT !.sent = [all |-> all, edited |-> form.edited],
                                   !.edited = {}]
           /\ request' = [request EXCEPT !["save"] = Sent(token, tab.slug, all)]
    /\ UNCHANGED <<rest, venture, board>>

\* patch_settings: owners only ...
CheckOwner ==
    /\ request["save"].pc = "asked" /\ Holds("save")
    /\ IF role[Caller("save")][request["save"].about] = "owner"
       THEN request' = [request EXCEPT !["save"].pc = "write"]
       ELSE Answer("save", "error", None)
    /\ UNCHANGED <<server, storage, page>>

\* ... then one MERGE.
WriteSettings ==
    /\ request["save"].pc = "write"
    /\ settings' = [settings EXCEPT ![request["save"].about] = request["save"].arg]
    /\ Answer("save", "data", None)
    /\ UNCHANGED <<role, invite, minted, storage, page>>

\* "Saved.", and the venture is read again; the form keeps its text.
SaveTold ==
    /\ request["save"].pc = "answered"
    /\ form' = IF request["save"].kind = "data"
               THEN [form EXCEPT !.base = form.sent.all, !.sent = None]
               ELSE [form EXCEPT !.edited = @ \cup form.sent.edited, !.sent = None]
    /\ request' = [request EXCEPT !["save"] = NoCall,
                      !["venture"] = IF request["save"].kind = "data"
                                     THEN Sent(token, tab.slug, None) ELSE @]
    /\ UNCHANGED <<rest, venture, board>>

(***************************************************************************)
(* The invites page                                                        *)
(***************************************************************************)

\* AdminInvites: an owner gets the page, which asks for the list.
OwnerShown ==
    /\ At("invites") /\ request["venture"].pc = "answered"
    /\ venture' = Shown("venture")
    /\ LET owner == venture'.kind = "data" /\ venture'.data.role = "owner"
       IN  /\ board' = [BoardAnew EXCEPT !.mounted = owner]
           /\ request' = [request EXCEPT !["venture"] = NoCall,
                             !["list"] = IF owner THEN Sent(token, tab.slug, None) ELSE NoCall]
    /\ UNCHANGED <<rest, form>>

\* require_owner, in one step with the statement that follows: Invites has
\* their interleavings.
OwnerAsks(c) ==
    /\ request[c].pc = "asked" /\ Holds(c)
    /\ role[Caller(c)][request[c].about] = "owner"

NotOwner(c) ==
    /\ request[c].pc = "asked" /\ Holds(c)
    /\ role[Caller(c)][request[c].about] # "owner"
    /\ Answer(c, "error", None)
    /\ UNCHANGED <<server, storage, page>>

\* list_invites.
ServeList ==
    /\ OwnerAsks("list")
    /\ Answer("list", "data", {i \in invite : i.slug = request["list"].about})
    /\ UNCHANGED <<server, storage, page>>

\* What the row of an invite that is gone was doing is forgotten.
ListShown ==
    /\ request["list"].pc = "answered"
    /\ board' = [board EXCEPT !.shown = Shown("list")]
    /\ LET rows == IF request["list"].kind = "data" THEN {i.id : i \in request["list"].data} ELSE {}
       IN  request' = [request EXCEPT !["list"] = NoCall,
                          !["row"] = IF @.pc # "idle" /\ @.arg.id \notin rows THEN NoCall ELSE @]
    /\ UNCHANGED <<rest, venture, form>>

\* "Send invite", of an address that valid_email takes, in the role picked.
PressSend(e, r) ==
    /\ board.mounted /\ board.sent = None
    /\ board' = [board EXCEPT !.sent = [email |-> e, role |-> r, now |-> r], !.told = None]
    /\ request' = [request EXCEPT !["post"] = Sent(token, tab.slug, [email |-> e, role |-> r])]
    /\ UNCHANGED <<rest, venture, form>>

\* The roles stay to be picked while an invite is sent.
PickRole(r) ==
    /\ board.sent # None /\ r # board.sent.now
    /\ board' = [board EXCEPT !.sent.now = r]
    /\ UNCHANGED <<rest, request, venture, form>>

\* create_invite: a row, a revoked row again, or a conflict.
Create(slug, e, r) ==
    LET old == {i \in invite : i.slug = slug /\ i.email = e}
    IN  IF old = {}
        THEN /\ minted < MaxInvites
             /\ minted' = minted + 1
             /\ invite' = invite \cup {[id |-> minted', slug |-> slug, email |-> e, role |-> r,
                                        accepted |-> FALSE, revoked |-> FALSE]}
        ELSE /\ \A i \in old : i.revoked
             /\ invite' = (invite \ old) \cup {[i EXCEPT !.revoked = FALSE, !.role = r] : i \in old}
             /\ UNCHANGED minted

ServePost ==
    /\ OwnerAsks("post")
    /\ LET c == request["post"]
       IN  /\ Create(c.about, c.arg.email, c.arg.role)
           /\ Answer("post", "data",
                 (CHOOSE i \in invite' : i.slug = c.about /\ i.email = c.arg.email).id)
    /\ UNCHANGED <<role, settings, storage, page>>

\* "an active invite already exists for this email"
ServeConflict ==
    /\ OwnerAsks("post")
    /\ \E i \in invite : /\ i.slug = request["post"].about
                         /\ i.email = request["post"].arg.email
                         /\ ~i.revoked
    /\ Answer("post", "error", None)
    /\ UNCHANGED <<server, storage, page>>

\* Variant for the checks: the list is not asked for again.
ListAfter(old) == old

\* What the page asks for when an invite was changed: invites.restart().
ListAgain(old) == Sent(token, tab.slug, None)

\* The toast tells the role that is picked by now; the list is asked for again.
SendTold ==
    /\ request["post"].pc = "answered"
    /\ board' = IF request["post"].kind = "data"
                THEN [board EXCEPT !.sent = None,
                         !.told = [id |-> request["post"].data, role |-> board.sent.now]]
                ELSE [board EXCEPT !.sent = None]
    /\ request' = [request EXCEPT !["post"] = NoCall,
                      !["list"] = IF request["post"].kind = "data" THEN ListAgain(@) ELSE @]
    /\ UNCHANGED <<rest, venture, form>>

\* InviteRow: "Revoke" of a pending invite, "Delete" of a pending or revoked one.
\* One row at a time is a bound.
PressRow(op, i) ==
    /\ board.shown # None /\ board.shown.kind = "data" /\ i \in board.shown.data
    /\ request["row"].pc = "idle"
    /\ i.revoked => op = "delete"
    /\ i.accepted => i.revoked
    /\ request' = [request EXCEPT !["row"] = Sent(token, tab.slug, [op |-> op, id |-> i.id])]
    /\ UNCHANGED <<rest, venture, form, board>>

\* revoke_invite and delete_invite: of an invite that is not revoked, or not
\* accepted; any other is "not found".
Revocable(c) == {i \in invite : i.id = c.arg.id /\ i.slug = c.about /\ ~i.revoked}
Deletable(c) == {i \in invite : i.id = c.arg.id /\ i.slug = c.about /\ ~i.accepted}

ServeRow ==
    /\ OwnerAsks("row")
    /\ LET c == request["row"]
           hit == IF c.arg.op = "revoke" THEN Revocable(c) ELSE Deletable(c)
       IN  /\ invite' = (invite \ hit) \cup
                 IF c.arg.op = "revoke" THEN {[i EXCEPT !.revoked = TRUE] : i \in hit} ELSE {}
           /\ Answer("row", IF hit = {} THEN "error" ELSE "data", None)
    /\ UNCHANGED <<role, settings, minted, storage, page>>

RowTold ==
    /\ request["row"].pc = "answered"
    /\ request' = [request EXCEPT !["row"] = NoCall,
                      !["list"] = IF request["row"].kind = "data" THEN ListAgain(@) ELSE @]
    /\ UNCHANGED <<rest, venture, form, board>>

(***************************************************************************)
(* Other owners, and those who are invited                                 *)
(***************************************************************************)
OthersSave(v, s) ==
    /\ Moves
    /\ s # settings[v]
    /\ settings' = [settings EXCEPT ![v] = s]
    /\ UNCHANGED <<role, invite, minted, session, token, stored, tabs>>

OthersInvite(v, e, r) ==
    /\ Moves
    /\ Create(v, e, r)
    /\ UNCHANGED <<role, settings, session, token, stored, tabs>>

\* An invite is accepted, revoked or deleted.
OthersSettle(i) ==
    /\ Moves
    /\ i \in invite
    /\ invite' \in {(invite \ {i}) \cup {[i EXCEPT !.revoked = TRUE]},
                    (invite \ {i}) \cup {[i EXCEPT !.accepted = TRUE]}}
                   \cup (IF i.accepted THEN {} ELSE {invite \ {i}})
    /\ UNCHANGED <<role, settings, minted, session, token, stored, tabs>>

-----------------------------------------------------------------------------

GatewayStep ==
    \/ ServeVentures \/ ServeDetail \/ ServeRole \/ ServeSettings
    \/ CheckOwner \/ WriteSettings
    \/ ServeList \/ ServePost \/ ServeConflict \/ ServeRow
    \/ \E c \in Calls : Unauthorized(c) \/ Fail(c)
    \/ \E c \in {"list", "post", "row"} : NotOwner(c)

PageStep ==
    \/ DashboardStep
    \/ ManageShown \/ SaveTold
    \/ OwnerShown \/ ListShown \/ SendTold \/ RowTold

PersonStep ==
    \/ \E p \in Pages, v \in Ventures \cup {None} : GoTo(p, v)
    \/ \E v \in Ventures : Pick(v)
    \/ SignOut
    \/ LoginStep
    \/ \E f \in Fields : \E value \in Typed(f) : Edit(f, value)
    \/ PressSave
    \/ \E e \in Invitees, r \in Offers : PressSend(e, r)
    \/ \E r \in Offers : PickRole(r)
    \/ \E op \in {"revoke", "delete"}, i \in invite : PressRow(op, i)

OthersStep ==
    \/ ElsewhereStep
    \/ \E v \in Ventures, s \in Settings : OthersSave(v, s)
    \/ \E v \in Ventures, e \in Invitees, r \in Offers : OthersInvite(v, e, r)
    \/ \E i \in invite : OthersSettle(i)

Next == PersonStep \/ PageStep \/ GatewayStep \/ OthersStep

Spec == Init /\ [][Next]_vars

-----------------------------------------------------------------------------
(***************************************************************************)
(* Properties                                                              *)
(***************************************************************************)

\* What each call asks with, and what its data are.
ArgOf(c) ==
    CASE c = "save" -> [name : Names, cadence : Rhythms, dues : Nat]
      [] c = "post" -> [email : Invitees, role : Offers]
      [] c = "row" -> [op : {"revoke", "delete"}, id : 1..MaxInvites]
      [] OTHER -> {}
DataOf(c) ==
    CASE c = "ventures" -> SUBSET Ventures
      [] c = "detail" -> ArgOf("save")
      [] c = "venture" -> [role : Roles \cup {None}, settings : ArgOf("save") \cup {None}]
      [] c = "list" -> SUBSET Invite
      [] c = "post" -> 1..MaxInvites
      [] OTHER -> {}
Answered(c) == [about : Ventures, kind : Kinds, data : DataOf(c) \cup {None}]
ShownOf(c) == Answered(c) \cup {None}

\* A save under way: what was sent, and which of it was typed.
Saves == [all : ArgOf("save"), edited : SUBSET Fields]

\* No value is no answer, and no save.
ASSUME NoneAssumption == None \notin Answered("detail") \cup Saves

\* Where a call can be under way.
PagesOf(c) ==
    CASE c = "ventures" -> Sidebars
      [] c = "detail" -> {"dashboard"}
      [] c = "venture" -> {"manage", "invites"}
      [] c = "save" -> {"manage"}
      [] c \in {"list", "post", "row"} -> {"invites"}

\* Every variable has its type, and what belongs to one page is there on no
\* other: nothing outlives the page that asked for it.
WebTypeOK ==
    /\ role \in [Accounts -> [Ventures -> Roles \cup {None}]]
    /\ \A v \in Ventures : settings[v] \in ArgOf("save")
    /\ invite \subseteq Invite /\ minted \in 0..MaxInvites /\ moves \in 0..MaxMoves
    /\ \A s \in DOMAIN session : session[s] \in [who : Accounts, over : BOOLEAN]
    /\ token \in 0..Len(session) /\ stored \in Ventures \cup {None}
    /\ tab \in [page : Pages, slug : Ventures \cup {None}]
    /\ \A c \in Calls :
          /\ request[c].pc \in {"idle", "asked", "settings", "write", "answered"}
          /\ request[c].as \in 0..Len(session) /\ request[c].about \in Ventures \cup {None}
          /\ request[c].arg \in ArgOf(c) \cup {None} /\ request[c].data \in DataOf(c) \cup {None}
          /\ request[c].kind \in Kinds \cup {None}
          /\ request[c].pc # "idle" => tab.page \in PagesOf(c)
    /\ At("login") \/ login = LoginAnew
    /\ At("dashboard") \/ detail = None
    /\ At("manage") \/ form = FormAnew
    /\ At("invites") \/ board = BoardAnew
    /\ nav.selected \in Ventures \cup {None} /\ nav.list \subseteq Ventures
    /\ detail \in ShownOf("detail") /\ venture \in ShownOf("venture")
    /\ board.shown \in ShownOf("list")

\* A save under way that is being written.
Writes == request["save"].pc = "write" /\ request'["save"].pc = "answered" /\ request'["save"].kind = "data"

\* A save sends every field, yet changes one only if it was typed in since the
\* last save, or somebody else has changed it since the form last knew it, or
\* it is the dues and these had cents, which the form cannot show.
SavesAreExplained ==
    [][Writes => \A v \in Ventures, f \in Fields :
          settings'[v][f] # settings[v][f] =>
              /\ v = tab.slug
              /\ \/ f \in form.sent.edited
                 \/ settings[v][f] # form.base[f]
                 \/ f = "dues" /\ form.base.dues % CentsPerUnit # 0]_vars

\* Once no list is under way, the list on the page has the invite that the last
\* toast told of, if it is still there: a list asked for before it was sent is
\* never shown after the toast.
InvitesAreAsTold ==
    (board.told # None /\ board.shown # None /\ board.shown.kind = "data"
       /\ request["list"].pc = "idle") =>
        \A i \in invite : i.id = board.told.id => i.id \in {j.id : j \in board.shown.data}
=============================================================================
