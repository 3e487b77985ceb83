------------------------------ MODULE Browser ------------------------------
(***************************************************************************)
(* One tab of the web client (sharam-ui): the session token and the active *)
(* venture that it shares with the other tabs through localStorage         *)
(* (api.rs, pages/sidenav.rs), signing in and out (pages/login.rs), the    *)
(* side navigation around every other page, and the dashboard              *)
(* (pages/dashboard.rs), over the part of the gateway that they call.      *)
(*                                                                         *)
(* Every navigation loads the page anew: what the old one held, and the    *)
(* answers it waited for, are gone.  Of the pages of a venture, ManagePage *)
(* and InvitesPage add what an owner does there; "overview" stands for the *)
(* others, which VenturePage models.                                       *)
(***************************************************************************)
EXTENDS Integers, Sequences

CONSTANTS
    Accounts, Ventures,
    Names, Rhythms, Dues,   \* the settings there may be; dues in cents
    CentsPerUnit,
    Invitees,               \* addresses to invite
    Offers,                 \* roles an invite may offer (a bound)
    Sidebars,               \* pages on which the sidebar is followed (a bound)
    MaxInvites,             \* bound: how many invites are ever created
    MaxSessions,            \* bound: how many sessions are ever issued
    MaxMoves,               \* bound: what everybody else does
    None

ASSUME BrowserAssumption ==
    /\ CentsPerUnit \in Nat \ {0}
    /\ Dues \subseteq Nat
    /\ Offers \subseteq {"owner", "treasurer", "member"}
    /\ Sidebars \subseteq {"dashboard", "overview", "manage", "invites"}
    /\ MaxInvites \in Nat /\ MaxSessions \in Nat /\ MaxMoves \in Nat
    /\ None \notin Accounts \cup Ventures \cup Invitees \cup {"data", "signed out", "error"}

VARIABLES
    role,       \* role[u][v]: the membership table
    settings,   \* settings[v]
    invite,     \* the invite table
    minted,     \* how many invites were ever created
    session,    \* the sessions ever issued, in order
    moves,      \* what everybody else has done
    token,      \* localStorage: the session's number, or 0
    stored,     \* localStorage: the active venture, or None
    tab,        \* the page in the tab, and the venture of its URL
    request,    \* request[c]: the request the page has sent for c
    login,      \* the login page
    nav,        \* what the side navigation shows
    detail,     \* the settings on the dashboard
    venture,    \* what the page has read of its venture
    form,       \* the settings form
    board       \* the invites page

vars == <<role, settings, invite, minted, session, moves, token, stored, tab,
          request, login, nav, detail, venture, form, board>>
server == <<role, settings, invite, minted>>
storage == <<session, moves, token, stored>>

Roles == {"owner", "treasurer", "member"}
Settings == [name : Names, cadence : Rhythms, dues : Dues]
Pages == {"login", "dashboard", "overview", "manage", "invites"}
Calls == {"ventures", "detail", "venture", "list", "save", "post", "row"}

\* How a request ends: with data, as a NotSignedIn or Unauthorized, or as
\* another error.
Kinds == {"data", "signed out", "error"}

\* A request and its answer: of which session, about which venture, and for the
\* requests that change something, with which argument.
NoCall == [pc |-> "idle", as |-> 0, about |-> None, arg |-> None, kind |-> None, data |-> None]

\* What a page shows of an answer.
Shown(c) == [about |-> request[c].about, kind |-> request[c].kind, data |-> request[c].data]

\* api.rs authed: without a token, NotSignedIn and no request.
Sent(tok, about, arg) ==
    IF tok = 0 THEN [NoCall EXCEPT !.pc = "answered", !.about = about, !.arg = arg, !.kind = "signed out"]
    ELSE [NoCall EXCEPT !.pc = "asked", !.as = tok, !.about = about, !.arg = arg]

Answer(c, kind, data) ==
    request' = [request EXCEPT ![c].pc = "answered", ![c].kind = kind, ![c].data = data]

\* The requester, and whether the session holds (routes: sessions.verify).
Caller(c) == session[request[c].as].who
Holds(c) == ~session[request[c].as].over

-----------------------------------------------------------------------------
(***************************************************************************)
(* Pages come and go                                                       *)
(***************************************************************************)

LoginAnew == [side |-> "email", busy |-> None, google |-> "idle", popup |-> "closed", picked |-> None]
NavAnew(st) == [selected |-> st, kind |-> None, list |-> {}]
FormAnew == [mounted |-> FALSE, text |-> None, base |-> None, edited |-> {}, sent |-> None]
BoardAnew == [mounted |-> FALSE, shown |-> None, sent |-> None, told |-> None]

\* A page loads: the sidebar asks for the ventures and takes the stored
\* selection, and the page asks for what it shows.
Load(page, v, tok, st) ==
    /\ tab' = [page |-> page, slug |-> v]
    /\ request' = [c \in Calls |->
          CASE c = "ventures" /\ page \in Sidebars -> Sent(tok, None, None)
            [] c = "detail" /\ page = "dashboard" /\ st # None -> Sent(tok, st, None)
            [] c = "venture" /\ page \in {"manage", "invites"} -> Sent(tok, v, None)
            [] OTHER -> NoCall]
    /\ login' = LoginAnew
    /\ nav' = NavAnew(st)
    /\ detail' = None
    /\ venture' = None
    /\ form' = FormAnew
    /\ board' = BoardAnew

\* Somebody may have used this browser before: signed in, or picked a venture.
Init ==
    /\ role \in [Accounts -> [Ventures -> Roles \cup {None}]]
    /\ settings \in [Ventures -> Settings]
    /\ invite = {}
    /\ minted = 0
    /\ session \in {<<>>} \cup {<<[who |-> u, over |-> FALSE]>> : u \in Accounts}
    /\ moves = 0
    /\ token = Len(session)
    /\ stored \in Ventures \cup {None}
    /\ tab = [page |-> "login", slug |-> None]
    /\ request = [c \in Calls |-> NoCall]
    /\ login = LoginAnew
    /\ nav = NavAnew(stored)
    /\ detail = None
    /\ venture = None
    /\ form = FormAnew
    /\ board = BoardAnew

\* A link, a bookmark or a reload, to any page; an URL may name any venture.
GoTo(page, v) ==
    /\ v = None <=> page \in {"login", "dashboard"}
    /\ Load(page, v, token, stored)
    /\ UNCHANGED <<server, storage>>

\* SidenavPicker: the venture is stored, and its overview loaded.
Pick(v) ==
    /\ nav.kind = "data" /\ v \in nav.list
    /\ stored' = v
    /\ Load("overview", v, token, v)
    /\ UNCHANGED <<server, session, moves, token>>

\* sign_out removes the token, and leaves the stored venture.
SignOut ==
    /\ tab.page # "login"
    /\ token' = 0
    /\ Load("login", None, 0, stored)
    /\ UNCHANGED <<server, session, moves, stored>>

(***************************************************************************)
(* The login page                                                          *)
(***************************************************************************)
others == <<server, storage, tab, request, nav, detail, venture, form, board>>

At(page) == tab.page = page
Signs(l) == login' = l /\ UNCHANGED others

\* issue: a session of this account, its token in localStorage, on to the dashboard.
Issue(u) ==
    /\ Len(session) < MaxSessions
    /\ session' = Append(session, [who |-> u, over |-> FALSE])
    /\ token' = Len(session')
    /\ Load("dashboard", None, token', stored)
    /\ UNCHANGED <<server, moves, stored>>

\* The panel that is left forgets what it did; Google's script does not.
ShowPanel(side) ==
    /\ At("login") /\ login.side # side
    /\ Signs([login EXCEPT !.side = side, !.busy = None, !.google = "idle"])

\* EmailPanel: one request at a time.
Submit(u) ==
    /\ At("login") /\ login.side = "email" /\ login.busy = None
    /\ Signs([login EXCEPT !.busy = u])

PasswordTaken == At("login") /\ login.busy # None /\ Issue(login.busy)

\* The gateway refuses, the answer is lost, or the token cannot be stored.
PasswordRefused ==
    /\ At("login") /\ login.busy # None
    /\ Signs([login EXCEPT !.busy = None])

\* GooglePanel runs Google's script.
ClickGoogle ==
    /\ At("login") /\ login.side = "google" /\ login.google \in {"idle", "error"}
    /\ Signs([login EXCEPT !.google = "pending", !.popup = "open"])

\* The prompt is dismissed, or was never shown; the panel may not learn of it.
GoogleDismissed ==
    /\ At("login") /\ login.popup = "open"
    /\ \E g \in {login.google} \cup (IF login.google = "pending" THEN {"error"} ELSE {}) :
          Signs([login EXCEPT !.popup = "closed", !.google = g])

\* The callback posts the credential of the account that was chosen.
GooglePicked(u) ==
    /\ At("login") /\ login.popup = "open"
    /\ Signs([login EXCEPT !.popup = "closed", !.picked = u])

GoogleTaken == At("login") /\ login.picked # None /\ Issue(login.picked)

GoogleRefused ==
    /\ At("login") /\ login.picked # None
    /\ \E g \in {login.google} \cup (IF login.google = "pending" THEN {"error"} ELSE {}) :
          Signs([login EXCEPT !.picked = None, !.google = g])

LoginStep ==
    \/ \E side \in {"email", "google"} : ShowPanel(side)
    \/ \E u \in Accounts : Submit(u) \/ GooglePicked(u)
    \/ PasswordTaken \/ PasswordRefused
    \/ ClickGoogle \/ GoogleDismissed \/ GoogleTaken \/ GoogleRefused

(***************************************************************************)
(* The gateway                                                             *)
(***************************************************************************)
page == <<tab, login, nav, detail, venture, form, board>>

\* list_my_ventures: the venture of each membership, with its role.
ServeVentures ==
    /\ request["ventures"].pc = "asked" /\ Holds("ventures")
    /\ Answer("ventures", "data", {v \in Ventures : role[Caller("ventures")][v] # None})
    /\ UNCHANGED <<server, storage, page>>

\* get_settings: members only.  A membership is never taken back, so that the
\* check and the read may be one step.
ServeDetail ==
    /\ request["detail"].pc = "asked" /\ Holds("detail")
    /\ LET v == request["detail"].about
       IN  IF role[Caller("detail")][v] = None THEN Answer("detail", "error", None)
           ELSE Answer("detail", "data", settings[v])
    /\ UNCHANGED <<server, storage, page>>

\* The session has ended: 401.
Unauthorized(c) ==
    /\ request[c].pc \notin {"idle", "answered"} /\ ~Holds(c)
    /\ Answer(c, "signed out", None)
    /\ UNCHANGED <<server, storage, page>>

\* A statement fails, or the network does.
Fail(c) ==
    /\ request[c].pc \notin {"idle", "answered"}
    /\ Answer(c, "error", None)
    /\ UNCHANGED <<server, storage, page>>

(***************************************************************************)
(* The sidebar and the dashboard                                           *)
(***************************************************************************)

\* Variant for the checks: what is stored is trusted.
SelectsStored(list) == IF nav.selected # None THEN {nav.selected} ELSE IF list = {} THEN {None} ELSE list

\* Sidenav: a selection that is not listed gives way to the first that is.
Selects(list) ==
    IF nav.selected \in list THEN {nav.selected} ELSE IF list = {} THEN {None} ELSE list

\* Variant for the checks: the settings are asked for on every page.
FollowsEverywhere(sel, old) ==
    IF nav.selected = sel THEN old ELSE IF sel = None THEN NoCall ELSE Sent(token, sel, None)

\* On the dashboard the settings of a new selection are asked for; without one
\* there is nothing to ask.
Follows(sel, old) ==
    IF nav.selected = sel \/ ~At("dashboard") THEN old
    ELSE IF sel = None THEN NoCall ELSE Sent(token, sel, None)

\* The ventures are there, and a new selection is stored.
VenturesShown ==
    /\ request["ventures"].pc = "answered" /\ request["ventures"].kind = "data"
    /\ LET list == request["ventures"].data
       IN  \E sel \in Selects(list) :
              /\ nav' = [selected |-> sel, kind |-> "data", list |-> list]
              /\ stored' = IF nav.selected \in list THEN stored ELSE sel
              /\ request' = [request EXCEPT !["ventures"] = NoCall,
                                              !["detail"] = Follows(sel, @)]
              /\ detail' = IF sel = None THEN None ELSE detail
    /\ UNCHANGED <<server, session, moves, token, tab, login, venture, form, board>>

VenturesNotShown ==
    /\ request["ventures"].pc = "answered" /\ request["ventures"].kind # "data"
    /\ nav' = [nav EXCEPT !.kind = request["ventures"].kind]
    /\ request' = [request EXCEPT !["ventures"] = NoCall]
    /\ UNCHANGED <<server, storage, tab, login, detail, venture, form, board>>

\* DashboardBody: the settings, or the error, of the venture they were asked for.
DetailShown ==
    /\ request["detail"].pc = "answered"
    /\ detail' = Shown("detail")
    /\ request' = [request EXCEPT !["detail"] = NoCall]
    /\ UNCHANGED <<server, storage, tab, login, nav, venture, form, board>>

DashboardStep == VenturesShown \/ VenturesNotShown \/ DetailShown

(***************************************************************************)
(* Everybody else                                                          *)
(***************************************************************************)
Moves == moves < MaxMoves /\ moves' = moves + 1
tabs == <<tab, request, login, nav, detail, venture, form, board>>

\* A session reaches its "exp".
Expire(s) ==
    /\ Moves
    /\ s \in DOMAIN session /\ ~session[s].over
    /\ session' = [session EXCEPT ![s].over = TRUE]
    /\ UNCHANGED <<server, token, stored, tabs>>

\* Another tab of this browser signs in as someone, or signs out ...
OtherTabSigns(u) ==
    /\ Moves
    /\ IF u = None THEN token' = 0 /\ UNCHANGED session
       ELSE /\ Len(session) < MaxSessions
            /\ session' = Append(session, [who |-> u, over |-> FALSE])
            /\ token' = Len(session')
    /\ UNCHANGED <<server, stored, tabs>>

\* ... or picks a venture.
OtherTabPicks(v) ==
    /\ Moves
    /\ v # stored
    /\ stored' = v
    /\ UNCHANGED <<server, session, token, tabs>>

\* An invite is accepted: a membership, or another role.
Join(u, v, r) ==
    /\ Moves
    /\ r # role[u][v]
    /\ role' = [role EXCEPT ![u][v] = r]
    /\ UNCHANGED <<settings, invite, minted, session, token, stored, tabs>>

ElsewhereStep ==
    \/ \E s \in 1..MaxSessions : Expire(s)
    \/ \E u \in Accounts \cup {None} : OtherTabSigns(u)
    \/ \E v \in Ventures : OtherTabPicks(v)
    \/ \E u \in Accounts, v \in Ventures, r \in Roles : Join(u, v, r)

-----------------------------------------------------------------------------
(***************************************************************************)
(* Properties                                                              *)
(***************************************************************************)

\* Once the dashboard has its ventures and waits for nothing, the venture it
\* names is one of them, and the settings under the name, or the error, are of
\* that venture: whatever selection was stored, for whatever account, before.
DashboardIsOfOneVenture ==
    (At("dashboard") /\ nav.kind = "data" /\ request["detail"].pc = "idle") =>
        /\ IF nav.list = {} THEN nav.selected = None ELSE nav.selected \in nav.list
        /\ nav.selected = None => detail = None
        /\ nav.selected # None => detail # None /\ detail.about = nav.selected
=============================================================================
