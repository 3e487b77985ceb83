-------------------------- MODULE WebClientProofs --------------------------
(***************************************************************************)
(* Proofs about one tab of the web client, for any number of accounts,     *)
(* ventures, invites and sessions, and any interleaving with the gateway,  *)
(* the other tabs and the other members.                                   *)
(***************************************************************************)
EXTENDS WebClient, TLAPS

(***************************************************************************)
(* What a call holds                                                       *)
(***************************************************************************)

\* Of any call, in tab t when n sessions have been issued.
Stored == [name : Names, cadence : Rhythms, dues : Nat]

CallState(c) ==
    [pc : {"idle", "asked", "settings", "write", "answered"}, as : Nat,
     about : Ventures \cup {None}, arg : ArgOf(c) \cup {None},
     kind : Kinds \cup {None}, data : DataOf(c) \cup {None}]

CallOK(c, r, t, n) ==
    /\ r \in CallState(c) /\ r.as \in 0..n
    /\ r.pc \in {"asked", "settings", "write"} => r.as # 0
    /\ r.pc # "idle" => t.page \in PagesOf(c)
    /\ (r.pc # "idle" /\ c # "ventures") => r.about \in Ventures
    /\ (r.pc # "idle" /\ c \notin {"ventures", "detail"}) => r.about = t.slug
    /\ (r.pc # "idle" /\ c \in {"save", "post", "row"}) => r.arg \in ArgOf(c)
    /\ r.pc = "answered" => r.kind \in Kinds
    /\ (r.pc = "answered" /\ r.kind = "data" /\ c \notin {"save", "row"}) => r.data \in DataOf(c)
    /\ r.pc = "settings" => c = "venture" /\ t.page = "manage" /\ r.data \in DataOf(c)
    /\ r.pc = "write" => c = "save"
    /\ (r.pc = "answered" /\ r.kind = "data" /\ c = "venture" /\ t.page = "manage") =>
          r.data.settings \in Stored

\* The types of the calls, one by one.
LEMMA StoredType == ArgOf("save") = Stored /\ Saves = [all : Stored, edited : SUBSET Fields]
BY DEF ArgOf, Saves, Stored

LEMMA ArgTypes ==
    /\ ArgOf("post") = [email : Invitees, role : Offers]
    /\ ArgOf("row") = [op : {"revoke", "delete"}, id : 1..MaxInvites]
    /\ \A c \in {"ventures", "detail", "venture", "list"} : ArgOf(c) = {}
BY DEF ArgOf

LEMMA DataTypes ==
    /\ DataOf("ventures") = SUBSET Ventures
    /\ DataOf("detail") = Stored
    /\ DataOf("venture") = [role : Roles \cup {None}, settings : Stored \cup {None}]
    /\ DataOf("list") = SUBSET Invite
    /\ DataOf("post") = 1..MaxInvites
    /\ DataOf("save") = {} /\ DataOf("row") = {}
BY StoredType DEF DataOf

LEMMA CallPages ==
    /\ PagesOf("ventures") = Sidebars /\ PagesOf("detail") = {"dashboard"}
    /\ PagesOf("venture") = {"manage", "invites"} /\ PagesOf("save") = {"manage"}
    /\ \A c \in {"list", "post", "row"} : PagesOf(c) = {"invites"}
BY DEF PagesOf

\* No call is a call.
LEMMA NoCallOK ==
    ASSUME NEW c \in Calls, NEW t, NEW n \in Nat
    PROVE  CallOK(c, NoCall, t, n)
BY DEF CallOK, NoCall, CallState

\* A request that is sent, or not for want of a token.
LEMMA SentIs ==
    ASSUME NEW tok, NEW about, NEW arg
    PROVE  /\ Sent(tok, about, arg).about = about
           /\ Sent(tok, about, arg).arg = arg
           /\ Sent(tok, about, arg).pc \in {"asked", "answered"}
           /\ Sent(tok, about, arg).pc = "answered" => Sent(tok, about, arg).kind = "signed out"
BY DEF Sent, NoCall

LEMMA SentOK ==
    ASSUME NEW c \in Calls, NEW t, NEW n \in Nat, NEW tok \in 0..n,
           NEW about \in Ventures \cup {None}, NEW arg \in ArgOf(c) \cup {None},
           t.page \in PagesOf(c),
           c # "ventures" => about \in Ventures,
           c \notin {"ventures", "detail"} => about = t.slug,
           c \in {"save", "post", "row"} => arg \in ArgOf(c)
    PROVE  CallOK(c, Sent(tok, about, arg), t, n)
<1>1. CASE tok = 0
    BY <1>1, BrowserAssumption DEF CallOK, Sent, NoCall, CallState, Kinds
<1>2. CASE tok # 0
    <2>1. Sent(tok, about, arg) =
             [pc |-> "asked", as |-> tok, about |-> about, arg |-> arg, kind |-> None, data |-> None]
        BY <1>2 DEF Sent, NoCall
    <2>2. Sent(tok, about, arg) \in CallState(c)
        BY <2>1 DEF CallState
    <2> QED  BY <1>2, <2>1, <2>2 DEF CallOK
<1> QED  BY <1>1, <1>2

\* The answer to a call that is under way.
LEMMA AnswerOK ==
    ASSUME NEW c \in Calls, NEW t, NEW n \in Nat, NEW r, CallOK(c, r, t, n), r.pc # "idle",
           NEW kind \in Kinds, NEW data \in DataOf(c) \cup {None},
           (kind = "data" /\ c \notin {"save", "row"}) => data \in DataOf(c),
           (kind = "data" /\ c = "venture" /\ t.page = "manage") => data.settings \in Stored
    PROVE  CallOK(c, [r EXCEPT !.pc = "answered", !.kind = kind, !.data = data], t, n)
<1> DEFINE a == [r EXCEPT !.pc = "answered", !.kind = kind, !.data = data]
<1>1. /\ a \in CallState(c) /\ a.pc = "answered" /\ a.kind = kind /\ a.data = data
      /\ a.as = r.as /\ a.about = r.about /\ a.arg = r.arg
    BY DEF CallOK, CallState
<1> HIDE DEF a
<1>2. CallOK(c, a, t, n)
    BY <1>1 DEF CallOK
<1> QED  BY <1>2 DEF a

\* More sessions do a call no harm.
LEMMA CallOutlasts ==
    ASSUME NEW c \in Calls, NEW t, NEW n \in Nat, NEW m \in Nat, n <= m, NEW r, CallOK(c, r, t, n)
    PROVE  CallOK(c, r, t, m)
BY DEF CallOK

-----------------------------------------------------------------------------
(***************************************************************************)
(* The inductive invariant of the types                                    *)
(***************************************************************************)

ServerOK ==
    /\ role \in [Accounts -> [Ventures -> Roles \cup {None}]]
    /\ settings \in [Ventures -> Stored]
    /\ invite \subseteq Invite /\ minted \in 0..MaxInvites

StorageOK ==
    /\ session \in Seq([who : Accounts, over : BOOLEAN])
    /\ moves \in 0..MaxMoves
    /\ token \in 0..Len(session) /\ stored \in Ventures \cup {None}

CallsOK ==
    /\ request = [c \in Calls |-> request[c]]
    /\ \A c \in Calls : CallOK(c, request[c], tab, Len(session))

LoginState ==
    [side : {"email", "google"}, busy : Accounts \cup {None}, google : {"idle", "pending", "error"},
     popup : {"closed", "open"}, picked : Accounts \cup {None}]
NavState == [selected : Ventures \cup {None}, kind : Kinds \cup {None}, list : SUBSET Ventures]
FormState ==
    [mounted : BOOLEAN, text : Stored \cup {None}, base : Stored \cup {None},
     edited : SUBSET Fields, sent : Saves \cup {None}]
SentInvites == [email : Invitees, role : Offers, now : Offers]
ShownLists == {s \in Answered("list") : s.kind = "data" => s.data \subseteq Invite}
BoardState ==
    [mounted : BOOLEAN, shown : ShownLists \cup {None}, sent : SentInvites \cup {None},
     told : [id : 1..MaxInvites, role : Offers] \cup {None}]

\* What is on the screen.
ScreenOK ==
    /\ tab \in [page : Pages, slug : Ventures \cup {None}]
    /\ tab.slug = None <=> tab.page \in {"login", "dashboard"}
    /\ login \in LoginState /\ (At("login") \/ login = LoginAnew)
    /\ nav \in NavState
    /\ detail \in ShownOf("detail") /\ (At("dashboard") \/ detail = None)
    /\ venture \in ShownOf("venture")
    /\ form \in FormState /\ (At("manage") \/ form = FormAnew)
    /\ board \in BoardState /\ (At("invites") \/ board = BoardAnew)

\* A form, or a board, that is not there has nothing under way; one that is
\* there knows what it has under way.
MountsOK ==
    /\ ~form.mounted => form = FormAnew /\ request["save"].pc = "idle"
    /\ form.mounted => form.text \in Stored /\ form.base \in Stored
    /\ IF request["save"].pc = "idle" THEN form.sent = None ELSE form.sent \in Saves
    /\ ~board.mounted => board = BoardAnew /\ \A c \in {"list", "post", "row"} : request[c].pc = "idle"
    /\ (At("invites") /\ request["venture"].pc # "idle") => ~board.mounted
    /\ request["post"].pc # "idle" => board.sent \in SentInvites

TabInv == ServerOK /\ StorageOK /\ CallsOK /\ ScreenOK /\ MountsOK

LEMMA ElementOfSession ==
    ASSUME NEW S, NEW s \in Seq(S), NEW i \in DOMAIN s
    PROVE  s[i] \in S
OBVIOUS

\* What a run checks follows from it.
LEMMA TabInvSuffices == TabInv => WebTypeOK
<1> SUFFICES ASSUME TabInv PROVE WebTypeOK
    OBVIOUS
<1>1. \A v \in Ventures : settings[v] \in ArgOf("save")
    BY StoredType DEF TabInv, ServerOK
<1>2. \A i \in DOMAIN session : session[i] \in [who : Accounts, over : BOOLEAN]
    BY ElementOfSession DEF TabInv, StorageOK
<1>3. ASSUME NEW c \in Calls
      PROVE  /\ request[c].pc \in {"idle", "asked", "settings", "write", "answered"}
             /\ request[c].as \in 0..Len(session) /\ request[c].about \in Ventures \cup {None}
             /\ request[c].arg \in ArgOf(c) \cup {None} /\ request[c].data \in DataOf(c) \cup {None}
             /\ request[c].kind \in Kinds \cup {None}
             /\ request[c].pc # "idle" => tab.page \in PagesOf(c)
    BY DEF TabInv, CallsOK, CallOK, CallState
<1>4. nav.selected \in Ventures \cup {None} /\ nav.list \subseteq Ventures /\ board.shown \in ShownOf("list")
    BY DEF TabInv, ScreenOK, NavState, BoardState, ShownLists, ShownOf
<1> QED  BY <1>1, <1>2, <1>3, <1>4 DEF TabInv, ServerOK, StorageOK, ScreenOK, WebTypeOK

-----------------------------------------------------------------------------
(***************************************************************************)
(* What a step does to the calls and the screen                            *)
(***************************************************************************)

\* A page that loads has nothing of the one before.
LEMMA LoadOK ==
    ASSUME NEW p \in Pages, NEW v \in Ventures \cup {None}, v = None <=> p \in {"login", "dashboard"},
           NEW tok, NEW st \in Ventures \cup {None},
           Load(p, v, tok, st), session' \in Seq([who : Accounts, over : BOOLEAN]),
           tok \in 0..Len(session')
    PROVE  CallsOK' /\ ScreenOK' /\ MountsOK'
<1>1. tab' = [page |-> p, slug |-> v] /\ Len(session') \in Nat
    BY DEF Load
<1>2. ASSUME NEW c \in Calls  PROVE CallOK(c, request'[c], tab', Len(session'))
    <2>t. PICK t : t = tab'
        OBVIOUS
    <2>n. PICK n \in Nat : n = Len(session')
        BY <1>1
    <2>0. /\ t = tab' /\ n = Len(session')
          /\ t.page = p /\ t.slug = v /\ tok \in 0..n
          /\ None \in Ventures \cup {None} /\ None \in ArgOf(c) \cup {None}
        BY <1>1, <2>t, <2>n
    <2>1. CASE c = "ventures" /\ p \in Sidebars
        <3>1. request'[c] = Sent(tok, None, None)
            BY <2>1 DEF Load
        <3>2. CallOK(c, Sent(tok, None, None), t, n)
            BY <1>1, <2>0, <2>1, SentOK, CallPages
        <3> QED  BY <2>0, <3>1, <3>2
    <2>2. CASE c = "detail" /\ p = "dashboard" /\ st # None
        <3>1. request'[c] = Sent(tok, st, None)
            BY <2>2 DEF Load
        <3>2. CallOK(c, Sent(tok, st, None), t, n)
            BY <1>1, <2>0, <2>2, SentOK, CallPages
        <3> QED  BY <2>0, <3>1, <3>2
    <2>3. CASE c = "venture" /\ p \in {"manage", "invites"}
        <3>1. request'[c] = Sent(tok, v, None)
            BY <2>3 DEF Load
        <3>2. CallOK(c, Sent(tok, v, None), t, n)
            BY <1>1, <2>0, <2>3, SentOK, CallPages
        <3> QED  BY <2>0, <3>1, <3>2
    <2>4. CASE ~(c = "ventures" /\ p \in Sidebars) /\ ~(c = "detail" /\ p = "dashboard" /\ st # None)
               /\ ~(c = "venture" /\ p \in {"manage", "invites"})
        <3>1. request'[c] = NoCall
            BY <2>4 DEF Load
        <3> QED  BY <1>1, <3>1, NoCallOK
    <2> QED  BY <2>1, <2>2, <2>3, <2>4
<1>3. CallsOK'
    BY <1>2 DEF Load, CallsOK
<1>4. LoginAnew \in LoginState /\ NavAnew(st) \in NavState
    BY DEF LoginAnew, LoginState, NavAnew, NavState
<1>5. FormAnew \in FormState /\ BoardAnew \in BoardState
    BY DEF FormAnew, FormState, BoardAnew, BoardState, ShownOf
<1>6. ScreenOK'
    BY <1>1, <1>4, <1>5 DEF Load, ScreenOK, At, ShownOf
<1>7. \A c \in {"save", "list", "post", "row"} : request'[c].pc = "idle"
    BY DEF Load, Calls, NoCall
<1>8. MountsOK'
    BY <1>1, <1>7 DEF Load, MountsOK, FormAnew, BoardAnew
<1> QED  BY <1>3, <1>6, <1>8

\* The other calls are what they were.
LEMMA OneCall ==
    ASSUME NEW c \in Calls, NEW r, CallsOK, CallOK(c, r, tab, Len(session)),
           request' = [request EXCEPT ![c] = r], UNCHANGED <<tab, session>>
    PROVE  /\ CallsOK'
           /\ request'[c] = r
           /\ \A d \in Calls : d # c => request'[d] = request[d]
BY DEF CallsOK

LEMMA CallsKept ==
    ASSUME CallsOK, StorageOK, StorageOK', UNCHANGED <<request, tab>>, Len(session) <= Len(session')
    PROVE  CallsOK'
<1>1. Len(session) \in Nat /\ Len(session') \in Nat
    BY DEF StorageOK
<1> QED  BY <1>1, CallOutlasts DEF CallsOK

\* A call goes on at the gateway, and is not shown yet.
LEMMA GatewayOK ==
    ASSUME TabInv, ServerOK', NEW c \in Calls, NEW r, CallOK(c, r, tab, Len(session)),
           request[c].pc # "idle", r.pc # "idle",
           request' = [request EXCEPT ![c] = r], UNCHANGED <<storage, page>>
    PROVE  TabInv'
<1>1. CallsOK' /\ request'[c] = r /\ \A d \in Calls : d # c => request'[d] = request[d]
    BY OneCall DEF TabInv, storage, page
<1>2. ScreenOK' /\ StorageOK'
    BY DEF TabInv, ScreenOK, StorageOK, storage, page, At
<1>3. \A d \in Calls : request'[d].pc = "idle" <=> request[d].pc = "idle"
    BY <1>1
<1>4. MountsOK'
    BY <1>3 DEF TabInv, MountsOK, page, At, Calls
<1> QED  BY <1>1, <1>2, <1>4 DEF TabInv

-----------------------------------------------------------------------------
(***************************************************************************)
(* Pages that load, and the login page                                     *)
(***************************************************************************)

LEMMA GoToOK ==
    ASSUME TabInv, NEW p \in Pages, NEW v \in Ventures \cup {None}, GoTo(p, v)
    PROVE  TabInv'
<1>1. ServerOK' /\ StorageOK'
    BY DEF GoTo, TabInv, ServerOK, StorageOK, server, storage
<1>2. CallsOK' /\ ScreenOK' /\ MountsOK'
    BY <1>1, LoadOK DEF GoTo, TabInv, StorageOK, storage
<1> QED  BY <1>1, <1>2 DEF TabInv

LEMMA PickOK ==
    ASSUME TabInv, NEW v \in Ventures, Pick(v)
    PROVE  TabInv'
<1>1. ServerOK' /\ StorageOK'
    BY DEF Pick, TabInv, ServerOK, StorageOK, server
<1>2. "overview" \in Pages /\ v # None
    BY BrowserAssumption DEF Pages
<1>3. CallsOK' /\ ScreenOK' /\ MountsOK'
    BY <1>1, <1>2, LoadOK DEF Pick, TabInv, StorageOK
<1> QED  BY <1>1, <1>3 DEF TabInv

LEMMA SignOutOK ==
    ASSUME TabInv, SignOut
    PROVE  TabInv'
<1>1. ServerOK' /\ StorageOK'
    BY DEF SignOut, TabInv, ServerOK, StorageOK, server
<1>2. CallsOK' /\ ScreenOK' /\ MountsOK'
    BY <1>1, LoadOK DEF SignOut, TabInv, StorageOK, Pages
<1> QED  BY <1>1, <1>2 DEF TabInv

LEMMA SessionGrows ==
    ASSUME NEW u \in Accounts, StorageOK, session' = Append(session, [who |-> u, over |-> FALSE])
    PROVE  session' \in Seq([who : Accounts, over : BOOLEAN]) /\ Len(session') = Len(session) + 1
BY DEF StorageOK

LEMMA IssueOK ==
    ASSUME TabInv, NEW u \in Accounts, Issue(u)
    PROVE  TabInv'
<1>1. ServerOK' /\ StorageOK'
    BY SessionGrows DEF Issue, TabInv, ServerOK, StorageOK, server
<1>2. CallsOK' /\ ScreenOK' /\ MountsOK'
    BY <1>1, LoadOK DEF Issue, TabInv, StorageOK, Pages
<1> QED  BY <1>1, <1>2 DEF TabInv

LEMMA SignsOK ==
    ASSUME TabInv, At("login"), NEW l \in LoginState, Signs(l)
    PROVE  TabInv'
<1>1. ServerOK' /\ StorageOK' /\ CallsOK' /\ MountsOK'
    BY DEF Signs, others, server, storage, TabInv, ServerOK, StorageOK, CallsOK, MountsOK, At
<1>2. ScreenOK'
    BY DEF Signs, others, TabInv, ScreenOK, At
<1> QED  BY <1>1, <1>2 DEF TabInv

LEMMA LoginOK ==
    ASSUME TabInv, LoginStep
    PROVE  TabInv'
<1>0. login \in LoginState
    BY DEF TabInv, ScreenOK
<1>1. ASSUME NEW side \in {"email", "google"}, ShowPanel(side)  PROVE TabInv'
    BY <1>0, <1>1, SignsOK DEF ShowPanel, LoginState
<1>2. ASSUME NEW u \in Accounts, Submit(u)  PROVE TabInv'
    BY <1>0, <1>2, SignsOK DEF Submit, LoginState
<1>3. ASSUME NEW u \in Accounts, GooglePicked(u)  PROVE TabInv'
    BY <1>0, <1>3, SignsOK DEF GooglePicked, LoginState
<1>4. CASE PasswordTaken
    BY <1>0, <1>4, IssueOK DEF PasswordTaken, LoginState
<1>5. CASE PasswordRefused
    BY <1>0, <1>5, SignsOK DEF PasswordRefused, LoginState
<1>6. CASE ClickGoogle
    BY <1>0, <1>6, SignsOK DEF ClickGoogle, LoginState
<1>7. CASE GoogleDismissed
    BY <1>0, <1>7, SignsOK DEF GoogleDismissed, LoginState
<1>8. CASE GoogleTaken
    BY <1>0, <1>8, IssueOK DEF GoogleTaken, LoginState
<1>9. CASE GoogleRefused
    BY <1>0, <1>9, SignsOK DEF GoogleRefused, LoginState
<1> QED  BY <1>1, <1>2, <1>3, <1>4, <1>5, <1>6, <1>7, <1>8, <1>9 DEF LoginStep

-----------------------------------------------------------------------------
(***************************************************************************)
(* The gateway                                                             *)
(***************************************************************************)

LEMMA CallIs ==
    ASSUME TabInv, NEW c \in Calls
    PROVE  CallOK(c, request[c], tab, Len(session)) /\ Len(session) \in Nat
BY DEF TabInv, CallsOK, StorageOK

\* An answer that writes nothing.
LEMMA AnswersOK ==
    ASSUME TabInv, ServerOK', NEW c \in Calls, request[c].pc # "idle",
           NEW kind \in Kinds, NEW data \in DataOf(c) \cup {None},
           (kind = "data" /\ c \notin {"save", "row"}) => data \in DataOf(c),
           (kind = "data" /\ c = "venture" /\ tab.page = "manage") => data.settings \in Stored,
           Answer(c, kind, data), UNCHANGED <<storage, page>>
    PROVE  TabInv'
<1> DEFINE a == [request[c] EXCEPT !.pc = "answered", !.kind = kind, !.data = data]
<1>1. PICK n \in Nat : n = Len(session) /\ CallOK(c, request[c], tab, n)
    BY CallIs
<1>2. CallOK(c, a, tab, n)
    BY <1>1, AnswerOK
<1>3. request' = [request EXCEPT ![c] = a] /\ a.pc = "answered"
    BY <1>1 DEF Answer, TabInv, CallsOK, CallOK, CallState
<1> HIDE DEF a
<1> QED  BY <1>1, <1>2, <1>3, GatewayOK

LEMMA ServerKept == ASSUME ServerOK, UNCHANGED server PROVE ServerOK'
BY DEF ServerOK, server

LEMMA ServeVenturesOK == ASSUME TabInv, ServeVentures PROVE TabInv'
<1>1. {v \in Ventures : role[Caller("ventures")][v] # None} \in DataOf("ventures")
    BY DataTypes
<1> QED  BY <1>1, AnswersOK, ServerKept DEF ServeVentures, Calls, Kinds, TabInv

LEMMA ServeDetailOK == ASSUME TabInv, ServeDetail PROVE TabInv'
<1>1. request["detail"].about \in Ventures
    BY CallIs DEF ServeDetail, CallOK, Calls
<1>2. settings[request["detail"].about] \in DataOf("detail")
    BY <1>1, DataTypes DEF TabInv, ServerOK
<1> QED  BY <1>2, AnswersOK, ServerKept DEF ServeDetail, Calls, Kinds, TabInv

LEMMA UnauthorizedOK == ASSUME TabInv, NEW c \in Calls, Unauthorized(c) PROVE TabInv'
BY AnswersOK, ServerKept DEF Unauthorized, Kinds, TabInv

LEMMA FailOK == ASSUME TabInv, NEW c \in Calls, Fail(c) PROVE TabInv'
BY AnswersOK, ServerKept DEF Fail, Kinds, TabInv

LEMMA NotOwnerOK == ASSUME TabInv, NEW c \in Calls, NotOwner(c) PROVE TabInv'
BY AnswersOK, ServerKept DEF NotOwner, Kinds, TabInv

\* Whoever has sent a call was signed in, and has a role or none.
LEMMA CallerIs ==
    ASSUME TabInv, NEW c \in Calls, request[c].pc \in {"asked", "settings", "write"}
    PROVE  /\ Caller(c) \in Accounts
           /\ \A v \in Ventures : role[Caller(c)][v] \in Roles \cup {None}
<1>1. request[c].as \in 1..Len(session)
    BY CallIs DEF CallOK
<1>s. session \in Seq([who : Accounts, over : BOOLEAN])
    BY DEF TabInv, StorageOK
<1>d. request[c].as \in DOMAIN session
    BY <1>1, <1>s
<1>2. session[request[c].as] \in [who : Accounts, over : BOOLEAN]
    BY <1>d, <1>s, ElementOfSession
<1>3. Caller(c) \in Accounts
    BY <1>2 DEF Caller
<1> QED  BY <1>3 DEF TabInv, ServerOK

LEMMA ServeRoleOK == ASSUME TabInv, ServeRole PROVE TabInv'
<1> DEFINE r == role[Caller("venture")][request["venture"].about]
           mine == [role |-> r, settings |-> None]
           h == [request["venture"] EXCEPT !.pc = "settings", !.data = mine]
<1>1. "venture" \in Calls /\ request["venture"].pc = "asked"
    BY DEF ServeRole, Calls
<1>2. request["venture"].about \in Ventures /\ tab.page \in {"manage", "invites"}
    BY <1>1, CallIs, CallPages DEF CallOK
<1>3. mine \in DataOf("venture")
    BY <1>1, <1>2, CallerIs, DataTypes
<1>4. CASE At("invites")
    BY <1>1, <1>3, <1>4, AnswersOK, ServerKept DEF ServeRole, Kinds, TabInv, At
<1>5. CASE ~At("invites") /\ r = None
    BY <1>1, <1>5, AnswersOK, ServerKept DEF ServeRole, Kinds, TabInv
<1>6. CASE ~At("invites") /\ r # None
    <2>1. request' = [request EXCEPT !["venture"].pc = "settings", !["venture"].data = mine]
          /\ UNCHANGED <<server, storage, page>>
        BY <1>6 DEF ServeRole
    <2>2. request["venture"] \in CallState("venture") /\ DOMAIN request = Calls
        BY <1>1, CallIs DEF CallOK, TabInv, CallsOK
    <2>3. request' = [request EXCEPT !["venture"] = h]
        BY <1>1, <2>1, <2>2 DEF CallState
    <2>4. /\ h \in CallState("venture") /\ h.pc = "settings" /\ h.data = mine
          /\ h.as = request["venture"].as /\ h.about = request["venture"].about
        BY <1>3, <2>2 DEF CallState
    <2> HIDE DEF h, mine
    <2>5. PICK n \in Nat : n = Len(session) /\ CallOK("venture", request["venture"], tab, n)
        BY <1>1, CallIs
    <2>6. CallOK("venture", h, tab, n)
        BY <1>1, <1>2, <1>3, <1>6, <2>4, <2>5 DEF CallOK, At
    <2> QED  BY <1>1, <2>1, <2>3, <2>4, <2>5, <2>6, GatewayOK, ServerKept DEF TabInv
<1> QED  BY <1>4, <1>5, <1>6

LEMMA ServeSettingsOK == ASSUME TabInv, ServeSettings PROVE TabInv'
<1> DEFINE d == [request["venture"].data EXCEPT !.settings = settings[request["venture"].about]]
<1>1. "venture" \in Calls /\ request["venture"].pc = "settings"
    BY DEF ServeSettings, Calls
<1>2. request["venture"].about \in Ventures /\ request["venture"].data \in DataOf("venture")
    BY <1>1, CallIs DEF CallOK
<1>3. settings[request["venture"].about] \in Stored
    BY <1>2 DEF TabInv, ServerOK
<1>4. d \in DataOf("venture") /\ d.settings \in Stored
    <2>1. request["venture"].data \in [role : Roles \cup {None}, settings : Stored \cup {None}]
        BY <1>2, DataTypes
    <2>2. /\ d \in [role : Roles \cup {None}, settings : Stored \cup {None}]
          /\ d.settings = settings[request["venture"].about]
        BY <1>3, <2>1
    <2> QED  BY <1>3, <2>2, DataTypes
<1>5. Answer("venture", "data", d) /\ UNCHANGED <<server, storage, page>>
    BY DEF ServeSettings
<1> HIDE DEF d
<1> QED  BY <1>1, <1>4, <1>5, AnswersOK, ServerKept DEF Kinds, TabInv

LEMMA CheckOwnerOK == ASSUME TabInv, CheckOwner PROVE TabInv'
<1> DEFINE h == [request["save"] EXCEPT !.pc = "write"]
<1>1. "save" \in Calls /\ request["save"].pc = "asked"
    BY DEF CheckOwner, Calls
<1>2. CASE role[Caller("save")][request["save"].about] # "owner"
    BY <1>1, <1>2, AnswersOK, ServerKept DEF CheckOwner, Kinds, TabInv
<1>3. CASE role[Caller("save")][request["save"].about] = "owner"
    <2>1. request' = [request EXCEPT !["save"].pc = "write"] /\ UNCHANGED <<server, storage, page>>
        BY <1>3 DEF CheckOwner
    <2>2. request["save"] \in CallState("save") /\ DOMAIN request = Calls
        BY <1>1, CallIs DEF CallOK, TabInv, CallsOK
    <2>3. request' = [request EXCEPT !["save"] = h]
        BY <1>1, <2>1, <2>2 DEF CallState
    <2>4. /\ h \in CallState("save") /\ h.pc = "write" /\ h.arg = request["save"].arg
          /\ h.as = request["save"].as /\ h.about = request["save"].about
        BY <2>2 DEF CallState
    <2> HIDE DEF h
    <2>5. PICK n \in Nat : n = Len(session) /\ CallOK("save", request["save"], tab, n)
        BY <1>1, CallIs
    <2>6. CallOK("save", h, tab, n)
        BY <1>1, <2>4, <2>5 DEF CallOK
    <2> QED  BY <1>1, <2>1, <2>3, <2>4, <2>5, <2>6, GatewayOK, ServerKept DEF TabInv
<1> QED  BY <1>2, <1>3

LEMMA WriteSettingsOK == ASSUME TabInv, WriteSettings PROVE TabInv'
<1>1. "save" \in Calls /\ request["save"].pc = "write"
    BY DEF WriteSettings, Calls
<1>2. request["save"].about \in Ventures /\ request["save"].arg \in Stored
    BY <1>1, CallIs, StoredType DEF CallOK
<1>3. ServerOK'
    BY <1>2 DEF WriteSettings, TabInv, ServerOK
<1> QED  BY <1>1, <1>3, AnswersOK DEF WriteSettings, Kinds

LEMMA ServeListOK == ASSUME TabInv, ServeList PROVE TabInv'
<1>1. {i \in invite : i.slug = request["list"].about} \in DataOf("list")
    BY DataTypes DEF TabInv, ServerOK
<1> QED  BY <1>1, AnswersOK, ServerKept DEF ServeList, OwnerAsks, Calls, Kinds, TabInv

\* An invite that is made, and the one it is made of.
LEMMA CreateOK ==
    ASSUME TabInv, NEW v \in Ventures, NEW e \in Invitees, NEW r \in Offers, Create(v, e, r)
    PROVE  /\ invite' \subseteq Invite /\ minted' \in 0..MaxInvites
           /\ \E i \in invite' : i.slug = v /\ i.email = e
<1> DEFINE old == {i \in invite : i.slug = v /\ i.email = e}
<1>1. invite \subseteq Invite /\ minted \in 0..MaxInvites /\ MaxInvites \in Nat
    BY BrowserAssumption DEF TabInv, ServerOK
<1>2. CASE old = {}
    <2> DEFINE new == [id |-> minted', slug |-> v, email |-> e, role |-> r,
                       accepted |-> FALSE, revoked |-> FALSE]
    <2>1. minted < MaxInvites /\ minted' = minted + 1 /\ invite' = invite \cup {new}
        BY <1>2 DEF Create
    <2>2. new \in Invite /\ new.slug = v /\ new.email = e
        BY <1>1, <2>1 DEF Invite
    <2> HIDE DEF new
    <2> QED  BY <1>1, <2>1, <2>2
<1>3. CASE old # {}
    <2>1. invite' = (invite \ old) \cup {[i EXCEPT !.revoked = FALSE, !.role = r] : i \in old}
          /\ minted' = minted
        BY <1>3 DEF Create
    <2>2. PICK j \in old : TRUE
        BY <1>3
    <2>3. ASSUME NEW i \in old
          PROVE  /\ [i EXCEPT !.revoked = FALSE, !.role = r] \in Invite
                 /\ [i EXCEPT !.revoked = FALSE, !.role = r].slug = v
                 /\ [i EXCEPT !.revoked = FALSE, !.role = r].email = e
        BY <1>1 DEF Invite
    <2> HIDE DEF old
    <2> QED  BY <1>1, <2>1, <2>2, <2>3
<1> QED  BY <1>2, <1>3

LEMMA ServePostOK == ASSUME TabInv, ServePost PROVE TabInv'
<1> DEFINE c == request["post"]
           made == CHOOSE i \in invite' : i.slug = c.about /\ i.email = c.arg.email
<1>1. "post" \in Calls /\ c.pc = "asked"
    BY DEF ServePost, OwnerAsks, Calls
<1>2. c.about \in Ventures /\ c.arg \in ArgOf("post")
    BY <1>1, CallIs DEF CallOK
<1>a. c.arg.email \in Invitees /\ c.arg.role \in Offers
    <2>1. c.arg \in [email : Invitees, role : Offers]
        BY <1>2, ArgTypes
    <2> QED  BY <2>1
<1>3. Create(c.about, c.arg.email, c.arg.role)
    BY DEF ServePost
<1> HIDE DEF c
<1>4. /\ invite' \subseteq Invite /\ minted' \in 0..MaxInvites
      /\ \E i \in invite' : i.slug = c.about /\ i.email = c.arg.email
    BY <1>2, <1>a, <1>3, CreateOK
<1>5. ServerOK'
    BY <1>4 DEF ServePost, TabInv, ServerOK
<1>6. made \in invite'
    BY <1>4
<1>7. made.id \in DataOf("post")
    BY <1>4, <1>6, DataTypes DEF Invite
<1> QED  BY <1>1, <1>5, <1>7, AnswersOK DEF ServePost, Kinds, c

LEMMA ServeConflictOK == ASSUME TabInv, ServeConflict PROVE TabInv'
BY AnswersOK, ServerKept DEF ServeConflict, OwnerAsks, Calls, Kinds, TabInv

LEMMA ServeRowOK == ASSUME TabInv, ServeRow PROVE TabInv'
<1>1. "row" \in Calls /\ request["row"].pc = "asked"
    BY DEF ServeRow, OwnerAsks, Calls
<1>2. \A i \in Invite : [i EXCEPT !.revoked = TRUE] \in Invite
    BY DEF Invite
<1>3. PICK hit \in SUBSET invite :
          invite' = (invite \ hit) \cup
             IF request["row"].arg.op = "revoke" THEN {[i EXCEPT !.revoked = TRUE] : i \in hit} ELSE {}
    BY DEF ServeRow, Revocable, Deletable
<1>4. invite' \subseteq Invite
    BY <1>2, <1>3 DEF TabInv, ServerOK
<1>5. ServerOK'
    BY <1>4 DEF ServeRow, TabInv, ServerOK
<1> QED  BY <1>1, <1>5, AnswersOK DEF ServeRow, Kinds

LEMMA GatewayStepOK ==
    ASSUME TabInv, GatewayStep
    PROVE  TabInv'
<1>1. {"list", "post", "row"} \subseteq Calls
    BY DEF Calls
<1> QED  BY <1>1, ServeVenturesOK, ServeDetailOK, ServeRoleOK, ServeSettingsOK, CheckOwnerOK,
            WriteSettingsOK, ServeListOK, ServePostOK, ServeConflictOK, ServeRowOK,
            UnauthorizedOK, FailOK, NotOwnerOK DEF GatewayStep

-----------------------------------------------------------------------------
(***************************************************************************)
(* What is shown, typed and pressed                                        *)
(***************************************************************************)

\* What is shown of an answer about a venture.
LEMMA ShownOK ==
    ASSUME TabInv, NEW c \in {"detail", "venture", "list"}, request[c].pc = "answered"
    PROVE  /\ Shown(c) \in Answered(c)
           /\ Shown(c).about = request[c].about
           /\ Shown(c).kind = request[c].kind
           /\ Shown(c).data = request[c].data
           /\ request[c].kind = "data" => request[c].data \in DataOf(c)
<1>1. /\ request[c].about \in Ventures /\ request[c].kind \in Kinds
      /\ request[c].data \in DataOf(c) \cup {None}
      /\ request[c].kind = "data" => request[c].data \in DataOf(c)
    BY CallIs DEF CallOK, CallState, Calls
<1> QED  BY <1>1 DEF Shown, Answered

LEMMA NoCallHere == \A c \in Calls : CallOK(c, NoCall, tab, Len(session)) \/ Len(session) \notin Nat
BY NoCallOK

\* On this page, a request with the token of the moment.
LEMMA SentHere ==
    ASSUME TabInv, NEW c \in Calls, NEW about \in Ventures, NEW arg \in ArgOf(c) \cup {None},
           tab.page \in PagesOf(c), c # "detail" => about = tab.slug,
           c \in {"save", "post", "row"} => arg \in ArgOf(c)
    PROVE  CallOK(c, Sent(token, about, arg), tab, Len(session))
<1>1. PICK n \in Nat : n = Len(session) /\ token \in 0..n
    BY DEF TabInv, StorageOK
<1>2. PICK t, tok : t = tab /\ tok = token
    OBVIOUS
<1>3. tok \in 0..n /\ t.page \in PagesOf(c) /\ (c # "detail" => about = t.slug)
    BY <1>1, <1>2
<1>4. CallOK(c, Sent(tok, about, arg), t, n)
    BY <1>3, SentOK
<1> QED  BY <1>1, <1>2, <1>4

LEMMA VenturesShownOK == ASSUME TabInv, VenturesShown PROVE TabInv'
<1> DEFINE list == request["ventures"].data
<1>1. /\ {"ventures", "detail"} \subseteq Calls /\ Len(session) \in Nat
      /\ request["ventures"].pc = "answered" /\ request["ventures"].kind = "data"
    BY CallIs DEF VenturesShown, Calls
<1>2. list \in SUBSET Ventures
    BY <1>1, CallIs, DataTypes DEF CallOK
<1>3. PICK sel \in Selects(list) :
          /\ nav' = [selected |-> sel, kind |-> "data", list |-> list]
          /\ stored' = IF nav.selected \in list THEN stored ELSE sel
          /\ request' = [request EXCEPT !["ventures"] = NoCall,
                                        !["detail"] = Follows(sel, request["detail"])]
          /\ detail' = IF sel = None THEN None ELSE detail
    BY <1>1 DEF VenturesShown, TabInv, CallsOK
<1>4. UNCHANGED <<server, session, moves, token, tab, login, venture, form, board>>
    BY DEF VenturesShown
<1>5. sel \in Ventures \cup {None}
    BY <1>2, <1>3 DEF Selects
<1> HIDE DEF list
<1>6. CallOK("detail", Follows(sel, request["detail"]), tab, Len(session))
    <2>1. CASE Follows(sel, request["detail"]) = request["detail"]
        BY <1>1, <2>1, CallIs
    <2>2. CASE Follows(sel, request["detail"]) = NoCall
        BY <1>1, <2>2, NoCallHere
    <2>3. CASE At("dashboard") /\ sel # None /\ Follows(sel, request["detail"]) = Sent(token, sel, None)
        <3>1. sel \in Ventures /\ tab.page \in PagesOf("detail") /\ None \in ArgOf("detail") \cup {None}
            BY <1>5, <2>3, CallPages DEF At
        <3>2. CallOK("detail", Sent(token, sel, None), tab, Len(session))
            BY <1>1, <3>1, SentHere
        <3> QED  BY <2>3, <3>2
    <2> QED  BY <2>1, <2>2, <2>3 DEF Follows
<1>7. /\ CallsOK' /\ \A c \in Calls : c \notin {"ventures", "detail"} => request'[c] = request[c]
    <2>1. CallOK("ventures", NoCall, tab, Len(session))
        BY <1>1, NoCallHere
    <2> QED  BY <1>1, <1>3, <1>4, <1>6, <2>1 DEF TabInv, CallsOK
<1>8. ServerOK' /\ StorageOK'
    BY <1>3, <1>4, <1>5 DEF TabInv, ServerOK, StorageOK, server
<1>9. ScreenOK'
    BY <1>2, <1>3, <1>4, <1>5 DEF TabInv, ScreenOK, NavState, Kinds, At, ShownOf
<1>10. MountsOK'
    BY <1>4, <1>7 DEF TabInv, MountsOK, At, Calls
<1> QED  BY <1>7, <1>8, <1>9, <1>10 DEF TabInv

LEMMA VenturesNotShownOK == ASSUME TabInv, VenturesNotShown PROVE TabInv'
<1>1. "ventures" \in Calls /\ Len(session) \in Nat /\ request["ventures"].pc = "answered"
    BY CallIs DEF VenturesNotShown, Calls
<1>2. CallsOK' /\ \A c \in Calls : c # "ventures" => request'[c] = request[c]
    BY <1>1, NoCallHere, OneCall DEF VenturesNotShown, TabInv, storage
<1>3. request["ventures"].kind \in Kinds
    BY <1>1, CallIs DEF CallOK
<1>4. ServerOK' /\ StorageOK'
    BY DEF VenturesNotShown, TabInv, ServerOK, StorageOK, server, storage
<1>5. ScreenOK'
    BY <1>3 DEF VenturesNotShown, TabInv, ScreenOK, NavState, At
<1>6. MountsOK'
    BY <1>2 DEF VenturesNotShown, TabInv, MountsOK, At, Calls
<1> QED  BY <1>2, <1>4, <1>5, <1>6 DEF TabInv

LEMMA DetailShownOK == ASSUME TabInv, DetailShown PROVE TabInv'
<1>1. "detail" \in Calls /\ Len(session) \in Nat /\ request["detail"].pc = "answered"
    BY CallIs DEF DetailShown, Calls
<1>2. CallsOK' /\ \A c \in Calls : c # "detail" => request'[c] = request[c]
    BY <1>1, NoCallHere, OneCall DEF DetailShown, TabInv, storage
<1>3. Shown("detail") \in ShownOf("detail") /\ At("dashboard")
    BY <1>1, ShownOK, CallIs, CallPages DEF CallOK, ShownOf, At
<1>4. ServerOK' /\ StorageOK'
    BY DEF DetailShown, TabInv, ServerOK, StorageOK, server, storage
<1>5. ScreenOK'
    BY <1>3 DEF DetailShown, TabInv, ScreenOK, At
<1>6. MountsOK'
    BY <1>2 DEF DetailShown, TabInv, MountsOK, At, Calls
<1> QED  BY <1>2, <1>4, <1>5, <1>6 DEF TabInv

\* Whole units and cents.
LEMMA Units ==
    ASSUME NEW d \in Nat
    PROVE  d \div CentsPerUnit \in Nat /\ d * CentsPerUnit \in Nat
<1>1. CentsPerUnit \in Nat \ {0}
    BY BrowserAssumption
<1>2. d \div CentsPerUnit \in Nat
    BY <1>1
<1>3. d * CentsPerUnit \in Nat
    BY <1>1
<1> QED  BY <1>2, <1>3

\* The form fills with what is stored, in whole units.
LEMMA FilledOK ==
    ASSUME NEW s \in Stored
    PROVE  /\ Filled(s) \in FormState /\ Filled(s).mounted
           /\ Filled(s).text \in Stored /\ Filled(s).text = TextOf(s)
           /\ Filled(s).base = s /\ Filled(s).sent = None /\ Filled(s).edited = {}
<1>1. s.dues \in Nat
    BY DEF Stored
<1>2. s.dues \div CentsPerUnit \in Nat
    BY <1>1, Units
<1>3. TextOf(s) \in Stored
    BY <1>2 DEF TextOf, Stored
<1>4. FormAnew \in FormState /\ FormAnew.sent = None /\ FormAnew.edited = {}
    BY DEF FormAnew, FormState
<1> QED  BY <1>3, <1>4 DEF Filled, FormState

LEMMA ManageShownOK == ASSUME TabInv, ManageShown PROVE TabInv'
<1>1. /\ {"venture", "save"} \subseteq Calls /\ Len(session) \in Nat
      /\ request["venture"].pc = "answered" /\ At("manage")
    BY CallIs DEF ManageShown, Calls
<1>2. /\ venture' = Shown("venture") /\ venture' \in ShownOf("venture")
      /\ venture'.kind = "data" => venture'.data.settings \in Stored
    BY <1>1, ShownOK, CallIs DEF ManageShown, ShownOf, CallOK, At
<1>3. UNCHANGED <<server, storage, tab, login, nav, detail, board>>
    BY DEF ManageShown, rest
<1>4. form' = IF form'.mounted THEN IF form.mounted THEN form ELSE Filled(venture'.data.settings)
              ELSE FormAnew
    BY <1>2, FilledOK DEF ManageShown, FormAnew
<1>5. form'.mounted /\ ~form.mounted => venture'.data.settings \in Stored
    BY <1>2 DEF ManageShown, FormAnew
<1>6. /\ CallsOK'
      /\ request'["save"] = IF form'.mounted THEN request["save"] ELSE NoCall
      /\ request'["venture"] = NoCall
      /\ \A c \in Calls : c \notin {"venture", "save"} => request'[c] = request[c]
    <2> DEFINE y == IF form'.mounted THEN request["save"] ELSE NoCall
    <2>1. request' = [request EXCEPT !["venture"] = NoCall, !["save"] = y]
        BY <1>1 DEF ManageShown, TabInv, CallsOK
    <2>2. CallOK("save", y, tab, Len(session))
        BY <1>1, CallIs, NoCallHere
    <2> HIDE DEF y
    <2>3. CallOK("venture", NoCall, tab, Len(session))
        BY <1>1, NoCallHere
    <2>4. UNCHANGED <<tab, session>>
        BY <1>3 DEF storage
    <2>5. /\ CallsOK' /\ request'["venture"] = NoCall /\ request'["save"] = y
          /\ \A c \in Calls : c \notin {"venture", "save"} => request'[c] = request[c]
        BY <1>1, <2>1, <2>2, <2>3, <2>4 DEF TabInv, CallsOK
    <2> QED  BY <2>5 DEF y
<1>7. ServerOK' /\ StorageOK'
    BY <1>3 DEF TabInv, ServerOK, StorageOK, server, storage
<1>8. form' \in FormState /\ At("manage")'
    <2>1. FormAnew \in FormState /\ form \in FormState
        BY DEF FormAnew, FormState, TabInv, ScreenOK
    <2> QED  BY <1>1, <1>3, <1>4, <1>5, <2>1, FilledOK DEF At
<1>9. ScreenOK'
    BY <1>2, <1>3, <1>8 DEF TabInv, ScreenOK, At
<1>10. /\ ~form'.mounted => form' = FormAnew /\ request'["save"].pc = "idle"
       /\ form'.mounted => form'.text \in Stored /\ form'.base \in Stored
       /\ IF request'["save"].pc = "idle" THEN form'.sent = None ELSE form'.sent \in Saves
    BY <1>4, <1>5, <1>6, FilledOK DEF TabInv, MountsOK, NoCall, FormAnew
<1>11. MountsOK'
    BY <1>3, <1>6, <1>10 DEF TabInv, MountsOK, NoCall, At, Calls
<1> QED  BY <1>6, <1>7, <1>9, <1>11 DEF TabInv

LEMMA EditOK == ASSUME TabInv, NEW f \in Fields, NEW value \in Typed(f), Edit(f, value) PROVE TabInv'
<1>1. form.mounted /\ form.text \in Stored /\ form \in FormState /\ At("manage")
    BY DEF Edit, TabInv, MountsOK, ScreenOK, FormAnew
<1>2. form' = [form EXCEPT !.text[f] = value, !.edited = form.edited \cup {f}]
    BY DEF Edit
<1>3. [form.text EXCEPT ![f] = value] \in Stored
    <2>1. CASE f = "name"
        BY <1>1, <2>1 DEF Typed, Stored
    <2>2. CASE f = "cadence"
        BY <1>1, <2>2 DEF Typed, Stored
    <2>3. CASE f = "dues"
        <3>1. \A d \in Dues : d \div CentsPerUnit \in Nat
            BY Units, BrowserAssumption
        <3>2. value \in Nat
            BY <2>3, <3>1 DEF Typed
        <3> QED  BY <1>1, <2>3, <3>2 DEF Stored
    <2> QED  BY <2>1, <2>2, <2>3 DEF Fields
<1>4. /\ form' \in FormState /\ form'.mounted /\ form'.text \in Stored
      /\ form'.base = form.base /\ form'.sent = form.sent
    BY <1>1, <1>2, <1>3 DEF FormState
<1>5. UNCHANGED <<server, storage, tab, login, nav, detail, request, venture, board>>
    BY DEF Edit, rest
<1>6. ServerOK' /\ StorageOK' /\ CallsOK'
    BY <1>5 DEF TabInv, ServerOK, StorageOK, CallsOK, server, storage
<1>7. ScreenOK'
    BY <1>1, <1>4, <1>5 DEF TabInv, ScreenOK, At
<1>8. MountsOK'
    BY <1>1, <1>4, <1>5 DEF TabInv, MountsOK, At
<1> QED  BY <1>6, <1>7, <1>8 DEF TabInv

LEMMA PressSaveOK == ASSUME TabInv, PressSave PROVE TabInv'
<1> DEFINE all == [form.text EXCEPT !.dues = @ * CentsPerUnit]
<1>1. /\ form.mounted /\ form.text \in Stored /\ form.base \in Stored
      /\ form \in FormState /\ At("manage") /\ tab.slug \in Ventures
    BY DEF PressSave, TabInv, MountsOK, ScreenOK, FormAnew, At
<1>2. all \in Stored
    <2>0. form.text.dues \in Nat
        BY <1>1 DEF Stored
    <2>1. form.text.dues * CentsPerUnit \in Nat
        BY <2>0, Units
    <2> QED  BY <1>1, <2>1 DEF Stored
<1>3. /\ form' = [form EXCEPT !.sent = [all |-> all, edited |-> form.edited], !.edited = {}]
      /\ request' = [request EXCEPT !["save"] = Sent(token, tab.slug, all)]
      /\ UNCHANGED <<server, storage, tab, login, nav, detail, venture, board>>
    BY DEF PressSave, rest
<1> HIDE DEF all
<1>4. /\ form' \in FormState /\ form'.mounted /\ form'.text = form.text
      /\ form'.base = form.base /\ form'.sent \in Saves
    BY <1>1, <1>2, <1>3, StoredType DEF FormState
<1>5. "save" \in Calls /\ tab.page \in PagesOf("save")
    BY <1>1, CallPages DEF Calls, At
<1>6. /\ CallsOK' /\ request'["save"].pc # "idle"
      /\ \A c \in Calls : c # "save" => request'[c] = request[c]
    <2> DEFINE y == Sent(token, tab.slug, all)
    <2>1. CallOK("save", y, tab, Len(session)) /\ y.pc # "idle"
        BY <1>1, <1>2, <1>5, SentHere, SentIs, StoredType
    <2> HIDE DEF y
    <2> QED  BY <1>3, <1>5, <2>1 DEF TabInv, CallsOK, storage, y
<1>7. ServerOK' /\ StorageOK'
    BY <1>3 DEF TabInv, ServerOK, StorageOK, server, storage
<1>8. ScreenOK'
    BY <1>1, <1>3, <1>4 DEF TabInv, ScreenOK, At
<1>9. MountsOK'
    BY <1>1, <1>3, <1>4, <1>6 DEF TabInv, MountsOK, At, Calls
<1> QED  BY <1>6, <1>7, <1>8, <1>9 DEF TabInv

LEMMA SaveToldOK == ASSUME TabInv, SaveTold PROVE TabInv'
<1>1. /\ {"venture", "save"} \subseteq Calls /\ Len(session) \in Nat
      /\ request["save"].pc = "answered"
    BY CallIs DEF SaveTold, Calls
<1>2. /\ form.mounted /\ form.sent \in Saves /\ form.text \in Stored
      /\ form.base \in Stored /\ form \in FormState
      /\ At("manage") /\ tab.slug \in Ventures
    BY <1>1 DEF TabInv, MountsOK, ScreenOK, FormAnew, At
<1>3. /\ form' \in FormState /\ form'.mounted /\ form'.text = form.text
      /\ form'.base \in Stored /\ form'.sent = None
    BY <1>2, StoredType DEF SaveTold, FormState
<1>4. UNCHANGED <<server, storage, tab, login, nav, detail, venture, board>>
    BY DEF SaveTold, rest
<1> DEFINE y == IF request["save"].kind = "data" THEN Sent(token, tab.slug, None) ELSE request["venture"]
<1>5. request' = [request EXCEPT !["save"] = NoCall, !["venture"] = y]
    BY <1>1 DEF SaveTold, TabInv, CallsOK
<1>6. CallOK("venture", y, tab, Len(session)) /\ CallOK("save", NoCall, tab, Len(session))
    <2>1. CallOK("venture", Sent(token, tab.slug, None), tab, Len(session))
        BY <1>1, <1>2, SentHere, CallPages DEF At
    <2> QED  BY <1>1, <2>1, CallIs, NoCallHere
<1> HIDE DEF y
<1>7. /\ CallsOK' /\ request'["save"] = NoCall
      /\ \A c \in Calls : c \notin {"venture", "save"} => request'[c] = request[c]
    BY <1>1, <1>4, <1>5, <1>6 DEF TabInv, CallsOK, storage
<1>8. ServerOK' /\ StorageOK'
    BY <1>4 DEF TabInv, ServerOK, StorageOK, server, storage
<1>9. ScreenOK'
    BY <1>2, <1>3, <1>4 DEF TabInv, ScreenOK, At
<1>10. MountsOK'
    BY <1>2, <1>3, <1>4, <1>7 DEF TabInv, MountsOK, NoCall, At, Calls
<1> QED  BY <1>7, <1>8, <1>9, <1>10 DEF TabInv

LEMMA OwnerShownOK == ASSUME TabInv, OwnerShown PROVE TabInv'
<1> DEFINE owner == venture'.kind = "data" /\ venture'.data.role = "owner"
           y == IF owner THEN Sent(token, tab.slug, None) ELSE NoCall
<1>1. /\ {"venture", "list"} \subseteq Calls /\ Len(session) \in Nat
      /\ request["venture"].pc = "answered" /\ At("invites") /\ tab.slug \in Ventures
    BY CallIs DEF OwnerShown, Calls, TabInv, ScreenOK, At
<1>2. venture' = Shown("venture") /\ venture' \in ShownOf("venture")
    BY <1>1, ShownOK DEF OwnerShown, ShownOf
<1>3. /\ board' = [BoardAnew EXCEPT !.mounted = owner]
      /\ request' = [request EXCEPT !["venture"] = NoCall, !["list"] = y]
      /\ UNCHANGED <<server, storage, tab, login, nav, detail, form>>
    BY DEF OwnerShown, rest
<1>4. CallOK("list", y, tab, Len(session)) /\ CallOK("venture", NoCall, tab, Len(session))
    <2>1. CallOK("list", Sent(token, tab.slug, None), tab, Len(session))
        BY <1>1, SentHere, CallPages DEF At
    <2> QED  BY <1>1, <2>1, NoCallHere
<1>5. owner \in BOOLEAN /\ (~owner => y.pc = "idle")
    BY DEF NoCall
<1> HIDE DEF y, owner
<1>6. /\ CallsOK' /\ request'["venture"] = NoCall /\ request'["list"] = y
      /\ \A c \in Calls : c \notin {"venture", "list"} => request'[c] = request[c]
    BY <1>1, <1>3, <1>4 DEF TabInv, CallsOK, storage
<1>7. ServerOK' /\ StorageOK'
    BY <1>3 DEF TabInv, ServerOK, StorageOK, server, storage
<1>8. board' \in BoardState /\ board'.mounted = owner /\ (~owner => board' = BoardAnew)
    BY <1>3, <1>5 DEF BoardAnew, BoardState, ShownOf
<1>9. ScreenOK'
    BY <1>1, <1>2, <1>3, <1>8 DEF TabInv, ScreenOK, At
<1>10. ~board.mounted /\ \A c \in {"list", "post", "row"} : request[c].pc = "idle"
    BY <1>1 DEF TabInv, MountsOK
<1>11. \A c \in {"post", "row", "save"} : request'[c] = request[c]
    BY <1>6 DEF Calls
<1>12. MountsOK'
    BY <1>1, <1>3, <1>5, <1>6, <1>8, <1>10, <1>11 DEF TabInv, MountsOK, NoCall, At
<1> QED  BY <1>6, <1>7, <1>9, <1>12 DEF TabInv

\* On the invites page, once an owner has it.
LEMMA BoardIs ==
    ASSUME TabInv, board.mounted \/ \E c \in {"list", "post", "row"} : request[c].pc # "idle"
    PROVE  /\ At("invites") /\ tab.slug \in Ventures /\ board.mounted
           /\ request["venture"].pc = "idle" /\ board \in BoardState /\ Len(session) \in Nat
BY DEF TabInv, MountsOK, ScreenOK, StorageOK, At, BoardAnew

\* A step of the invites page leaves the invariant true if the calls and the
\* board it leaves go together.
LEMMA BoardStepOK ==
    ASSUME TabInv, board.mounted, CallsOK', board' \in BoardState, board'.mounted,
           \A c \in Calls : c \notin {"list", "post", "row"} => request'[c] = request[c],
           request'["post"].pc # "idle" => board'.sent \in SentInvites,
           UNCHANGED <<rest, venture, form>>
    PROVE  TabInv'
<1>1. At("invites") /\ request["venture"].pc = "idle"
    BY BoardIs
<1>2. ServerOK' /\ StorageOK'
    BY DEF TabInv, ServerOK, StorageOK, server, storage, rest
<1>3. ScreenOK'
    BY <1>1 DEF TabInv, ScreenOK, At, rest
<1>4. request'["save"] = request["save"] /\ request'["venture"] = request["venture"]
    BY DEF Calls
<1>5. MountsOK'
    BY <1>1, <1>4 DEF TabInv, MountsOK
<1> QED  BY <1>2, <1>3, <1>5 DEF TabInv

LEMMA ListShownOK == ASSUME TabInv, ListShown PROVE TabInv'
<1> DEFINE rows == IF request["list"].kind = "data" THEN {i.id : i \in request["list"].data} ELSE {}
           y == IF request["row"].pc # "idle" /\ request["row"].arg.id \notin rows
                THEN NoCall ELSE request["row"]
<1>1. /\ {"list", "row"} \subseteq Calls /\ request["list"].pc = "answered"
      /\ board.mounted /\ board \in BoardState /\ Len(session) \in Nat
    BY BoardIs DEF ListShown, Calls
<1>2. board' = [board EXCEPT !.shown = Shown("list")] /\ UNCHANGED <<rest, venture, form>>
    BY DEF ListShown
<1>3. request' = [request EXCEPT !["list"] = NoCall, !["row"] = y]
    BY <1>1 DEF ListShown, TabInv, CallsOK
<1>4. CallOK("list", NoCall, tab, Len(session)) /\ CallOK("row", y, tab, Len(session))
    BY <1>1, NoCallHere, CallIs
<1> HIDE DEF y
<1>5. CallsOK' /\ \A c \in Calls : c \notin {"list", "row"} => request'[c] = request[c]
    BY <1>1, <1>2, <1>3, <1>4 DEF TabInv, CallsOK, storage, rest
<1>6. board' \in BoardState /\ board'.mounted /\ board'.sent = board.sent
    <2>1. Shown("list") \in ShownLists
        BY <1>1, ShownOK, DataTypes DEF ShownLists
    <2> QED  BY <1>1, <1>2, <2>1 DEF BoardState
<1>7. request'["post"] = request["post"]
    BY <1>5 DEF Calls
<1> QED  BY <1>1, <1>2, <1>5, <1>6, <1>7, BoardStepOK DEF TabInv, MountsOK

LEMMA PressSendOK ==
    ASSUME TabInv, NEW e \in Invitees, NEW r \in Offers, PressSend(e, r)
    PROVE  TabInv'
<1> DEFINE y == Sent(token, tab.slug, [email |-> e, role |-> r])
<1>1. /\ "post" \in Calls /\ board.mounted /\ board \in BoardState /\ Len(session) \in Nat
      /\ At("invites") /\ tab.slug \in Ventures
    BY BoardIs DEF PressSend, Calls
<1>2. /\ board' = [board EXCEPT !.sent = [email |-> e, role |-> r, now |-> r], !.told = None]
      /\ request' = [request EXCEPT !["post"] = y] /\ UNCHANGED <<rest, venture, form>>
    BY DEF PressSend
<1>3. CallOK("post", y, tab, Len(session))
    BY <1>1, SentHere, CallPages, ArgTypes DEF At
<1> HIDE DEF y
<1>4. CallsOK' /\ \A c \in Calls : c # "post" => request'[c] = request[c]
    BY <1>1, <1>2, <1>3 DEF TabInv, CallsOK, storage, rest
<1>5. board' \in BoardState /\ board'.mounted /\ board'.sent \in SentInvites
    BY <1>1, <1>2 DEF BoardState, SentInvites
<1> QED  BY <1>1, <1>2, <1>4, <1>5, BoardStepOK

LEMMA PickRoleOK == ASSUME TabInv, NEW r \in Offers, PickRole(r) PROVE TabInv'
<1>1. board.sent # None /\ board.mounted /\ board \in BoardState
    BY BoardIs DEF PickRole, TabInv, MountsOK, BoardAnew
<1>2. /\ board' = [board EXCEPT !.sent.now = r]
      /\ UNCHANGED <<rest, request, venture, form>>
    BY DEF PickRole
<1>3. board.sent \in SentInvites
    BY <1>1 DEF BoardState
<1>4. board' \in BoardState /\ board'.mounted /\ board'.sent \in SentInvites
    BY <1>1, <1>2, <1>3 DEF BoardState, SentInvites
<1>5. CallsOK'
    BY <1>2 DEF TabInv, CallsOK, storage, rest
<1> QED  BY <1>1, <1>2, <1>4, <1>5, BoardStepOK

LEMMA ListAgainOK ==
    ASSUME TabInv, board.mounted
    PROVE  /\ CallOK("list", ListAgain(request["list"]), tab, Len(session))
           /\ CallOK("list", request["list"], tab, Len(session))
<1>1. At("invites") /\ tab.slug \in Ventures /\ "list" \in Calls
    BY BoardIs DEF Calls
<1> QED  BY <1>1, SentHere, CallIs, CallPages DEF At, ListAgain

LEMMA SendToldOK == ASSUME TabInv, SendTold PROVE TabInv'
<1> DEFINE y == IF request["post"].kind = "data" THEN ListAgain(request["list"]) ELSE request["list"]
<1>1. /\ {"post", "list"} \subseteq Calls /\ request["post"].pc = "answered"
      /\ board.mounted /\ board \in BoardState /\ Len(session) \in Nat /\ board.sent \in SentInvites
    BY BoardIs DEF SendTold, Calls, TabInv, MountsOK
<1>2. request["post"].kind = "data" => request["post"].data \in 1..MaxInvites
    BY <1>1, CallIs, DataTypes DEF CallOK
<1>3. request' = [request EXCEPT !["post"] = NoCall, !["list"] = y]
    BY <1>1 DEF SendTold, TabInv, CallsOK
<1>4. CallOK("post", NoCall, tab, Len(session)) /\ CallOK("list", y, tab, Len(session))
    BY <1>1, NoCallHere, ListAgainOK
<1> HIDE DEF y
<1>5. UNCHANGED <<rest, venture, form>>
    BY DEF SendTold
<1>6. /\ CallsOK' /\ request'["post"] = NoCall
      /\ \A c \in Calls : c \notin {"list", "post"} => request'[c] = request[c]
    BY <1>1, <1>3, <1>4, <1>5 DEF TabInv, CallsOK, storage, rest
<1>7. board' \in BoardState /\ board'.mounted
    BY <1>1, <1>2 DEF SendTold, BoardState, SentInvites
<1> QED  BY <1>1, <1>5, <1>6, <1>7, BoardStepOK DEF NoCall

LEMMA PressRowOK ==
    ASSUME TabInv, NEW op \in {"revoke", "delete"}, NEW i, PressRow(op, i)
    PROVE  TabInv'
<1> DEFINE y == Sent(token, tab.slug, [op |-> op, id |-> i.id])
<1>1. /\ board.shown # None /\ board.shown.kind = "data" /\ i \in board.shown.data
      /\ request' = [request EXCEPT !["row"] = y] /\ UNCHANGED <<rest, venture, form, board>>
    BY DEF PressRow
<1>2. board.mounted
    BY <1>1 DEF TabInv, MountsOK, BoardAnew
<1>3. /\ board \in BoardState /\ Len(session) \in Nat /\ "row" \in Calls
      /\ At("invites") /\ tab.slug \in Ventures
    BY <1>2, BoardIs DEF Calls
<1>4. i \in Invite
    <2>1. board.shown \in ShownLists
        BY <1>1, <1>3 DEF BoardState
    <2> QED  BY <1>1, <2>1 DEF ShownLists
<1>5. [op |-> op, id |-> i.id] \in ArgOf("row")
    BY <1>4, ArgTypes DEF Invite
<1>6. CallOK("row", y, tab, Len(session))
    BY <1>3, <1>5, SentHere, CallPages DEF At
<1> HIDE DEF y
<1>7. CallsOK' /\ \A c \in Calls : c # "row" => request'[c] = request[c]
    BY <1>1, <1>3, <1>6 DEF TabInv, CallsOK, storage, rest
<1>8. request'["post"] = request["post"]
    BY <1>7 DEF Calls
<1> QED  BY <1>1, <1>2, <1>3, <1>7, <1>8, BoardStepOK DEF TabInv, MountsOK

LEMMA RowToldOK == ASSUME TabInv, RowTold PROVE TabInv'
<1> DEFINE y == IF request["row"].kind = "data" THEN ListAgain(request["list"]) ELSE request["list"]
<1>1. /\ {"row", "list"} \subseteq Calls /\ request["row"].pc = "answered"
      /\ board.mounted /\ board \in BoardState /\ Len(session) \in Nat
    BY BoardIs DEF RowTold, Calls
<1>2. request' = [request EXCEPT !["row"] = NoCall, !["list"] = y]
    BY <1>1 DEF RowTold, TabInv, CallsOK
<1>3. CallOK("row", NoCall, tab, Len(session)) /\ CallOK("list", y, tab, Len(session))
    BY <1>1, NoCallHere, ListAgainOK
<1> HIDE DEF y
<1>4. UNCHANGED <<rest, venture, form, board>>
    BY DEF RowTold
<1>5. CallsOK' /\ \A c \in Calls : c \notin {"row", "list"} => request'[c] = request[c]
    BY <1>1, <1>2, <1>3, <1>4 DEF TabInv, CallsOK, storage, rest
<1>6. request'["post"] = request["post"]
    BY <1>5 DEF Calls
<1> QED  BY <1>1, <1>4, <1>5, <1>6, BoardStepOK DEF TabInv, MountsOK

LEMMA PageStepOK == ASSUME TabInv, PageStep PROVE TabInv'
BY VenturesShownOK, VenturesNotShownOK, DetailShownOK, ManageShownOK, SaveToldOK, OwnerShownOK,
   ListShownOK, SendToldOK, RowToldOK DEF PageStep, DashboardStep

LEMMA PersonStepOK == ASSUME TabInv, PersonStep PROVE TabInv'
BY GoToOK, PickOK, SignOutOK, LoginOK, EditOK, PressSaveOK, PressSendOK, PickRoleOK, PressRowOK
   DEF PersonStep

-----------------------------------------------------------------------------
(***************************************************************************)
(* Everybody else                                                          *)
(***************************************************************************)

\* What is in the tab stays.
LEMMA ElsewhereOK ==
    ASSUME TabInv, ServerOK', Moves, UNCHANGED tabs,
           session' \in Seq([who : Accounts, over : BOOLEAN]), Len(session) <= Len(session'),
           token' \in 0..Len(session'), stored' \in Ventures \cup {None}
    PROVE  TabInv'
<1>0. moves' \in 0..MaxMoves
    <2>1. MaxMoves \in Nat
        BY BrowserAssumption
    <2> QED  BY <2>1 DEF TabInv, StorageOK, Moves
<1>1. StorageOK'
    BY <1>0 DEF StorageOK
<1>2. CallsOK'
    BY <1>1, CallsKept DEF TabInv, tabs
<1>3. ScreenOK' /\ MountsOK'
    BY DEF TabInv, ScreenOK, MountsOK, tabs, At
<1> QED  BY <1>1, <1>2, <1>3 DEF TabInv

LEMMA StorageIs ==
    ASSUME TabInv
    PROVE  /\ session \in Seq([who : Accounts, over : BOOLEAN]) /\ Len(session) \in Nat
           /\ token \in 0..Len(session) /\ stored \in Ventures \cup {None} /\ ServerOK
BY DEF TabInv, StorageOK

LEMMA ExpireOK == ASSUME TabInv, NEW s, Expire(s) PROVE TabInv'
<1>1. session' \in Seq([who : Accounts, over : BOOLEAN]) /\ Len(session') = Len(session)
    <2>1. PICK t \in Seq([who : Accounts, over : BOOLEAN]) : t = session
        BY StorageIs
    <2>2. s \in DOMAIN t /\ session' = [t EXCEPT ![s] = [t[s] EXCEPT !.over = TRUE]]
        BY <2>1 DEF Expire
    <2>3. t[s] \in [who : Accounts, over : BOOLEAN]
        BY <2>2, ElementOfSession
    <2>4. [t[s] EXCEPT !.over = TRUE] \in [who : Accounts, over : BOOLEAN]
        BY <2>3
    <2> QED  BY <2>1, <2>2, <2>4
<1> QED  BY <1>1, StorageIs, ServerKept, ElsewhereOK DEF Expire

LEMMA OtherTabSignsOK ==
    ASSUME TabInv, NEW u \in Accounts \cup {None}, OtherTabSigns(u)
    PROVE  TabInv'
<1>1. CASE u = None
    <2>1. session' = session /\ token' = 0
        BY <1>1 DEF OtherTabSigns
    <2> QED  BY <2>1, StorageIs, ServerKept, ElsewhereOK DEF OtherTabSigns
<1>2. CASE u # None
    <2>1. session' = Append(session, [who |-> u, over |-> FALSE]) /\ token' = Len(session')
        BY <1>2 DEF OtherTabSigns
    <2>2. session' \in Seq([who : Accounts, over : BOOLEAN]) /\ Len(session') = Len(session) + 1
        BY <1>2, <2>1, SessionGrows DEF TabInv
    <2> QED  BY <2>1, <2>2, StorageIs, ServerKept, ElsewhereOK DEF OtherTabSigns
<1> QED  BY <1>1, <1>2

LEMMA OtherTabPicksOK == ASSUME TabInv, NEW v \in Ventures, OtherTabPicks(v) PROVE TabInv'
BY StorageIs, ServerKept, ElsewhereOK DEF OtherTabPicks

LEMMA JoinOK ==
    ASSUME TabInv, NEW u \in Accounts, NEW v \in Ventures, NEW r \in Roles, Join(u, v, r)
    PROVE  TabInv'
<1>1. role' \in [Accounts -> [Ventures -> Roles \cup {None}]]
    BY DEF Join, TabInv, ServerOK
<1>2. ServerOK'
    BY <1>1 DEF Join, TabInv, ServerOK
<1> QED  BY <1>2, StorageIs, ElsewhereOK DEF Join

\* What may be set may be stored.
LEMMA SettingsStored == Settings \subseteq Stored
BY BrowserAssumption DEF Settings, Stored

LEMMA OthersSaveOK ==
    ASSUME TabInv, NEW v \in Ventures, NEW s \in Settings, OthersSave(v, s)
    PROVE  TabInv'
<1>1. ServerOK'
    BY SettingsStored DEF OthersSave, TabInv, ServerOK
<1> QED  BY <1>1, StorageIs, ElsewhereOK DEF OthersSave

LEMMA OthersInviteOK ==
    ASSUME TabInv, NEW v \in Ventures, NEW e \in Invitees, NEW r \in Offers, OthersInvite(v, e, r)
    PROVE  TabInv'
<1>1. invite' \subseteq Invite /\ minted' \in 0..MaxInvites
    BY CreateOK DEF OthersInvite
<1>2. ServerOK'
    BY <1>1 DEF OthersInvite, TabInv, ServerOK
<1> QED  BY <1>2, StorageIs, ElsewhereOK DEF OthersInvite

LEMMA OthersSettleOK == ASSUME TabInv, NEW i, OthersSettle(i) PROVE TabInv'
<1>1. i \in Invite /\ invite \subseteq Invite
    BY DEF OthersSettle, TabInv, ServerOK
<1>2. [i EXCEPT !.revoked = TRUE] \in Invite /\ [i EXCEPT !.accepted = TRUE] \in Invite
    BY <1>1 DEF Invite
<1>3. invite' \subseteq Invite
    BY <1>1, <1>2 DEF OthersSettle
<1>4. ServerOK'
    BY <1>3 DEF OthersSettle, TabInv, ServerOK
<1> QED  BY <1>4, StorageIs, ElsewhereOK DEF OthersSettle

LEMMA OthersStepOK == ASSUME TabInv, OthersStep PROVE TabInv'
BY ExpireOK, OtherTabSignsOK, OtherTabPicksOK, JoinOK, OthersSaveOK, OthersInviteOK, OthersSettleOK
   DEF OthersStep, ElsewhereStep

-----------------------------------------------------------------------------
(***************************************************************************)
(* The types                                                               *)
(***************************************************************************)

LEMMA TabInit == Init => TabInv
<1> SUFFICES ASSUME Init PROVE TabInv
    OBVIOUS
<1>0. MaxInvites \in Nat /\ MaxMoves \in Nat
    BY BrowserAssumption
<1>1. ServerOK
    <2>1. settings \in [Ventures -> Stored]
        BY SettingsStored DEF Init
    <2> QED  BY <1>0, <2>1 DEF Init, ServerOK
<1>2. session \in Seq([who : Accounts, over : BOOLEAN]) /\ Len(session) \in Nat
    <2>1. CASE session = <<>>
        BY <2>1
    <2>2. CASE \E u \in Accounts : session = <<[who |-> u, over |-> FALSE]>>
        BY <2>2
    <2> QED  BY <2>1, <2>2 DEF Init
<1>3. StorageOK
    BY <1>0, <1>2 DEF Init, StorageOK
<1>4. CallsOK
    <2>1. request = [c \in Calls |-> NoCall]
        BY DEF Init
    <2>2. \A c \in Calls : CallOK(c, NoCall, tab, Len(session))
        BY <1>2, NoCallHere
    <2> QED  BY <2>1, <2>2 DEF CallsOK
<1>5. LoginAnew \in LoginState /\ NavAnew(stored) \in NavState
      /\ FormAnew \in FormState /\ BoardAnew \in BoardState
    BY DEF Init, LoginAnew, LoginState, NavAnew, NavState, FormAnew, FormState, BoardAnew, BoardState
<1>6. ScreenOK
    BY <1>5 DEF Init, ScreenOK, At, ShownOf, Pages
<1>7. MountsOK
    BY DEF Init, MountsOK, FormAnew, BoardAnew, Calls, NoCall
<1> QED  BY <1>1, <1>3, <1>4, <1>6, <1>7 DEF TabInv

LEMMA TabStutter == ASSUME TabInv, UNCHANGED vars PROVE TabInv'
BY DEF TabInv, vars, server, storage, ServerOK, StorageOK, CallsOK, ScreenOK, MountsOK, At

LEMMA TabNext == TabInv /\ [Next]_vars => TabInv'
BY PersonStepOK, PageStepOK, GatewayStepOK, OthersStepOK, TabStutter DEF Next

LEMMA TabInvariant == Spec => []TabInv
BY TabInit, TabNext, PTL DEF Spec

\* Whatever is picked, answered late or done by others: every variable has its
\* type, and no page is left with a call, a form or an error of another.
THEOREM WebTypes == Spec => []WebTypeOK
BY TabInvariant, TabInvSuffices, PTL

-----------------------------------------------------------------------------
(***************************************************************************)
(* What the gateway leaves of a call                                       *)
(***************************************************************************)

\* A call still asks what it asked, and is shown by no step of the gateway.
SameCalls ==
    \A c \in Calls : /\ request'[c].about = request[c].about
                     /\ request'[c].arg = request[c].arg
                     /\ request'[c].pc = "idle" <=> request[c].pc = "idle"

LEMMA AnswerKeeps ==
    ASSUME TabInv, NEW c \in Calls, request[c].pc # "idle", NEW kind, NEW data, Answer(c, kind, data)
    PROVE  /\ SameCalls
           /\ request'[c].pc = "answered" /\ request'[c].kind = kind /\ request'[c].data = data
           /\ \A d \in Calls : d # c => request'[d] = request[d]
BY CallIs DEF TabInv, CallsOK, CallOK, CallState, Answer, SameCalls

LEMMA GatewayKeeps ==
    ASSUME TabInv, GatewayStep
    PROVE  SameCalls /\ UNCHANGED <<storage, page>>
<1>c. {"ventures", "detail", "venture", "list", "save", "post", "row"} = Calls
    BY DEF Calls
<1>1. CASE ServeVentures
    BY <1>c, <1>1, AnswerKeeps DEF ServeVentures
<1>2. CASE ServeDetail
    BY <1>c, <1>2, AnswerKeeps DEF ServeDetail
<1>3. CASE ServeRole
    <2>1. request["venture"].pc = "asked" /\ UNCHANGED <<storage, page>>
        BY <1>3 DEF ServeRole
    <2>2. CASE \E k, d : Answer("venture", k, d)
        BY <1>c, <2>1, <2>2, AnswerKeeps
    <2>3. CASE \E d : request' = [request EXCEPT !["venture"].pc = "settings", !["venture"].data = d]
        BY <1>c, <2>1, <2>3, CallIs DEF TabInv, CallsOK, CallOK, CallState, SameCalls
    <2> QED  BY <1>3, <2>1, <2>2, <2>3 DEF ServeRole
<1>4. CASE ServeSettings
    BY <1>c, <1>4, AnswerKeeps DEF ServeSettings
<1>5. CASE CheckOwner
    <2>1. request["save"].pc = "asked" /\ UNCHANGED <<storage, page>>
        BY <1>5 DEF CheckOwner
    <2>2. CASE \E k, d : Answer("save", k, d)
        BY <1>c, <2>1, <2>2, AnswerKeeps
    <2>3. CASE request' = [request EXCEPT !["save"].pc = "write"]
        BY <1>c, <2>1, <2>3, CallIs DEF TabInv, CallsOK, CallOK, CallState, SameCalls
    <2> QED  BY <1>5, <2>1, <2>2, <2>3 DEF CheckOwner
<1>6. CASE WriteSettings
    BY <1>c, <1>6, AnswerKeeps DEF WriteSettings
<1>7. CASE ServeList
    BY <1>c, <1>7, AnswerKeeps DEF ServeList, OwnerAsks
<1>8. CASE ServePost
    BY <1>c, <1>8, AnswerKeeps DEF ServePost, OwnerAsks
<1>9. CASE ServeConflict
    BY <1>c, <1>9, AnswerKeeps DEF ServeConflict, OwnerAsks
<1>10. CASE ServeRow
    BY <1>c, <1>10, AnswerKeeps DEF ServeRow, OwnerAsks
<1>11. ASSUME NEW c \in Calls, Unauthorized(c) \/ Fail(c) \/ NotOwner(c)
       PROVE  SameCalls /\ UNCHANGED <<storage, page>>
    BY <1>11, AnswerKeeps DEF Unauthorized, Fail, NotOwner
<1> QED  BY <1>c, <1>1, <1>2, <1>3, <1>4, <1>5, <1>6, <1>7, <1>8, <1>9, <1>10, <1>11 DEF GatewayStep

-----------------------------------------------------------------------------
(***************************************************************************)
(* The dashboard                                                           *)
(***************************************************************************)

\* The settings that are asked for are of the selected venture; when nothing is
\* asked for, those that are shown are.
DashInv ==
    At("dashboard") =>
        /\ nav.kind = "data" => IF nav.list = {} THEN nav.selected = None ELSE nav.selected \in nav.list
        /\ IF request["detail"].pc # "idle" THEN request["detail"].about = nav.selected
           ELSE IF nav.selected = None THEN detail = None
           ELSE detail # None /\ detail.about = nav.selected

LEMMA DashInvSuffices == TabInv /\ DashInv => DashboardIsOfOneVenture
BY DEF DashInv, DashboardIsOfOneVenture

\* A page that is not the dashboard, or that no step of the tab touches.
LEMMA NotDashboard == ASSUME UNCHANGED tab, ~At("dashboard") PROVE DashInv'
BY DEF DashInv, At

LEMMA DashLoads ==
    ASSUME NEW p \in Pages, NEW v, NEW tok, NEW st, Load(p, v, tok, st)
    PROVE  DashInv'
<1>1. nav' = NavAnew(st) /\ detail' = None /\ tab'.page = p /\ None # "data" /\ "detail" \in Calls
    BY BrowserAssumption DEF Load, Calls
<1>2. p = "dashboard" => request'["detail"] = IF st # None THEN Sent(tok, st, None) ELSE NoCall
    BY <1>1 DEF Load
<1>3. CASE st # None
    <2>1. Sent(tok, st, None).pc # "idle" /\ Sent(tok, st, None).about = st
        BY DEF Sent, NoCall
    <2> QED  BY <1>1, <1>2, <1>3, <2>1 DEF DashInv, At, NavAnew
<1>4. CASE st = None
    BY <1>1, <1>2, <1>4 DEF DashInv, At, NavAnew, NoCall
<1> QED  BY <1>3, <1>4

LEMMA DashVenturesShown == ASSUME TabInv, DashInv, VenturesShown PROVE DashInv'
<1> DEFINE list == request["ventures"].data
<1>1. "ventures" \in Calls /\ "detail" \in Calls /\ DOMAIN request = Calls
    BY DEF Calls, TabInv, CallsOK
<1>2. PICK sel \in Selects(list) :
          /\ nav' = [selected |-> sel, kind |-> "data", list |-> list]
          /\ request'["detail"] = Follows(sel, request["detail"])
          /\ detail' = IF sel = None THEN None ELSE detail
    BY <1>1 DEF VenturesShown
<1>3. tab' = tab /\ list \subseteq Ventures
    BY <1>1, CallIs, DataTypes DEF VenturesShown, CallOK
<1>4. IF list = {} THEN sel = None ELSE sel \in list
    BY <1>2, BrowserAssumption DEF Selects
<1> HIDE DEF list
<1>5. SUFFICES ASSUME At("dashboard") PROVE DashInv'
    BY <1>3, NotDashboard
<1>6. CASE nav.selected = sel
    <2>1. request'["detail"] = request["detail"]
        BY <1>2, <1>6 DEF Follows
    <2>2. sel # None => detail' = detail
        BY <1>2
    <2>3. sel = None => detail' = None
        BY <1>2
    <2> QED  BY <1>2, <1>3, <1>4, <1>5, <1>6, <2>1, <2>2, <2>3 DEF DashInv, At
<1>7. CASE nav.selected # sel /\ sel = None
    <2>1. request'["detail"] = NoCall
        BY <1>2, <1>5, <1>7 DEF Follows
    <2> QED  BY <1>2, <1>3, <1>4, <1>7, <2>1 DEF DashInv, At, NoCall
<1>8. CASE nav.selected # sel /\ sel # None
    <2>1. request'["detail"] = Sent(token, sel, None)
        BY <1>2, <1>5, <1>8 DEF Follows
    <2>2. Sent(token, sel, None).pc # "idle" /\ Sent(token, sel, None).about = sel
        BY DEF Sent, NoCall
    <2> QED  BY <1>2, <1>3, <1>4, <1>8, <2>1, <2>2 DEF DashInv, At
<1> QED  BY <1>6, <1>7, <1>8

LEMMA DashDetailShown == ASSUME TabInv, DashInv, DetailShown PROVE DashInv'
<1>1. "detail" \in Calls /\ DOMAIN request = Calls /\ request["detail"].pc = "answered"
    BY DEF DetailShown, Calls, TabInv, CallsOK
<1>2. detail' \in Answered("detail") /\ detail'.about = request["detail"].about
      /\ request["detail"].about \in Ventures
    BY <1>1, ShownOK, CallIs DEF DetailShown, CallOK
<1>3. detail' # None /\ request["detail"].about # None
    BY <1>2, NoneAssumption, BrowserAssumption
<1>4. request'["detail"].pc = "idle" /\ UNCHANGED <<tab, nav>>
    BY <1>1 DEF DetailShown, NoCall
<1> QED  BY <1>1, <1>2, <1>3, <1>4 DEF DashInv, At

\* What the dashboard shows is left alone.
LEMMA DashKept ==
    ASSUME DashInv, UNCHANGED <<tab, nav, detail>>,
           request'["detail"].pc = "idle" <=> request["detail"].pc = "idle",
           request'["detail"].about = request["detail"].about
    PROVE  DashInv'
BY DEF DashInv, At

LEMMA DashPage == ASSUME TabInv, DashInv, PageStep PROVE DashInv'
<1>1. CASE VenturesShown
    BY <1>1, DashVenturesShown
<1>2. CASE VenturesNotShown
    <2>1. request'["detail"] = request["detail"] /\ UNCHANGED <<tab, detail>>
        BY <1>2 DEF VenturesNotShown, Calls, TabInv, CallsOK
    <2>2. nav'.kind # "data" /\ nav'.selected = nav.selected /\ nav'.list = nav.list
        BY <1>2 DEF VenturesNotShown, TabInv, ScreenOK, NavState
    <2> QED  BY <2>1, <2>2 DEF DashInv, At
<1>3. CASE DetailShown
    BY <1>3, DashDetailShown
<1>4. CASE ManageShown \/ OwnerShown
    BY <1>4, NotDashboard DEF ManageShown, OwnerShown, rest, At
<1>5. CASE SaveTold
    <2>1. form.mounted /\ UNCHANGED tab
        BY <1>5 DEF SaveTold, TabInv, MountsOK, rest, FormAnew
    <2> QED  BY <2>1, NotDashboard DEF TabInv, ScreenOK, FormAnew, At
<1>6. CASE ListShown \/ SendTold \/ RowTold
    <2>1. (\E c \in {"list", "post", "row"} : request[c].pc # "idle") /\ UNCHANGED tab
        BY <1>6 DEF ListShown, SendTold, RowTold, rest
    <2> QED  BY <2>1, BoardIs, NotDashboard DEF At
<1> QED  BY <1>1, <1>2, <1>3, <1>4, <1>5, <1>6 DEF PageStep, DashboardStep

LEMMA DashPerson == ASSUME TabInv, DashInv, PersonStep PROVE DashInv'
<1>p. {"login", "dashboard", "overview"} \subseteq Pages
    BY DEF Pages
<1>1. ASSUME NEW p \in Pages, NEW v, GoTo(p, v)  PROVE DashInv'
    BY <1>1, DashLoads DEF GoTo
<1>2. ASSUME NEW v, Pick(v)  PROVE DashInv'
    BY <1>p, <1>2, DashLoads DEF Pick
<1>3. CASE SignOut
    BY <1>p, <1>3, DashLoads DEF SignOut
<1>4. CASE LoginStep
    <2>1. ASSUME NEW u, Issue(u)  PROVE DashInv'
        BY <1>p, <2>1, DashLoads DEF Issue
    <2>2. ASSUME NEW l, Signs(l)  PROVE DashInv'
        BY <2>2, DashKept DEF Signs, others
    <2> QED  BY <1>4, <2>1, <2>2 DEF LoginStep, ShowPanel, Submit, PasswordTaken, PasswordRefused,
                ClickGoogle, GoogleDismissed, GooglePicked, GoogleTaken, GoogleRefused
<1>5. ASSUME NEW f, NEW value, Edit(f, value) \/ PressSave  PROVE DashInv'
    <2>1. form.mounted /\ UNCHANGED tab
        BY <1>5 DEF Edit, PressSave, rest
    <2> QED  BY <2>1, NotDashboard DEF TabInv, ScreenOK, FormAnew, At
<1>6. ASSUME NEW e, NEW r, PressSend(e, r) \/ PickRole(r)  PROVE DashInv'
    <2>1. board.mounted /\ UNCHANGED tab
        BY <1>6 DEF PressSend, PickRole, rest, TabInv, MountsOK, BoardAnew
    <2> QED  BY <2>1, BoardIs, NotDashboard DEF At
<1>7. ASSUME NEW op, NEW i, PressRow(op, i)  PROVE DashInv'
    <2>1. board.mounted /\ UNCHANGED tab
        BY <1>7 DEF PressRow, rest, TabInv, MountsOK, BoardAnew
    <2> QED  BY <2>1, BoardIs, NotDashboard DEF At
<1> QED  BY <1>1, <1>2, <1>3, <1>4, <1>5, <1>6, <1>7 DEF PersonStep

LEMMA OthersLeaveTab == ASSUME OthersStep PROVE UNCHANGED tabs /\ Moves
BY DEF OthersStep, ElsewhereStep, Expire, OtherTabSigns, OtherTabPicks, Join, OthersSave,
       OthersInvite, OthersSettle

LEMMA DashNext == TabInv /\ DashInv /\ [Next]_vars => DashInv'
<1> SUFFICES ASSUME TabInv, DashInv, [Next]_vars PROVE DashInv'
    OBVIOUS
<1>1. CASE GatewayStep
    <2>1. SameCalls /\ UNCHANGED <<tab, nav, detail>> /\ "detail" \in Calls
        BY <1>1, GatewayKeeps DEF page, Calls
    <2> QED  BY <2>1, DashKept DEF SameCalls
<1>2. CASE OthersStep
    BY <1>2, OthersLeaveTab, DashKept DEF tabs
<1>3. CASE UNCHANGED vars
    BY <1>3, DashKept DEF vars
<1> QED  BY <1>1, <1>2, <1>3, DashPerson, DashPage DEF Next

\* Whatever venture is stored, for whatever account, and whichever answer comes
\* first: a dashboard that waits for nothing names a venture of the list, and
\* shows the settings, or the error, of that one (pages/dashboard.rs, DashboardBody).
THEOREM DashboardHasOneVenture == Spec => []DashboardIsOfOneVenture
<1>1. Init => DashInv
    BY DEF Init, DashInv, At
<1>2. TabInv /\ DashInv /\ [Next]_vars => DashInv'
    BY DashNext
<1> QED  BY <1>1, <1>2, TabInvariant, DashInvSuffices, PTL DEF Spec

-----------------------------------------------------------------------------
(***************************************************************************)
(* The invites                                                             *)
(***************************************************************************)

\* An invite keeps its number and its venture, and a new one has a new number.
RowsOK(inv, m) == \A i \in inv : i.id <= m /\ \A j \in inv : i.id = j.id => i.slug = j.slug

EvolvesTo(inv, m, inv2, m2) ==
    /\ m2 \in {m, m + 1}
    /\ \E s : \A j \in inv2 :
          \/ \E i \in inv : i.id = j.id /\ i.slug = j.slug
          \/ m2 = m + 1 /\ j.id = m2 /\ j.slug = s

\* A number that was given, to an invite of this venture.
OfSlug(inv, m, id, s) == id \in 1..m /\ \A i \in inv : i.id = id => i.slug = s

\* The invite with this number, if there is one, is among these.
Has(inv, rows, id) == \A i \in inv : i.id = id => i.id \in {j.id : j \in rows}

LEMMA RowsEvolve ==
    ASSUME NEW inv \in SUBSET Invite, NEW m \in Nat, NEW inv2 \in SUBSET Invite, NEW m2,
           RowsOK(inv, m), EvolvesTo(inv, m, inv2, m2)
    PROVE  RowsOK(inv2, m2)
<1>1. \A i \in Invite : i.id \in Nat
    <2>1. MaxInvites \in Nat
        BY BrowserAssumption
    <2>2. \A i \in Invite : i.id \in 1..MaxInvites
        BY DEF Invite
    <2> QED  BY <2>1, <2>2
<1> QED  BY <1>1 DEF RowsOK, EvolvesTo

LEMMA SlugStays ==
    ASSUME NEW inv, NEW m \in Nat, NEW inv2, NEW m2, EvolvesTo(inv, m, inv2, m2),
           NEW id, NEW s, OfSlug(inv, m, id, s)
    PROVE  OfSlug(inv2, m2, id, s)
BY DEF OfSlug, EvolvesTo

LEMMA HasStays ==
    ASSUME NEW inv, NEW m \in Nat, NEW inv2, NEW m2, EvolvesTo(inv, m, inv2, m2),
           NEW id \in 1..m, NEW rows, Has(inv, rows, id)
    PROVE  Has(inv2, rows, id)
<1> SUFFICES ASSUME NEW j \in inv2, j.id = id  PROVE j.id \in {k.id : k \in rows}
    BY DEF Has
<1>1. \E i \in inv : i.id = j.id
    BY DEF EvolvesTo
<1> QED  BY <1>1 DEF Has

LEMMA EvolvesIfKept ==
    ASSUME NEW inv, NEW m \in Nat, NEW inv2, inv2 \subseteq inv
    PROVE  EvolvesTo(inv, m, inv2, m)
BY DEF EvolvesTo

LEMMA CreateEvolves ==
    ASSUME TabInv, NEW v \in Ventures, NEW e \in Invitees, NEW r \in Offers, Create(v, e, r)
    PROVE  EvolvesTo(invite, minted, invite', minted')
<1> DEFINE old == {i \in invite : i.slug = v /\ i.email = e}
<1>1. invite \subseteq Invite /\ minted \in Nat
    BY DEF TabInv, ServerOK
<1>2. CASE old = {}
    <2> DEFINE new == [id |-> minted', slug |-> v, email |-> e, role |-> r,
                       accepted |-> FALSE, revoked |-> FALSE]
    <2>1. minted' = minted + 1 /\ invite' = invite \cup {new}
        BY <1>2 DEF Create
    <2>2. new.id = minted' /\ new.slug = v
        OBVIOUS
    <2> HIDE DEF new
    <2> QED  BY <1>1, <2>1, <2>2 DEF EvolvesTo
<1>3. CASE old # {}
    <2>1. invite' = (invite \ old) \cup {[i EXCEPT !.revoked = FALSE, !.role = r] : i \in old}
          /\ minted' = minted
        BY <1>3 DEF Create
    <2>2. ASSUME NEW i \in old
          PROVE  /\ [i EXCEPT !.revoked = FALSE, !.role = r].id = i.id
                 /\ [i EXCEPT !.revoked = FALSE, !.role = r].slug = i.slug
        BY <1>1 DEF Invite
    <2>3. old \subseteq invite
        OBVIOUS
    <2> HIDE DEF old
    <2>4. ASSUME NEW j \in invite'  PROVE \E i \in invite : i.id = j.id /\ i.slug = j.slug
        <3>1. CASE j \in invite
            BY <3>1
        <3>2. CASE \E i \in old : j = [i EXCEPT !.revoked = FALSE, !.role = r]
            BY <2>2, <2>3, <3>2
        <3> QED  BY <2>1, <3>1, <3>2
    <2> QED  BY <1>1, <2>1, <2>4 DEF EvolvesTo
<1> QED  BY <1>2, <1>3

LEMMA ServeRowEvolves == ASSUME TabInv, ServeRow PROVE EvolvesTo(invite, minted, invite', minted')
<1>1. invite \subseteq Invite /\ minted \in Nat /\ minted' = minted
    BY DEF ServeRow, TabInv, ServerOK
<1>2. \A i \in Invite : [i EXCEPT !.revoked = TRUE].id = i.id /\ [i EXCEPT !.revoked = TRUE].slug = i.slug
    BY DEF Invite
<1>3. PICK hit \in SUBSET invite :
          invite' = (invite \ hit) \cup
             IF request["row"].arg.op = "revoke" THEN {[i EXCEPT !.revoked = TRUE] : i \in hit} ELSE {}
    BY DEF ServeRow, Revocable, Deletable
<1>4. ASSUME NEW j \in invite'  PROVE \E i \in invite : i.id = j.id /\ i.slug = j.slug
    <2>1. CASE j \in invite
        BY <2>1
    <2>2. CASE \E i \in hit : j = [i EXCEPT !.revoked = TRUE]
        BY <1>1, <1>2, <2>2
    <2> QED  BY <1>3, <2>1, <2>2
<1> QED  BY <1>1, <1>4 DEF EvolvesTo

LEMMA OthersSettleEvolves ==
    ASSUME TabInv, NEW i, OthersSettle(i)
    PROVE  EvolvesTo(invite, minted, invite', minted')
<1>1. invite \subseteq Invite /\ minted \in Nat /\ minted' = minted /\ i \in invite
    BY DEF OthersSettle, TabInv, ServerOK
<1>2. /\ [i EXCEPT !.revoked = TRUE].id = i.id /\ [i EXCEPT !.revoked = TRUE].slug = i.slug
      /\ [i EXCEPT !.accepted = TRUE].id = i.id /\ [i EXCEPT !.accepted = TRUE].slug = i.slug
    BY <1>1 DEF Invite
<1>3. \A j \in invite' : \E k \in invite : k.id = j.id /\ k.slug = j.slug
    BY <1>1, <1>2 DEF OthersSettle
<1> QED  BY <1>1, <1>3 DEF EvolvesTo

LEMMA InvitesEvolve ==
    ASSUME TabInv, [Next]_vars
    PROVE  EvolvesTo(invite, minted, invite', minted')
<1>1. CASE UNCHANGED <<invite, minted>>
    BY <1>1, EvolvesIfKept DEF TabInv, ServerOK
<1>2. CASE ServePost
    <2>1. "post" \in Calls /\ request["post"].pc = "asked"
        BY <1>2 DEF ServePost, OwnerAsks, Calls
    <2>2. request["post"].about \in Ventures /\ request["post"].arg \in [email : Invitees, role : Offers]
        BY <2>1, CallIs, ArgTypes DEF CallOK
    <2>3. request["post"].arg.email \in Invitees /\ request["post"].arg.role \in Offers
        BY <2>2
    <2> QED  BY <1>2, <2>2, <2>3, CreateEvolves DEF ServePost
<1>3. ASSUME NEW v \in Ventures, NEW e \in Invitees, NEW r \in Offers, OthersInvite(v, e, r)
      PROVE  EvolvesTo(invite, minted, invite', minted')
    BY <1>3, CreateEvolves DEF OthersInvite
<1>4. PersonStep \/ PageStep => UNCHANGED <<invite, minted>>
    BY DEF PersonStep, PageStep, DashboardStep, LoginStep, GoTo, Pick, SignOut, Edit, PressSave, PressSend,
           PickRole, PressRow, ShowPanel, Submit, PasswordTaken, PasswordRefused, ClickGoogle,
           GoogleDismissed, GooglePicked, GoogleTaken, GoogleRefused, Signs, others, Issue,
           VenturesShown, VenturesNotShown, DetailShown, ManageShown, SaveTold, OwnerShown,
           ListShown, SendTold, RowTold, rest, server
<1>5. GatewayStep => ServePost \/ ServeRow \/ UNCHANGED <<invite, minted>>
    BY DEF GatewayStep, ServeVentures, ServeDetail, ServeRole, ServeSettings, CheckOwner, WriteSettings,
           ServeList, ServeConflict, Unauthorized, Fail, NotOwner, server
<1>6. ASSUME OthersStep
      PROVE  \/ UNCHANGED <<invite, minted>>
             \/ \E v \in Ventures, e \in Invitees, r \in Offers : OthersInvite(v, e, r)
             \/ \E i \in invite : OthersSettle(i)
    BY <1>6 DEF OthersStep, ElsewhereStep, Expire, OtherTabSigns, OtherTabPicks, Join, OthersSave, server
<1>7. UNCHANGED vars => UNCHANGED <<invite, minted>>
    BY DEF vars
<1> QED  BY <1>1, <1>2, <1>3, <1>4, <1>5, <1>6, <1>7, ServeRowEvolves, OthersSettleEvolves DEF Next

Arrived(r) == r.pc = "answered" /\ r.kind = "data"

\* The invite that the toast told of is in every list that was read since.
ToldOK(b, list, inv, m, s) ==
    b.told # None =>
        /\ OfSlug(inv, m, b.told.id, s)
        /\ Arrived(list) => Has(inv, list.data, b.told.id)
        /\ (b.shown # None /\ b.shown.kind = "data" /\ list.pc = "idle") => Has(inv, b.shown.data, b.told.id)

ToldInv ==
    /\ RowsOK(invite, minted)
    /\ Arrived(request["post"]) => OfSlug(invite, minted, request["post"].data, tab.slug)
    /\ ToldOK(board, request["list"], invite, minted, tab.slug)

LEMMA ToldInvSuffices == TabInv /\ ToldInv => InvitesAreAsTold
<1> SUFFICES ASSUME ToldInv, board.told # None, board.shown # None, board.shown.kind = "data",
                    request["list"].pc = "idle"
             PROVE  Has(invite, board.shown.data, board.told.id)
    BY DEF InvitesAreAsTold, Has
<1> QED  BY DEF ToldInv, ToldOK

LEMMA ToldEvolves ==
    ASSUME NEW inv, NEW m \in Nat, NEW inv2, NEW m2, EvolvesTo(inv, m, inv2, m2),
           NEW b, NEW list, NEW s, ToldOK(b, list, inv, m, s)
    PROVE  ToldOK(b, list, inv2, m2, s)
<1> SUFFICES ASSUME b.told # None
             PROVE  /\ OfSlug(inv2, m2, b.told.id, s)
                    /\ Arrived(list) => Has(inv2, list.data, b.told.id)
                    /\ (b.shown # None /\ b.shown.kind = "data" /\ list.pc = "idle") =>
                          Has(inv2, b.shown.data, b.told.id)
    BY DEF ToldOK
<1>1. OfSlug(inv, m, b.told.id, s) /\ b.told.id \in 1..m
    BY DEF ToldOK, OfSlug
<1>2. OfSlug(inv2, m2, b.told.id, s)
    BY <1>1, SlugStays
<1>3. ASSUME NEW rows, Has(inv, rows, b.told.id)  PROVE Has(inv2, rows, b.told.id)
    BY <1>1, <1>3, HasStays
<1> QED  BY <1>2, <1>3 DEF ToldOK

\* The invites after a step, for what the tab knew before it.
LEMMA ToldAfter ==
    ASSUME TabInv, ToldInv, [Next]_vars
    PROVE  /\ RowsOK(invite', minted') /\ EvolvesTo(invite, minted, invite', minted')
           /\ Arrived(request["post"]) => OfSlug(invite', minted', request["post"].data, tab.slug)
           /\ ToldOK(board, request["list"], invite', minted', tab.slug)
<1>1. EvolvesTo(invite, minted, invite', minted') /\ minted \in Nat /\ invite \in SUBSET Invite
    BY InvitesEvolve DEF TabInv, ServerOK
<1>2. PICK inv2, m2 : inv2 = invite' /\ m2 = minted'
    OBVIOUS
<1>3. EvolvesTo(invite, minted, inv2, m2) /\ inv2 \in SUBSET Invite
    BY <1>1, <1>2, TabNext DEF TabInv, ServerOK
<1>4. RowsOK(inv2, m2)
    BY <1>1, <1>3, RowsEvolve DEF ToldInv
<1>5. Arrived(request["post"]) => OfSlug(inv2, m2, request["post"].data, tab.slug)
    BY <1>1, <1>3, SlugStays DEF ToldInv
<1>6. ToldOK(board, request["list"], inv2, m2, tab.slug)
    BY <1>1, <1>3, ToldEvolves DEF ToldInv
<1> QED  BY <1>1, <1>2, <1>4, <1>5, <1>6

\* A step of which the board learns nothing.
LEMMA ToldKept ==
    ASSUME TabInv, ToldInv, [Next]_vars, UNCHANGED <<tab, board>>,
           \/ request'["post"] = request["post"]
           \/ ~Arrived(request'["post"])
           \/ OfSlug(invite', minted', request'["post"].data, tab.slug),
           \/ request'["list"] = request["list"]
           \/ request'["list"].pc # "idle" /\ ~Arrived(request'["list"])
           \/ /\ request'["list"].pc # "idle"
              /\ board.told # None => Has(invite', request'["list"].data, board.told.id)
    PROVE  ToldInv'
<1>1. /\ RowsOK(invite', minted')
      /\ Arrived(request["post"]) => OfSlug(invite', minted', request["post"].data, tab.slug)
      /\ ToldOK(board, request["list"], invite', minted', tab.slug)
    BY ToldAfter
<1>2. ToldOK(board, request'["list"], invite', minted', tab.slug)
    <2>1. CASE request'["list"] = request["list"]
        BY <1>1, <2>1
    <2>2. CASE request'["list"].pc # "idle"
                 /\ (Arrived(request'["list"]) /\ board.told # None =>
                        Has(invite', request'["list"].data, board.told.id))
        BY <1>1, <2>2 DEF ToldOK
    <2> QED  BY <2>1, <2>2
<1> QED  BY <1>1, <1>2 DEF ToldInv

\* Without a board nobody is told.
LEMMA ToldNothing ==
    ASSUME TabInv, ToldInv, [Next]_vars, board'.told = None, ~Arrived(request'["post"])
    PROVE  ToldInv'
BY ToldAfter DEF ToldInv, ToldOK

LEMMA ToldLoads ==
    ASSUME TabInv, ToldInv, [Next]_vars, NEW p, NEW v, NEW tok, NEW st, Load(p, v, tok, st)
    PROVE  ToldInv'
<1>1. board'.told = None
    BY DEF Load, BoardAnew
<1>2. request'["post"] = NoCall
    BY DEF Load, Calls
<1> QED  BY <1>1, <1>2, ToldNothing DEF NoCall, Arrived

LEMMA ToldServePost == ASSUME TabInv, ToldInv, [Next]_vars, ServePost PROVE ToldInv'
<1> DEFINE c == request["post"]
           made == CHOOSE i \in invite' : i.slug = c.about /\ i.email = c.arg.email
<1>1. "post" \in Calls /\ "list" \in Calls /\ c.pc = "asked" /\ UNCHANGED <<tab, board>>
    BY DEF ServePost, OwnerAsks, Calls, page
<1>2. c.about \in Ventures /\ c.about = tab.slug /\ c.arg \in [email : Invitees, role : Offers]
    BY <1>1, CallIs, ArgTypes DEF CallOK
<1>3. \E i \in invite' : i.slug = c.about /\ i.email = c.arg.email
    <2>1. c.arg.email \in Invitees /\ c.arg.role \in Offers
        BY <1>2
    <2> QED  BY <1>2, <2>1, CreateOK DEF ServePost
<1>4. made \in invite' /\ made.slug = tab.slug
    BY <1>2, <1>3
<1>5. request'["post"].data = made.id /\ request'["list"] = request["list"]
    BY <1>1, AnswerKeeps DEF ServePost
<1> HIDE DEF made
<1>6. OfSlug(invite', minted', made.id, tab.slug)
    <2>1. RowsOK(invite', minted')
        BY ToldAfter
    <2>2. made.id \in 1..minted'
        <3>1. made \in Invite /\ minted' \in Nat
            BY <1>4, TabNext DEF TabInv, ServerOK
        <3>2. made.id <= minted' /\ made.id \in 1..MaxInvites
            BY <1>4, <2>1, <3>1 DEF RowsOK, Invite
        <3>3. MaxInvites \in Nat
            BY BrowserAssumption
        <3> QED  BY <3>1, <3>2, <3>3
    <2> QED  BY <1>4, <2>1, <2>2 DEF OfSlug, RowsOK
<1> QED  BY <1>1, <1>5, <1>6, ToldKept

LEMMA ToldGateway == ASSUME TabInv, ToldInv, [Next]_vars, GatewayStep PROVE ToldInv'
<1>0. UNCHANGED <<tab, board>> /\ SameCalls /\ "post" \in Calls /\ "list" \in Calls
    BY GatewayKeeps DEF page, Calls
<1>1. CASE ServePost
    BY <1>1, ToldServePost
<1>2. CASE ServeList
    <2>1. /\ request["list"].pc = "asked" /\ UNCHANGED invite
          /\ Answer("list", "data", {i \in invite : i.slug = request["list"].about})
        BY <1>2 DEF ServeList, OwnerAsks, server
    <2>2. /\ request'["list"].pc = "answered" /\ request'["post"] = request["post"]
          /\ request'["list"].data = {i \in invite : i.slug = tab.slug}
        BY <1>0, <2>1, AnswerKeeps, CallIs DEF CallOK
    <2>3. board.told # None => Has(invite', request'["list"].data, board.told.id)
        BY <2>1, <2>2 DEF ToldInv, ToldOK, OfSlug, Has
    <2> QED  BY <1>0, <2>2, <2>3, ToldKept
<1>3. CASE ~ServePost /\ ~ServeList
    <2>1. ASSUME NEW c \in Calls, request[c].pc # "idle", NEW k, NEW d, Answer(c, k, d),
                 k # "data" \/ c \notin {"post", "list"}
          PROVE  ToldInv'
        <3>1. /\ request'[c].pc = "answered" /\ request'[c].kind = k
              /\ \A x \in Calls : x # c => request'[x] = request[x]
            BY <2>1, AnswerKeeps
        <3> QED  BY <1>0, <2>1, <3>1, ToldKept DEF Arrived
    <2>2. ASSUME NEW c \in {"venture", "save"}, NEW x, request' = [request EXCEPT ![c] = x]
          PROVE  ToldInv'
        <3>1. request'["post"] = request["post"] /\ request'["list"] = request["list"]
            BY <1>0, <2>2 DEF TabInv, CallsOK
        <3> QED  BY <1>0, <3>1, ToldKept
    <2>3. ServeRole \/ ServeSettings => ToldInv'
        BY <2>2 DEF ServeRole, ServeSettings, Answer
    <2>4. CheckOwner \/ WriteSettings => ToldInv'
        BY <2>2 DEF CheckOwner, WriteSettings, Answer
    <2>5. ServeVentures => ToldInv'
        BY <1>0, <2>1 DEF ServeVentures, Calls
    <2>6. ServeDetail => ToldInv'
        BY <1>0, <2>1 DEF ServeDetail, Calls
    <2>7. ServeConflict => ToldInv'
        BY <1>0, <2>1 DEF ServeConflict, OwnerAsks
    <2>8. ServeRow => ToldInv'
        BY <1>0, <2>1 DEF ServeRow, OwnerAsks, Calls
    <2>9. ASSUME NEW c \in Calls, Unauthorized(c) \/ Fail(c) \/ NotOwner(c)  PROVE ToldInv'
        BY <2>1, <2>9 DEF Unauthorized, Fail, NotOwner
    <2> QED  BY <1>0, <1>3, <2>3, <2>4, <2>5, <2>6, <2>7, <2>8, <2>9 DEF GatewayStep, Calls
<1> QED  BY <1>1, <1>2, <1>3

LEMMA ToldPage == ASSUME TabInv, ToldInv, [Next]_vars, PageStep PROVE ToldInv'
<1>0. {"post", "list", "row", "save", "venture", "ventures", "detail"} = Calls /\ DOMAIN request = Calls
    BY DEF Calls, TabInv, CallsOK
<1>1. CASE VenturesShown \/ VenturesNotShown \/ DetailShown \/ ManageShown \/ SaveTold
    <2>1. request'["post"] = request["post"] /\ request'["list"] = request["list"] /\ UNCHANGED <<tab, board>>
        BY <1>0, <1>1 DEF VenturesShown, VenturesNotShown, DetailShown, ManageShown, SaveTold, rest
    <2> QED  BY <2>1, ToldKept
<1>2. CASE OwnerShown
    <2>1. At("invites") /\ request["venture"].pc # "idle"
        BY <1>2 DEF OwnerShown
    <2>2. request["post"].pc = "idle" /\ request'["post"] = request["post"]
        BY <1>0, <1>2, <2>1 DEF OwnerShown, TabInv, MountsOK
    <2>3. board'.told = None
        BY <1>2 DEF OwnerShown, BoardAnew
    <2> QED  BY <2>2, <2>3, ToldNothing DEF Arrived
<1>3. CASE ListShown
    <2>1. /\ board' = [board EXCEPT !.shown = Shown("list")] /\ tab' = tab
          /\ request'["list"] = NoCall /\ request'["post"] = request["post"]
          /\ request["list"].pc = "answered" /\ board \in BoardState
        BY <1>0, <1>3 DEF ListShown, rest, TabInv, ScreenOK
    <2>2. board'.told = board.told /\ board'.shown.kind = request["list"].kind
          /\ board'.shown.data = request["list"].data
        BY <2>1 DEF BoardState, Shown
    <2>3. /\ RowsOK(invite', minted')
          /\ Arrived(request["post"]) => OfSlug(invite', minted', request["post"].data, tab.slug)
          /\ ToldOK(board, request["list"], invite', minted', tab.slug)
        BY ToldAfter
    <2>4. ToldOK(board', NoCall, invite', minted', tab.slug)
        BY <2>1, <2>2, <2>3 DEF ToldOK, Arrived, NoCall
    <2> QED  BY <2>1, <2>3, <2>4 DEF ToldInv
<1>4. CASE SendTold
    <2>1. /\ tab' = tab /\ request'["post"] = NoCall /\ request["post"].pc = "answered"
          /\ UNCHANGED <<invite, minted>> /\ board \in BoardState
        BY <1>0, <1>4 DEF SendTold, rest, server, TabInv, ScreenOK
    <2>2. CASE request["post"].kind = "data"
        <3>1. /\ board'.told.id = request["post"].data
              /\ request'["list"] = Sent(token, tab.slug, None)
            BY <1>0, <1>4, <2>1, <2>2 DEF SendTold, ListAgain, BoardState
        <3>2. request'["list"].pc # "idle" /\ ~Arrived(request'["list"])
            BY <3>1 DEF Sent, NoCall, Arrived
        <3>3. OfSlug(invite, minted, board'.told.id, tab.slug)
            BY <2>1, <2>2, <3>1 DEF ToldInv, Arrived
        <3> QED  BY <2>1, <3>2, <3>3 DEF ToldInv, ToldOK, Arrived, NoCall
    <2>3. CASE request["post"].kind # "data"
        <3>1. board'.told = board.told /\ board'.shown = board.shown /\ request'["list"] = request["list"]
            BY <1>0, <1>4, <2>1, <2>3 DEF SendTold, BoardState
        <3> QED  BY <2>1, <3>1 DEF ToldInv, ToldOK, Arrived, NoCall
    <2> QED  BY <2>2, <2>3
<1>5. CASE RowTold
    <2>1. UNCHANGED <<tab, board>> /\ request'["post"] = request["post"]
        BY <1>0, <1>5 DEF RowTold, rest
    <2>2. request'["list"] \in {request["list"], Sent(token, tab.slug, None)}
        BY <1>0, <1>5 DEF RowTold, ListAgain
    <2>3. Sent(token, tab.slug, None).pc # "idle" /\ ~Arrived(Sent(token, tab.slug, None))
        BY DEF Sent, NoCall, Arrived
    <2> QED  BY <2>1, <2>2, <2>3, ToldKept
<1> QED  BY <1>1, <1>2, <1>3, <1>4, <1>5 DEF PageStep, DashboardStep

LEMMA ToldPerson == ASSUME TabInv, ToldInv, [Next]_vars, PersonStep PROVE ToldInv'
<1>0. "post" \in Calls /\ "list" \in Calls /\ DOMAIN request = Calls
    BY DEF Calls, TabInv, CallsOK
<1>1. ASSUME \/ \E p, v : GoTo(p, v)
             \/ \E v : Pick(v)
             \/ SignOut
             \/ \E u : Issue(u)
      PROVE  ToldInv'
    BY <1>1, ToldLoads DEF GoTo, Pick, SignOut, Issue
<1>2. CASE LoginStep
    <2>1. ASSUME NEW l, Signs(l)  PROVE ToldInv'
        BY <2>1, ToldKept DEF Signs, others
    <2> QED  BY <1>1, <1>2, <2>1 DEF LoginStep, ShowPanel, Submit, PasswordTaken, PasswordRefused,
                ClickGoogle, GoogleDismissed, GooglePicked, GoogleTaken, GoogleRefused
<1>3. ASSUME NEW f, NEW value, NEW op, NEW i, Edit(f, value) \/ PressSave \/ PressRow(op, i)
      PROVE  ToldInv'
    <2>1. request'["post"] = request["post"] /\ request'["list"] = request["list"] /\ UNCHANGED <<tab, board>>
        BY <1>0, <1>3 DEF Edit, PressSave, PressRow, rest
    <2> QED  BY <2>1, ToldKept
<1>4. ASSUME NEW e, NEW r, PressSend(e, r)  PROVE ToldInv'
    <2>1. /\ request'["post"] = Sent(token, tab.slug, [email |-> e, role |-> r])
          /\ board' = [board EXCEPT !.sent = [email |-> e, role |-> r, now |-> r], !.told = None]
        BY <1>0, <1>4 DEF PressSend
    <2>2. board'.told = None
        BY <2>1 DEF TabInv, ScreenOK, BoardState
    <2>3. ~Arrived(request'["post"])
        BY <2>1 DEF Sent, NoCall, Arrived
    <2> QED  BY <2>2, <2>3, ToldNothing
<1>5. ASSUME NEW r, PickRole(r)  PROVE ToldInv'
    <2>1. board' = [board EXCEPT !.sent.now = r] /\ UNCHANGED <<tab, request, invite, minted>>
        BY <1>5 DEF PickRole, rest, server
    <2>2. board'.told = board.told /\ board'.shown = board.shown
        BY <2>1 DEF TabInv, ScreenOK, BoardState
    <2> QED  BY <2>1, <2>2 DEF ToldInv, ToldOK
<1> QED  BY <1>1, <1>2, <1>3, <1>4, <1>5 DEF PersonStep

LEMMA ToldNext == TabInv /\ ToldInv /\ [Next]_vars => ToldInv'
<1> SUFFICES ASSUME TabInv, ToldInv, [Next]_vars PROVE ToldInv'
    OBVIOUS
<1>1. CASE OthersStep
    BY <1>1, OthersLeaveTab, ToldKept DEF tabs
<1>2. CASE UNCHANGED vars
    BY <1>2, ToldKept DEF vars
<1> QED  BY <1>1, <1>2, ToldPerson, ToldPage, ToldGateway DEF Next

\* However a list and an invite overtake each other, and whatever other owners
\* do: a list that is shown after the toast has the invite the toast told of,
\* unless it is gone (pages/admin.rs: invites.restart() after each change).
THEOREM ToldInvitesAreListed == Spec => []InvitesAreAsTold
<1>1. Init => ToldInv
    <2> SUFFICES ASSUME Init PROVE ToldInv
        OBVIOUS
    <2>1. board.told = None /\ request["post"].pc = "idle" /\ invite = {}
        BY DEF Init, BoardAnew, Calls, NoCall
    <2> QED  BY <2>1 DEF ToldInv, ToldOK, RowsOK, Arrived
<1>2. TabInv /\ ToldInv /\ [Next]_vars => ToldInv'
    BY ToldNext
<1> QED  BY <1>1, <1>2, TabInvariant, ToldInvSuffices, PTL DEF Spec

-----------------------------------------------------------------------------
(***************************************************************************)
(* The settings form                                                       *)
(***************************************************************************)

\* What was not typed in reads as what the form knows.
Reads(text, base, edited) == \A f \in Fields \ edited : text[f] = TextOf(base)[f]

\* What was not typed in is sent as what the form knows, but for cents.
SendsBack(all, base, edited) ==
    \A f \in Fields \ edited : all[f] = base[f] \/ (f = "dues" /\ base.dues % CentsPerUnit # 0)

\* A save under way is written, and is known from then on, or is not, and what
\* was typed is still to be saved.
FormOK(fm, save) ==
    fm.mounted =>
        IF save.pc = "idle" THEN Reads(fm.text, fm.base, fm.edited)
        ELSE /\ save.arg = fm.sent.all
             /\ SendsBack(fm.sent.all, fm.base, fm.sent.edited)
             /\ Reads(fm.text, fm.sent.all, fm.edited)
             /\ Reads(fm.text, fm.base, fm.edited \cup fm.sent.edited)

SaveInv == FormOK(form, request["save"])

\* Whole units come back from cents, and cents from whole units.
LEMMA WholeUnits ==
    ASSUME NEW d \in Nat
    PROVE  /\ (d * CentsPerUnit) \div CentsPerUnit = d
           /\ d % CentsPerUnit = 0 => (d \div CentsPerUnit) * CentsPerUnit = d
<1>1. CentsPerUnit \in Nat \ {0}
    BY BrowserAssumption
<1>2. (d * CentsPerUnit) \div CentsPerUnit = d
    BY <1>1
<1>3. d % CentsPerUnit = 0 => (d \div CentsPerUnit) * CentsPerUnit = d
    BY <1>1
<1> QED  BY <1>2, <1>3

LEMMA TextIs ==
    ASSUME NEW s \in Stored
    PROVE  /\ TextOf(s).name = s.name /\ TextOf(s).cadence = s.cadence
           /\ TextOf(s).dues = s.dues \div CentsPerUnit
BY DEF TextOf, Stored

\* What "Save changes" sends.
LEMMA PressSends ==
    ASSUME NEW text \in Stored, NEW base \in Stored, NEW edited, NEW all,
           all = [text EXCEPT !.dues = text.dues * CentsPerUnit], all \in Stored,
           Reads(text, base, edited)
    PROVE  /\ SendsBack(all, base, edited) /\ Reads(text, all, {})
           /\ Reads(text, base, edited)
<1>1. all.name = text.name /\ all.cadence = text.cadence /\ all.dues = text.dues * CentsPerUnit
    BY DEF Stored
<1>2. text.dues \in Nat /\ base.dues \in Nat
    BY DEF Stored
<1>3. Reads(text, all, {})
    BY <1>1, <1>2, WholeUnits, TextIs DEF Reads, Fields
<1>4. ASSUME NEW f \in Fields \ edited
      PROVE  all[f] = base[f] \/ (f = "dues" /\ base.dues % CentsPerUnit # 0)
    <2>1. text[f] = TextOf(base)[f]
        BY DEF Reads
    <2>2. CASE f \in {"name", "cadence"}
        BY <1>1, <2>1, <2>2, TextIs
    <2>3. CASE f = "dues" /\ base.dues % CentsPerUnit = 0
        <3>1. (base.dues \div CentsPerUnit) * CentsPerUnit = base.dues
            BY <1>2, <2>3, WholeUnits
        <3>2. text.dues = base.dues \div CentsPerUnit
            BY <2>1, <2>3, TextIs
        <3> QED  BY <1>1, <2>3, <3>1, <3>2
    <2> QED  BY <2>2, <2>3 DEF Fields
<1> QED  BY <1>3, <1>4 DEF SendsBack

LEMMA SaveKept ==
    ASSUME SaveInv, UNCHANGED form, request'["save"].arg = request["save"].arg,
           request'["save"].pc = "idle" <=> request["save"].pc = "idle"
    PROVE  SaveInv'
BY DEF SaveInv, FormOK

LEMMA SaveLoads == ASSUME NEW p, NEW v, NEW tok, NEW st, Load(p, v, tok, st) PROVE SaveInv'
BY DEF Load, SaveInv, FormOK, FormAnew

LEMMA SavePress == ASSUME TabInv, SaveInv, PressSave PROVE SaveInv'
<1> DEFINE all == [form.text EXCEPT !.dues = form.text.dues * CentsPerUnit]
<1>1. /\ form.mounted /\ form.text \in Stored /\ form.base \in Stored /\ form \in FormState
      /\ request["save"].pc = "idle" /\ "save" \in Calls /\ DOMAIN request = Calls
    BY NoneAssumption DEF PressSave, TabInv, MountsOK, ScreenOK, CallsOK, Calls
<1>2. all \in Stored
    <2>1. form.text.dues \in Nat
        BY <1>1 DEF Stored
    <2>2. form.text.dues * CentsPerUnit \in Nat
        BY <2>1, Units
    <2> QED  BY <1>1, <2>2 DEF Stored
<1>3. /\ form' = [form EXCEPT !.sent = [all |-> all, edited |-> form.edited], !.edited = {}]
      /\ request'["save"] = Sent(token, tab.slug, all)
    BY <1>1 DEF PressSave
<1>4. PICK x : x = all
    OBVIOUS
<1>5. SendsBack(x, form.base, form.edited) /\ Reads(form.text, x, {})
      /\ Reads(form.text, form.base, form.edited)
    <2>1. Reads(form.text, form.base, form.edited)
        BY <1>1 DEF SaveInv, FormOK
    <2> QED  BY <1>1, <1>2, <1>4, <2>1, PressSends
<1> HIDE DEF all
<1>6. /\ form'.text = form.text /\ form'.base = form.base /\ form'.edited = {}
      /\ form'.sent.all = x /\ form'.sent.edited = form.edited
    BY <1>1, <1>3, <1>4 DEF FormState
<1>7. request'["save"].pc # "idle" /\ request'["save"].arg = x
    BY <1>3, <1>4 DEF Sent, NoCall
<1>8. form'.edited \cup form'.sent.edited = form.edited
    BY <1>6
<1> QED  BY <1>5, <1>6, <1>7, <1>8 DEF SaveInv, FormOK

LEMMA SaveToldReads == ASSUME TabInv, SaveInv, SaveTold PROVE SaveInv'
<1>1. /\ {"venture", "save"} \subseteq Calls /\ DOMAIN request = Calls /\ request["save"].pc = "answered"
      /\ form.mounted /\ form \in FormState /\ form.sent \in Saves
    BY DEF SaveTold, Calls, TabInv, CallsOK, MountsOK, ScreenOK, FormAnew
<1>2. request'["save"].pc = "idle"
    BY <1>1 DEF SaveTold, NoCall
<1>3. /\ Reads(form.text, form.sent.all, form.edited)
      /\ Reads(form.text, form.base, form.edited \cup form.sent.edited)
    BY <1>1 DEF SaveInv, FormOK
<1>4. CASE request["save"].kind = "data"
    <2>1. form' = [form EXCEPT !.base = form.sent.all, !.sent = None]
        BY <1>4 DEF SaveTold
    <2>2. form'.text = form.text /\ form'.base = form.sent.all /\ form'.edited = form.edited
        BY <1>1, <2>1 DEF FormState
    <2> QED  BY <1>2, <1>3, <2>2 DEF SaveInv, FormOK
<1>5. CASE request["save"].kind # "data"
    <2>1. form' = [form EXCEPT !.edited = form.edited \cup form.sent.edited, !.sent = None]
        BY <1>5 DEF SaveTold
    <2>2. form'.text = form.text /\ form'.base = form.base /\ form'.edited = form.edited \cup form.sent.edited
        BY <1>1, <2>1 DEF FormState
    <2> QED  BY <1>2, <1>3, <2>2 DEF SaveInv, FormOK
<1> QED  BY <1>4, <1>5

LEMMA SaveEdit == ASSUME TabInv, SaveInv, NEW f \in Fields, NEW value, Edit(f, value) PROVE SaveInv'
<1>1. /\ form.mounted /\ form.text \in Stored /\ form \in FormState
      /\ request' = request
      /\ form' = [form EXCEPT !.text[f] = value, !.edited = form.edited \cup {f}]
    BY DEF Edit, TabInv, MountsOK, ScreenOK
<1>2. /\ form'.edited = form.edited \cup {f} /\ form'.base = form.base /\ form'.sent = form.sent
      /\ form'.mounted /\ form'.text = [form.text EXCEPT ![f] = value]
    BY <1>1 DEF FormState
<1>3. \A g \in Fields \ {f} : form'.text[g] = form.text[g]
    BY <1>1, <1>2 DEF Stored
<1>4. ASSUME NEW base, NEW edited, Reads(form.text, base, edited)
      PROVE  Reads(form'.text, base, edited \cup {f})
    BY <1>3, <1>4 DEF Reads
<1>5. CASE request["save"].pc = "idle"
    BY <1>1, <1>2, <1>4, <1>5 DEF SaveInv, FormOK
<1>6. CASE request["save"].pc # "idle"
    <2>1. (form.edited \cup form.sent.edited) \cup {f} = form'.edited \cup form'.sent.edited
        BY <1>2
    <2>2. /\ Reads(form'.text, form.sent.all, form'.edited)
          /\ Reads(form'.text, form.base, form'.edited \cup form'.sent.edited)
        BY <1>1, <1>2, <1>4, <1>6, <2>1 DEF SaveInv, FormOK
    <2> QED  BY <1>1, <1>2, <1>6, <2>2 DEF SaveInv, FormOK
<1> QED  BY <1>5, <1>6

LEMMA SaveManageShown == ASSUME TabInv, SaveInv, ManageShown PROVE SaveInv'
<1>1. {"venture", "save"} \subseteq Calls /\ DOMAIN request = Calls
    BY DEF Calls, TabInv, CallsOK
<1>2. request'["save"] = IF form'.mounted THEN request["save"] ELSE NoCall
    BY <1>1 DEF ManageShown
<1>3. CASE form' = FormAnew
    BY <1>3 DEF SaveInv, FormOK, FormAnew
<1>4. CASE form' = form
    BY <1>2, <1>4 DEF SaveInv, FormOK
<1>5. CASE ~form.mounted /\ form' = Filled(venture'.data.settings) /\ venture'.kind = "data"
    <2>1. venture'.data.settings \in Stored
        <3>1. At("manage") /\ request["venture"].pc = "answered" /\ venture' = Shown("venture")
            BY DEF ManageShown
        <3> QED  BY <1>1, <1>5, <3>1, CallIs DEF Shown, CallOK, At
    <2>2. /\ form'.mounted /\ form'.text = TextOf(form'.base) /\ form'.edited = {}
        BY <1>5, <2>1, FilledOK
    <2>3. request'["save"].pc = "idle"
        BY <1>2, <1>5, <2>2 DEF TabInv, MountsOK
    <2> QED  BY <2>2, <2>3 DEF SaveInv, FormOK, Reads
<1> QED  BY <1>3, <1>4, <1>5 DEF ManageShown

LEMMA SaveNext == TabInv /\ SaveInv /\ [Next]_vars => SaveInv'
<1> SUFFICES ASSUME TabInv, SaveInv, [Next]_vars PROVE SaveInv'
    OBVIOUS
<1>0. {"post", "list", "row", "save", "venture", "ventures", "detail"} = Calls /\ DOMAIN request = Calls
    BY DEF Calls, TabInv, CallsOK
<1>1. ASSUME \/ \E p, v : GoTo(p, v)
             \/ \E v : Pick(v)
             \/ SignOut
             \/ \E u : Issue(u)
      PROVE  SaveInv'
    BY <1>1, SaveLoads DEF GoTo, Pick, SignOut, Issue
<1>2. CASE LoginStep
    <2>1. ASSUME NEW l, Signs(l)  PROVE SaveInv'
        BY <2>1, SaveKept DEF Signs, others
    <2> QED  BY <1>1, <1>2, <2>1 DEF LoginStep, ShowPanel, Submit, PasswordTaken, PasswordRefused,
                ClickGoogle, GoogleDismissed, GooglePicked, GoogleTaken, GoogleRefused
<1>3. ASSUME \/ VenturesShown \/ VenturesNotShown \/ DetailShown \/ OwnerShown \/ ListShown
             \/ SendTold \/ RowTold
             \/ \E e, r : PressSend(e, r) \/ PickRole(r)
             \/ \E op, i : PressRow(op, i)
      PROVE  SaveInv'
    <2>1. request'["save"] = request["save"] /\ form' = form
        BY <1>0, <1>3 DEF VenturesShown, VenturesNotShown, DetailShown, OwnerShown, ListShown, SendTold,
                          RowTold, PressSend, PickRole, PressRow
    <2> QED  BY <2>1, SaveKept
<1>4. CASE GatewayStep
    BY <1>0, <1>4, GatewayKeeps, SaveKept DEF page, SameCalls
<1>5. CASE OthersStep \/ UNCHANGED vars
    BY <1>5, OthersLeaveTab, SaveKept DEF tabs, vars
<1>6. PersonStep => SaveInv'
    BY <1>1, <1>2, <1>3, SaveEdit, SavePress DEF PersonStep
<1>7. PageStep => SaveInv'
    BY <1>3, SaveManageShown, SaveToldReads DEF PageStep, DashboardStep
<1> QED  BY <1>4, <1>5, <1>6, <1>7 DEF Next

\* Only the write of a save answers it so.
LEMMA WritesIsWriteSettings == ASSUME TabInv, [Next]_vars, Writes PROVE WriteSettings
<1>0. /\ {"post", "list", "row", "save", "venture", "ventures", "detail"} = Calls /\ DOMAIN request = Calls
      /\ request["save"].pc = "write" /\ request'["save"].pc = "answered" /\ request'["save"].kind = "data"
    BY DEF Calls, TabInv, CallsOK, Writes
<1>1. request'["save"] # request["save"] /\ request'["save"].pc # "idle" /\ form.sent # None
    BY <1>0, NoneAssumption DEF TabInv, MountsOK
<1>2. ~PersonStep
    <2>1. ASSUME NEW p, NEW v, NEW tok, NEW st, Load(p, v, tok, st)  PROVE FALSE
        BY <1>0, <2>1 DEF Load, NoCall
    <2>2. ASSUME LoginStep  PROVE FALSE
        BY <1>1, <2>1, <2>2 DEF LoginStep, ShowPanel, Submit, PasswordTaken, PasswordRefused,
           ClickGoogle, GoogleDismissed, GooglePicked, GoogleTaken, GoogleRefused, Signs, others, Issue
    <2> QED  BY <1>0, <1>1, <2>1, <2>2 DEF PersonStep, GoTo, Pick, SignOut, Edit, PressSave, PressSend,
                PickRole, PressRow
<1>3. ~PageStep
    BY <1>0, <1>1 DEF PageStep, DashboardStep, VenturesShown, VenturesNotShown, DetailShown, ManageShown,
       SaveTold, OwnerShown, ListShown, SendTold, RowTold, NoCall
<1>4. ~OthersStep /\ ~UNCHANGED vars
    BY <1>1, OthersLeaveTab DEF tabs, vars
<1>5. GatewayStep => WriteSettings
    <2>1. ASSUME NEW c \in Calls, request[c].pc # "idle", NEW k, NEW d, Answer(c, k, d),
                 k # "data" \/ c # "save"
          PROVE  FALSE
        BY <1>0, <1>1, <2>1, AnswerKeeps
    <2>2. ~ServeVentures
        BY <1>0, <2>1 DEF ServeVentures
    <2>3. ~ServeDetail
        BY <1>0, <2>1 DEF ServeDetail
    <2>4. ~ServeRole
        BY <1>0, <1>1 DEF ServeRole, Answer
    <2>5. ~ServeSettings
        BY <1>0, <2>1 DEF ServeSettings
    <2>6. ~CheckOwner
        BY <1>0 DEF CheckOwner
    <2>7. ~ServeList /\ ~ServePost /\ ~ServeConflict /\ ~ServeRow
        BY <1>0, <2>1 DEF ServeList, ServePost, ServeConflict, ServeRow, OwnerAsks
    <2>8. \A c \in Calls : ~Unauthorized(c) /\ ~Fail(c) /\ ~NotOwner(c)
        BY <2>1 DEF Unauthorized, Fail, NotOwner
    <2> QED  BY <1>0, <2>2, <2>3, <2>4, <2>5, <2>6, <2>7, <2>8 DEF GatewayStep
<1> QED  BY <1>2, <1>3, <1>4, <1>5 DEF Next

LEMMA SaveExplained ==
    ASSUME TabInv, SaveInv, [Next]_vars, Writes, NEW v \in Ventures, NEW f \in Fields,
           settings'[v][f] # settings[v][f]
    PROVE  /\ v = tab.slug
           /\ \/ f \in form.sent.edited
              \/ settings[v][f] # form.base[f]
              \/ f = "dues" /\ form.base.dues % CentsPerUnit # 0
<1>1. WriteSettings
    BY WritesIsWriteSettings
<1>2. /\ "save" \in Calls /\ request["save"].pc = "write"
      /\ settings' = [settings EXCEPT ![request["save"].about] = request["save"].arg]
    BY <1>1 DEF WriteSettings, Calls
<1>3. request["save"].about = tab.slug /\ form.mounted
    BY <1>2, CallIs DEF CallOK, TabInv, MountsOK
<1>4. v = tab.slug /\ settings'[v] = request["save"].arg
    BY <1>2, <1>3 DEF TabInv, ServerOK
<1>5. request["save"].arg = form.sent.all /\ SendsBack(form.sent.all, form.base, form.sent.edited)
    BY <1>2, <1>3 DEF SaveInv, FormOK
<1> QED  BY <1>4, <1>5 DEF SendsBack

\* A save sends every field of the form.  Even so, and however it interleaves
\* with typing, with a second save and with other owners, what it changes was
\* typed, or was changed by others since the form knew it, or is the cents of
\* the dues (pages/venture.rs, ManagePage; routes/settings.rs, patch_settings).
THEOREM SavesExplained == Spec => SavesAreExplained
<1>1. Init => SaveInv
    BY DEF Init, SaveInv, FormOK, FormAnew
<1>2. TabInv /\ SaveInv /\ [Next]_vars => SaveInv'
    BY SaveNext
<1>3. TabInv /\ SaveInv /\ [Next]_vars =>
          [Writes => \A v \in Ventures, f \in Fields :
              settings'[v][f] # settings[v][f] =>
                  /\ v = tab.slug
                  /\ \/ f \in form.sent.edited
                     \/ settings[v][f] # form.base[f]
                     \/ f = "dues" /\ form.base.dues % CentsPerUnit # 0]_vars
    BY SaveExplained
<1> QED  BY <1>1, <1>2, <1>3, TabInvariant, PTL DEF Spec, SavesAreExplained
=============================================================================
