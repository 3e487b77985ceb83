# Sharam ledger: a TLA+ model

Sharam is a ledger for groups ("ventures") whose members pay dues per period.
An axum gateway (`crate/gateway`) answers a web client, keeps one SurrealDB
database per venture and one control database, and leaves the two rules that
protect the money, the period lock and the dues cap, to events in the
database schema. This directory holds TLA+ modules of that system, TLC runs
over them and TLAPS proofs about them.

## Inventory

| Component | State | Operations | What must be right |
|---|---|---|---|
| Venture database (`ledger/schema/tenant`) | settings, contribution rows, carry-forward | CREATE, UPDATE, DELETE with ASSERTs and events | no write overpays a member; a past period only shrinks; a void can be re-collected |
| Payment endpoint (`routes/contributions.rs`, `client.rs`) | one handler per request, over the database | `post_contribution` and its awaits | rows are well filed; receipts are true; retries stay below the cap; every request ends |
| Periods (`common/domain.rs`) | none | `current_in`, `Display`, parsing | two clocks and a byte order that agree where they are compared |
| Settings endpoint (`routes/settings.rs`) | settings | `patch_settings` | payments in flight are not torn by it; a save changes what was typed |
| Reports (`routes/contributions.rs`) | one handler per request | mine, pool, active periods, accumulation | sums agree with the rows shown, whatever happens between two reads |
| Invites and memberships (`routes/invites.rs`, `ledger/schema/control`) | invite, membership | create, revoke, delete, accept at sign-in | one invite per email and venture; an accepted invite has its membership |
| Users and sign-in (`routes/auth.rs`) | user | register, login, Google | one row per email; a password is set once |
| Provisioning (`routes/tenants.rs`, `main.rs`) | directory, membership, schemas, settings, the process | `create_tenant`, the start with its migration | one founder per slug; a listed venture is complete; who serves has migrated |
| Carry-forward (`routes/carry_forward.rs`) | one row | set once | written once, by an owner |
| Google key cache (`auth/google.rs`) | key set and its age | verify, refresh | keys are Google's of late, whatever order answers come in |
| Proof storage (`routes/proofs.rs`, `storage`) | objects | upload, presign | what the form takes is stored; a key belongs to one venture |
| Create-venture page (`pages/create_tenant.rs`) | a form, two requests | type, submit, answers | what it says is so; every submit is answered |
| Venture pages (`pages/venture.rs`) | resources, two forms | load, choose, pay, save | figures and form agree with the database; no stale answer is shown |
| Tab, sidebar, dashboard, login (`pages/*.rs`, `api.rs`) | localStorage, one page at a time | sign in and out, pick, navigate | the dashboard is of one venture, and of the user's |
| Invites page (`pages/admin.rs`) | a list, a form | send, revoke, delete | the list shows what was acknowledged |

The components meet in the database. A handler is a chain of awaits and holds
no lock across them; the database runs one statement, with its events, as one
transaction, and the control database and a venture's own share none. What is
hard is what happens between two awaits: other requests, a change of the
settings, the turn of a period, a failure, the death of the process, an answer
that is lost and a client that tries again. In the browser it is what happens
between a request and its answer: fields are typed in, resources restarted,
panels closed, and other tabs write the same localStorage.

## Plan

All steps are done; the order was that of what a mistake would cost.

1. `TenantDb`: the rules of the database, against any statement.
2. `DuesBook`, `Contributions`: the abstract book and the payment endpoint
   that implements it. Proofs of both.
3. `Invites`: users, invites, memberships and sign-in over the control
   database. Proofs.
4. `Registry`, `Provisioning`, `CreateVenture`: how a venture comes to be, from
   the form to the tables, through crashes. Proofs.
5. `Reports`, `VenturePage`: what members are told of their money, and the page
   from which they pay. Proofs.
6. `Browser`, `WebClient`: sessions, selection, settings and invites in a tab.
   Proofs.
7. `GoogleKeys`: overlapping fetches and the time to live. Proofs.

What would come next: the link from `Invites` to the `Join` of `Contributions`,
which is now stated twice.

## Modules

`Periods` models `Period`, its two clocks and the byte order of its strings.
A period is the record of what its string says. `Calendar` is a parameter that
gives the period an instant lies in, for each zone and cadence; all that is
assumed (`CalendarAssumption`) is that a calendar returns periods of the
cadence asked for and that UTC never moves back. Local zones may.

`Money` defines the sum of the amounts of rows as the number of cents in them,
without recursion, so that theorems can be proved about it.

`TenantDb` models the tables `settings` and `contribution` with the events
`contribution_lock_check`, `contribution_dues_cap` and
`contribution_delete_lock`. Any row that satisfies the field ASSERTs may be
created, any row replaced by any other with its id, any row deleted: the
schema says it must hold against "even a buggy/replayed app request". The
actions' guards are the events. A refused statement is rolled back and is no
step.

`Contributions` extends `TenantDb` with the handlers of
`POST /tenants/{slug}/contributions`. `call[c]` holds the locals of request
`c` and where it waits:

| Action | Code |
|---|---|
| `Submit` | a signed-in client calls; token and slug are in order |
| `CheckMember` | `caller_is_member`, then the check of the amount |
| `ReadSettings` | `settings_for` |
| `DerivePeriod` | `current_period_for`, by the gateway's clock |
| `Create`, `CreateThrows`, `CreateUnacknowledged` | `add_contribution`: committed, refused by an event, or committed with the answer lost |
| `ReadDues`, `ReadAmounts` | the two statements of `period_summary` |
| `Fail` | any other way out: a statement fails, the client hangs up, the proof key is not of this venture |
| `Join`, `PatchSettings`, `Clock` | everybody else |

`DuesBook` is the abstract specification: a total per member and period that
only grows, by payments that fit the dues of the moment, never for a period
that is over in UTC. `Contributions` implements it under the mapping
`paid[u][p] = Paid(contribution, u, p)` (`KeepsTheBook`).

`Invites` models the control database and the handlers that write it: sign-ins
(`signin[s]`) and the owners' desk (`desk[d]`), each holding what its handler
read so far.

| Action | Code |
|---|---|
| `FoundVenture` | the last transaction of `create_tenant`: directory entry and owner |
| `GoogleSignIn` | `upsert_user`, by the address as Google gives it |
| `PasswordSignIn` | `login`, once the password matched |
| `Register`, `CreateUser`, `AttachPassword` | `create_password_user`: the look, then one of its two writes |
| `ListInvites`, `WriteMembership`, `MarkAccepted` | `accept_pending_invites`: the list, then two statements per invite |
| `OwnerAsks` (`AsksToInvite`, `AsksToRemove`) | `require_owner` |
| `LookUp`, `CreateInvite`, `Reactivate` | `create_invite`: the look, then one of its two writes |
| `RevokeInvite`, `DeleteInvite` | one statement each |
| `SignInFails`, `DeskFails` | a statement fails (a unique index among the reasons) or the client hangs up |

`Emails` are addresses as some table may hold them, `Normal` those that
`trim().to_lowercase()` returns: invites, registrations and logins are
normalised, the address of a Google sign-in is not. An update of a row that is
gone changes nothing; whether the database reports it is left open, so the
handler may go on or fail.

`Provisioning` models `create_tenant` and `set_carry_forward` (`request[r]`) over
the tables of both databases, and the gateway process (`gateway`):

| Action | Code |
|---|---|
| `Start`, `ApplyControlSchema`, `ListVentures`, `Migrate`, `MigrationDone`, `Listen` | `main`, `Ledger::connect`, `migrate_all_tenants`, `ensure_bucket`: the release may differ from the last |
| `Stop` | the process dies, or a step of its start returns an error; requests in flight die with it |
| `AskToCreate`, `LookUpSlug`, `ApplySchema`, `CreateSettings`, `SettingsExist`, `Register` | `create_tenant`, statement by statement; the last one is the transaction of directory and owner |
| `AskToSeed`, `CheckOwner`, `LookForSeed`, `RecordSeed`, `SeedRefused` | `set_carry_forward` |
| `Fail`, `FailUnacknowledged` | a statement fails, or takes effect and its answer is lost |
| `Join`, `Rename` | invites that are accepted, and `patch_settings` |

`Registry` is the abstract specification: a slug is founded once and for good,
people are admitted and never removed, savings recorded once by one of them.
`Provisioning` implements it (`KeepsTheRegistry`): the founder is the directory's,
the roster the memberships, the savings the carry-forward.

`CreateVenture` adds the page (`form[f]`): `TypeName`, `TypeSlug`, `Submit`,
`SubmitRefused` and what it does with either answer (`Created`,
`CreatedThenSeed`, `NotCreated`, `Seeded`, `NotSeeded`), with answers lost on the
way (`LoseAnswer`). `FormText` holds `Slugify`, `ValidSlug` and
`parse_dues_to_cents` (`TakesMoney`, `Cents`) as operators on sequences of
characters; its alphabet has one or two characters of every class that the code
tells apart.

`Reports` models the four reports (`reader[q]`), each read a step, over `TenantDb`
and whatever others do: pay, void, change settings, join, seed, let time pass.
`Accumulation` holds `DecideBucket` and `BucketSeries`. `Receipts` says which files
the form takes, which the gateway takes, and which key a receipt gets
(`SanitizeEmailFrag`, `KeyOf`, `BelongsTo`). `VenturePage` puts the page on top:
panels as resources (`Open`, `Close`, `Loaded`, `Choose`) and the payment form
(`PickFile`, `FileRead`, `Press`, `ProofUploaded`, `UploadFailed`, `PaymentFiled`,
`Acknowledged`, `NotAcknowledged`).

`Browser` models one tab: `token` and `stored` in localStorage, the page and its
requests (`request[c]`, dropped by every navigation), the sidebar's selection
(`VenturesShown`), the dashboard's settings (`DetailShown`), both panels of the
login page, and other tabs. `WebClient` adds the settings form (`Edit`,
`PressSave`, `CheckOwner`, `WriteSettings`, `SaveTold`) and the invites page
(`PressSend`, `PressRow`, the gateway's answers, `SendTold`, `RowTold`).

`GoogleKeys` models `get_key` and `refresh_jwks` of several verifications at once,
each between its awaits, over a Google that publishes what it likes at every
instant.

Operators whose comment begins "Variant for the checks" are no part of any
specification. Each is a plausible mistake in the definition after it, which the
property named for it in `PROJECT.json` must catch.

`MoneyProofs`, `TenantDbProofs`, `ContributionsProofs`, `InvitesProofs`,
`CreateVentureProofs`, `VenturePageProofs`, `WebClientProofs` and `GoogleKeysProofs`
hold the proofs.

## Runs

| Run | Shows |
|---|---|
| `tenant_db` | types and unique ids; `NoWriteOverpays`, `PastOnlyShrinks`, `VoidAndRecollect` over every history of two rows |
| `row_immutable` | the schema's comment on immutability is not what the lock event does: it looks at the new version alone |
| `contributions` | well-filed rows, true receipts, the book, and the end of every request, with two requests at once |
| `remaining_never_negative` | the comment of `period_summary` is not what the code does when the dues are lowered in between |
| `locked_means_over` | the lock does not use the venture's zone, as the schema's comment has it, but UTC |
| `invites` | two sign-ins and two desks at once: one invite for an address in a venture, no accepted invite without its membership |
| `sign_ins` | invites to two ventures: a session means each was joined (`SignedInMeansMember`), nothing refers to what is not there (`NobodyFromNowhere`), every sign-in ends |
| `members_have_invites` | the comments on acceptance ("atomically") and on `delete_invite` are not what two statements do: the invite can be deleted between them |
| `active_invite_keeps_role` | the comment of `create_invite` is not what it does when two owners reactivate one row |
| `create_venture` | the page and another client, failing statements, lost answers, a gateway that dies and returns as another release: a listed venture is complete (`ListedMeansComplete`) and migrated (`ServingMeansMigrated`), rivals for a slug do not meet (`OneRegistrar`), the tables are the registry, what the page says is true (`PagesTellTheTruth`), the gateway comes back, every submit is answered; slugs and amounts are what was typed |
| `venture_page` | reports torn by what happens between their reads still add up (`PoolAddsUp`, `MineAddsUp`, `HistoryAddsUp`), the form offers what the cap lets in (`OffersWhatFits`), lists show what was acknowledged or picked, receipts travel with their payment and find their way back |
| `web_client` | late answers belong to the page that asked (`WebTypeOK`), the dashboard is of one venture of the user's, a save changes what it can be blamed for (`SavesAreExplained`), the invites list shows what was sent, keys are Google's of late |

Bounds. The clock passes three instants, enough for a period to be open, to be
over in UTC alone, and to be over everywhere; in `TenantDb` week, month and
year end at different instants. Two rows with amounts 1 and 2 and dues up to 2
reach and pass the cap; amount 0 and dues -1 meet the ASSERTs. `Contributions`
has two slots for requests, so each may meet the other at every await, and
three rows, so a request can be tried again after its answer was lost. There
is one payer in both runs: totals of different payers never meet, and the
proofs cover any number. Symmetry is used over row ids in `tenant_db` only,
which checks no liveness.

In `Invites` two rows are enough for two invites of one sign-in, and for one
that was deleted and is made again under a new id. One address (`bo`) is in
normal form and can be invited, register and log in; the other is one that
Google alone gives. `invites` has one venture and two slots of each kind, so
that any two statements may meet; `sign_ins` has two ventures, so that the loop
turns more than once and owners differ, and one slot of each kind. Symmetry of
slots is used in `invites` alone, which checks no liveness.

In `create_venture` there are one slug, one text that is too short for one, two
requests at once (the page of ana, a client of bo) and one stop of the process,
between any two steps; of two releases and two seeds one each is enough to differ.
Slugs have two or three characters in place of 3 to 41: `Slugify` is checked over
all names of up to five characters of four classes, so names end, break off and
begin at every position of the limit, and amounts over all texts of up to four
characters. A claim about all of those texts rides on a claim about the state, so
it is evaluated in every state, and is as true in one as in the next.

In `venture_page` one panel is on the screen at once - panels share no state but
the database - and others move two or three times before and while it is there:
pool and history, whose reads lie furthest apart, get three. Two payments, two
members, one turn of month and year, dues of 2 per month or donations per year.
Keys are checked over all emails of up to four characters and slugs of which one
begins with another; the accumulation over all sets of up to three payments at
three instants. Row ids are symmetric; no liveness is checked there.

In `web_client` a behaviour stays with one part - dashboard, settings, invites, or
the keys - because the parts share no variable that both write: what is true of
each is true of the product. Two accounts and two ventures with all roles between
them, one session, one invite, one move of somebody else, dues with cents and
without. The clock of the keys has three instants past the first, one more than
the time to live; the two verifications are symmetric. No liveness is checked.

Fairness. `FairAppSpec` assumes weak fairness of each handler: the runtime
polls every future whose await is over, and each await of the handler ends
with an answer or an error. `FairSpec` of `Invites` assumes the same of each
sign-in. `FairSpec` of `CreateVenture` assumes it of each handler, of each page's
step with an answer that is there, and of the start of the gateway: `compose.yaml`
says `restart: unless-stopped`, so a process that ended is started again, and the
steps of its start are awaits like any other. The bound on stops is what "not
stopped for ever" means. Nothing is assumed of clients, owners, the clock or
failures.

Deadlock is checked in every run but `web_client`, where nobody need do anything
any more: the tab may rest, and the clock of the keys ends.

## Proofs

TLAPS proves, for any constants that satisfy the named assumptions:

- `TypeCorrect`, `CapHolds`, `LockHolds`, `VoidHolds`: everything `tenant_db`
  checks. `TypeOK` is inductive and carries what the others need: the table is
  finite and ids name one row. The cap rests on `PaidMonotone` (fewer counted
  rows sum to no more), the lock on `OverStaysOver` (a period that is over
  stays over, from the order of periods and `CalendarAssumption`), the void on
  `TotalSwap` (a row replaced by one of the same amount).
- `GatewayImplementsDb`: the endpoint's steps are steps of `TenantDb`, so all
  of the above holds behind it (`GatewayCapHolds`).
- `AppTypeCorrect`, `FilingHolds`, `ReceiptsHold`: the inductive invariant is
  `AppInv`. A receipt is true because of what the handler knew at each await
  before it (`HandlerKnows`), and what a handler knows lasts while others add
  rows and members (`KnowledgeLasts`): the gateway never removes either.
- `BookHolds`: the endpoint implements `DuesBook`. A CREATE adds exactly its
  amount to one total (`CreateAdds`), and `HandlerKnows` says the period it is
  filed under is of the row's cadence, which is what makes the lock of the row
  the lock of the page.
- `InvitesTypeCorrect`, `AcceptanceHolds`, `SessionsHold`, `OriginsHold`: the
  inductive invariant adds what each handler still knows of the tables
  (`SignInKnows`, `DeskKnows`). That knowledge survives the writes of others
  because no user, venture or member is lost and an id keeps its venture and
  address (`TablesGrow`), although rows are revoked, deleted and made again.

- `CreateVentureProofs`: `TypeCorrect`, `ListedHolds`, `RegistrarIsAlone`,
  `MigratedHolds`, `PagesAreTrue` and `RegistryHolds`, for any number of pages,
  requests, ventures, releases and stops. The invariant of the gateway, `ProvInv`,
  says of each request what it has found out and nobody can undo (`RequestTrue`):
  past the settings it wrote them, and alone (`Alone`), since a second CREATE is
  refused and no other is waiting there; the schema it defined is the serving
  release's, since no request outlives its process. `ProcessTrue` says how far the
  migration is. On top of it `FormsInv` says what each page may conclude from how
  far its own request is (`PageWaits`), and `Grows` that what it has said stays so.
  `NamesHold` and `MoneyHolds` are about the texts of the form: whatever the name,
  `slugify` makes a slug of it or something too short (`SlugifyMakesSlugs`), and an
  amount is worth what is written (`AmountsAreTexts`), for texts of any length.
- `VenturePageProofs`, over any ledger that others write to between any two reads.
  `PageInv` is `PageTypeOK` and what makes it inductive: what the handler of each
  report holds at each of its reads (`ReaderOK`), and that the ledger is in order.
  Three lemmas say what any step does to a panel and its report (`EveryPanelMoves`),
  to the form (`EveryFormMoves`) and to the ledger (`EveryLedgerMoves`: people only
  join, and a payment is filed or voided, never changed otherwise); each property
  then has an invariant about its own part of the state.
  - `PoolDoesAddUp`, `AuditFollowsChoice`: `PoolOK` says of the rows already read
    that each payer was a member before the members are counted, and that a report
    under way is of the period picked last.
  - `MineDoesAddUp`, `FormOffersWhatFits`: a listed row is in the table or was voided
    there since (`RowsTrue`). The list is read before the sum, so the sum covers what
    of the list still counts and never exceeds what was on record; and it is exact
    while the list is that of the table (`MineTrue`), which is what the form's offer
    rests on.
  - `ListDoesShowAcknowledged`: the row that the form was told of is in every list
    read after the answer (`ListOK`), because the answer restarts the report.
  - `HistoryDoesAddUp`: over any finite set of payments, `BucketSeries` puts each in
    one bucket and carries the sums on (`SeriesAddsUp`), and the last total is what
    there is (`LifetimeIs`). What is shown is dated by the carry-forward, written once.
  - `ReceiptsTravel`, `ReceiptsDoFindHome`: the form's files are ones it took
    (`TakenOK`). The keys are a matter of texts, proved for texts of any length:
    the part of an email is safe (`FragIsSafe`), the same when made again
    (`FragIsKept`), and two ventures' prefixes never begin the same key
    (`OnePrefix`), because a slug has no slash.
- `WebClientProofs`: `TabInv` is `WebTypeOK` with what each page has under way, so
  that a form or a list that is gone has no answer coming. On top of it:
  - `DashboardHasOneVenture`: settings asked for are of the selected venture
    (`DashInv`), since whatever changes the selection asks again.
  - `ToldInvitesAreListed`: a number names one invite of one venture for good
    (`RowsOK`), and the told one is in every list read since (`ToldInv`).
  - `SavesExplained`, an action property: what the form holds differs from what it
    was filled with in the edited fields only, also while a save is under way
    (`SaveInv`); so what a save changes was typed, or was changed by others, or is
    the cents of the dues that the form rounds away.
- `KeysFresh`: the invariant dates each key set by the instant Google composed it,
  which is at most a timeout before it was stored.

What a recursive function computes is proved without the induction theorems of the
library: among the steps of a loop that break a claim there is a first
(`LeastNumber`), and the one before it did not. The function of a loop is shown to
exist in the same way (`SeriesIs`, `DashesExist`, `SpellingExists`, `SummingExists`).

What these proofs assume is named where the constants are declared, and TLC
evaluates it in the runs. Most of it says that "no value" is none of the values, that
amounts and bounds are numbers, that roles and sidebars are those of the code, and
that people are finite in number (`TenantDbAssumption`, `NoneAssumption`,
`InvitesAssumption`, `ReportsAssumption`, `ProvisioningAssumption`,
`CreateVentureAssumption`, `BrowserAssumption`, `VenturePageAssumption`,
`GoogleKeysAssumption`, `YearLengthAssumption`). Beyond that:

- a calendar's periods are of the cadence asked for, and UTC never moves back
  (`CalendarAssumption`);
- the texts of an instance of `CreateVenture` are sequences of characters, closed
  under `Trimmed` and `Slugify`, and a slug has from `MinSlug` to `MaxSlug`
  characters, at least one (`FormTextAssumption`);
- the payments of `Samples` are finite in number, at instants, of whole amounts;
- files have sizes, and a slug has no slash in it, as `is_valid_slug` sees to
  (`ReceiptsAssumption`).

Every invariant and every step property that a passing run checks is proved. Model-checked
only are the liveness properties (`EveryCallEnds`, `SignInsEnd`, `ComesBack`,
`PagesAreAnswered`): the prover has no fairness.

## Noticed on the way

Behaviours that the models show and that no document settles, so that no property
is stated of them:

- Founding that dies between settings and directory leaves a slug that can never
  be founded: every retry is a 500 (`SettingsExist`).
- After "Tenant created but carry-forward seed failed" the fields stay, so that
  pressing the button again asks for the same venture and meets a conflict.
- `is_iso_date` takes 2026-13-45 and the schema does not; `parse_dues_to_cents` takes
  `0.-5`, although its comment says that it rejects negative values.
- A rename never reaches `tenant_directory.display_name`.
- Record payment does not wait for a file that is still being read: the payment
  goes without its receipt, which stays for the next one. An empty file is taken
  by the form and refused by the gateway.
- Treasurers are shown the settings form, whose save is for owners only. "Delete"
  is offered for a revoked invite that was accepted, and always fails. The toast of
  a sent invite names the role picked by then, not the one sent.
- The selected venture outlives sign-out, and the pages of a venture named in the
  URL do not move the selection.
- Answers of Google stored out of order may put an older key set over a newer one
  (`StoreKeys`), so that a credential may be called unknown although a fetch that
  had its key was stored in between. The bound of `KeysAreGooglesOfLate` is what
  remains true.

## What is not modelled

- The isolation of SurrealDB: a statement and its events are one step. The cap
  depends on it.
- Tokens, passwords and signatures: a request is modelled from the point where
  its credentials are accepted, or its session has run out.
- The text of errors, mails, toasts and markup; that a refusal ends a request, and
  as which status, is modelled.
- Sums near 2^63: amounts are bounded by what people pay.
- Which password a user row holds: only whether there is one.
- The calendar itself: `Calendar` is a parameter, so chrono's arithmetic is not
  checked, nor the parsing of periods, whose failures end a request.
- The object store: objects, presigned URLs, the creation of its bucket beyond
  being a step of the start.
- The connection cache of `Ledger`: a cached connection does what a new one does.
- `audit_log`, which nothing writes; invite mails, whose result nothing reads; the
  profile page and the members' table, which only show; the reading of
  configuration.
