---------------------------- MODULE VenturePage ----------------------------
(***************************************************************************)
(* What a member sees and does on a venture's pages                        *)
(* (sharam-ui/src/pages/venture.rs) over the reports and the database: the *)
(* panel of the own payments with its form (MyPeriodPanel, on the page or  *)
(* in the drawer), the audit log with its choice of a period, and the      *)
(* holding with its chart.                                                 *)
(*                                                                         *)
(* Each of them is a resource: a request is under way or not, and what is  *)
(* shown is what came back last.  Restarting a resource drops the request  *)
(* under way and keeps what is shown; closing it drops both, and the       *)
(* form's own tasks.                                                       *)
(***************************************************************************)
EXTENDS Reports, Receipts

CONSTANTS
    Files,     \* files on the member's disk
    SomeSlugs, SomeEmails, SomeIds,   \* texts for the check of the keys
    Modes,     \* what the chart's toggle offers besides "auto"
    Samples,   \* sets of points for the check of the accumulation
    MaxOpen,   \* bound: panels on the screen at once
    MaxMoves   \* MaxMoves[q]: bound on what everybody else does before and
               \* while panel q is on the screen

ASSUME VenturePageAssumption ==
    /\ None \notin Files
    /\ None \notin RowIds
    /\ Modes \subseteq {"yearly", "monthly"}
    /\ MaxMoves \in [Reports -> Nat]
    /\ \A points \in Samples :
          IsFiniteSet(points) /\ \A p \in points : p.at \in Instants /\ p.amount \in Nat

\* Sizes are numbers, and texts are characters; a slug that is_valid_slug lets
\* in has no slash.
ASSUME ReceiptsAssumption ==
    /\ MaxProofBytes \in Nat
    /\ \A f \in Files : f.size \in Nat
    /\ SomeSlugs \cup SomeEmails \cup SomeIds \subseteq Seq(STRING)
    /\ \A slug \in SomeSlugs : \A i \in DOMAIN slug : slug[i] # "/"

VARIABLES
    moves,    \* how often everybody else did something
    panel,    \* panel[q]: what is on the screen of report q
    form      \* the payment form of panel "mine"

allVars == <<ledgerVars, moves, reader, panel, form>>

Closed == [open |-> FALSE, chosen |-> None, shown |-> None]

\* reading: files picked and not read yet; staged: the one that goes with the
\* next payment.  A payment that was pressed has its amount, took the staged
\* file, uploads it, and is posted with the key, which opens that file alone;
\* row: what it is on record as, before the answer is back.  told: the row of the payment that was acknowledged last.
Blank == [pc |-> "edit", reading |-> {}, staged |-> None, amount |-> 0, took |-> None,
          proof |-> None, row |-> None, told |-> None]

FormState ==
    [pc : {"edit", "uploading", "posting"}, reading : SUBSET Files, staged : Files \cup {None},
     amount : Amounts \cup {0}, took : Files \cup {None}, proof : Files \cup {None},
     row : RowIds \cup {None}, told : RowIds \cup {None}]

IsData(answer) == answer \notin {None, Error}

\* What the audit log and the chart can be asked for.
ChoicesOf ==
    [mine |-> {None}, pool |-> KnownPeriods \cup {None}, periods |-> {None}, history |-> Modes \cup {None}]

Opened == {q \in Reports : panel[q].open}

-----------------------------------------------------------------------------

PageInit ==
    /\ ReportsInit
    /\ moves = 0
    /\ panel = [q \in Reports |-> Closed]
    /\ form = Blank

(***************************************************************************)
(* The resources                                                           *)
(***************************************************************************)

\* A panel comes on the screen, and its resource starts.
Open(q) ==
    /\ ~panel[q].open
    /\ Cardinality(Opened) < MaxOpen
    /\ moves <= MaxMoves[q]
    /\ panel' = [panel EXCEPT ![q].open = TRUE]
    /\ Holds(q, Ask(q, None))
    /\ UNCHANGED <<ledgerVars, moves, form>>

\* Variant for the checks: the request under way is not dropped.
CloseAndWait(q) ==
    /\ panel[q].open
    /\ panel' = [panel EXCEPT ![q] = Closed]
    /\ form' = IF q = "mine" THEN Blank ELSE form
    /\ UNCHANGED <<ledgerVars, moves, reader>>

\* It leaves the screen: the drawer is closed, or another page opened.  A
\* payment whose request has been sent may be filed all the same: OtherPays.
Close(q) ==
    /\ panel[q].open
    /\ panel' = [panel EXCEPT ![q] = Closed]
    /\ Holds(q, Quiet)
    /\ form' = IF q = "mine" THEN Blank ELSE form
    /\ UNCHANGED <<ledgerVars, moves>>

\* The answer is shown, or the error.
Loaded(q) ==
    /\ reader[q].pc = "answered"
    /\ panel' = [panel EXCEPT ![q].shown = reader[q].answer]
    /\ Holds(q, Quiet)
    /\ UNCHANGED <<ledgerVars, moves, form>>

\* What the audit log offers: the latest, the periods of the payments it was
\* told of, and the one it shows.  The chart offers its modes.
Choices(q) ==
    IF q = "history" THEN ChoicesOf[q]
    ELSE {None, panel[q].shown.period} \cup {r.period : r \in contribution}

\* Variant for the checks: the request under way is left to go on.
ChooseAndWait(q, choice) ==
    /\ IsData(panel[q].shown)
    /\ choice \in Choices(q)
    /\ panel' = [panel EXCEPT ![q].chosen = choice]
    /\ IF reader[q].pc = "idle" THEN Holds(q, Ask(q, choice)) ELSE UNCHANGED reader
    /\ UNCHANGED <<ledgerVars, moves, form>>

\* A choice sets the signal that the resource reads, which restarts it.
Choose(q, choice) ==
    /\ IsData(panel[q].shown)
    /\ choice \in Choices(q)
    /\ choice # panel[q].chosen
    /\ panel' = [panel EXCEPT ![q].chosen = choice]
    /\ Holds(q, Ask(q, choice))
    /\ UNCHANGED <<ledgerVars, moves, form>>

(***************************************************************************)
(* The payment form                                                        *)
(***************************************************************************)

pageVars == <<ledgerVars, moves, reader, panel>>

\* The figures are there, and they do not say SETTLED.
IsSettled(shown) == shown.dues > 0 /\ shown.remaining = 0

Offers(shown) == IsData(shown) /\ ~IsSettled(shown)

\* A click on a part of the form that is disabled while it submits.
Touches == form.pc = "edit" /\ Offers(panel["mine"].shown)

\* A file is picked that the form takes; its bytes are read in the background.
PickFile(f) ==
    /\ Touches
    /\ FormTakes(f)
    /\ form' = [form EXCEPT !.reading = @ \cup {f}]
    /\ UNCHANGED pageVars

\* The bytes are there, whatever was pressed or picked meanwhile.
FileRead(f) ==
    /\ f \in form.reading
    /\ form' = [form EXCEPT !.reading = @ \ {f}, !.staged = f]
    /\ UNCHANGED pageVars

\* The bytes cannot be read.
FileUnreadable(f) ==
    /\ f \in form.reading
    /\ form' = [form EXCEPT !.reading = @ \ {f}, !.staged = None]
    /\ UNCHANGED pageVars

\* "remove", or a pick of no file or of one that is too large or of no known type.
Unstage ==
    /\ Touches
    /\ form.staged # None
    /\ form' = [form EXCEPT !.staged = None]
    /\ UNCHANGED pageVars

\* Record payment, of an amount above zero: the staged file is taken now.
Press(amount) ==
    /\ Touches
    /\ amount > 0
    /\ form' = [form EXCEPT !.pc = IF form.staged = None THEN "posting" ELSE "uploading",
                            !.amount = amount, !.took = form.staged, !.staged = None,
                            !.told = None]
    /\ UNCHANGED pageVars

\* post_proof puts the bytes under a key of its own, and upload_proof returns Ok.
ProofUploaded ==
    /\ form.pc = "uploading"
    /\ GatewayTakes(ContentType(form.took), form.took.size)
    /\ form' = [form EXCEPT !.pc = "posting", !.proof = form.took]
    /\ UNCHANGED pageVars

\* What stays of a payment that was sent, and when it has ended.
Sent == [form EXCEPT !.amount = 0, !.took = None, !.proof = None]
Edits == [Sent EXCEPT !.pc = "edit", !.row = None]

\* Variant for the checks: the payment goes on without its receipt.
UploadFailsSoftly ==
    /\ form.pc = "uploading"
    /\ form' = [form EXCEPT !.pc = "posting"]
    /\ UNCHANGED pageVars

\* The gateway refused the file, upload_proof failed, or its answer was lost: nothing is posted, and the
\* receipt is gone from the form, maybe to the store.
UploadFailed ==
    /\ form.pc = "uploading"
    /\ form' = Edits
    /\ UNCHANGED pageVars

\* post_contribution files the payment.
PaymentFiled ==
    /\ form.pc = "posting"
    /\ form.row = None
    /\ \E row \in Payments(Viewer, form.amount) :
          Record(row) /\ form' = [Sent EXCEPT !.row = row.id]
    /\ UNCHANGED <<moves, reader, panel>>

\* Variant for the checks: the list is not loaded again.
AcknowledgedWithoutRestart ==
    /\ form.pc = "posting"
    /\ form.row # None
    /\ form' = [Edits EXCEPT !.told = form.row]
    /\ UNCHANGED pageVars

\* submit_contribution returned Ok: the figures and the list are loaded again.
Acknowledged ==
    /\ form.pc = "posting"
    /\ form.row # None
    /\ form' = [Edits EXCEPT !.told = form.row]
    /\ Holds("mine", Ask("mine", None))
    /\ UNCHANGED <<ledgerVars, moves, panel>>

\* It returned an error: the payment was refused, or the answer was lost and the
\* payment may be on record.
NotAcknowledged ==
    /\ form.pc = "posting"
    /\ form' = Edits
    /\ UNCHANGED pageVars

FormStep ==
    \/ ProofUploaded \/ UploadFailed
    \/ PaymentFiled \/ Acknowledged \/ NotAcknowledged

EverybodyElse ==
    /\ \E q \in Reports : moves < MaxMoves[q]
    /\ \A q \in Opened : moves < MaxMoves[q]
    /\ moves' = moves + 1
    /\ WorldStep
    /\ UNCHANGED <<panel, form>>

PageNext ==
    \/ \E q \in Reports :
          \/ Open(q) \/ Close(q) \/ Loaded(q)
    \/ \E q \in {"pool", "history"} : \E choice \in ChoicesOf[q] : Choose(q, choice)
    \/ \E f \in Files : PickFile(f) \/ FileRead(f) \/ FileUnreadable(f)
    \/ Unstage
    \/ \E amount \in Amounts : Press(amount)
    \/ FormStep
    \/ (ReportStep \/ \E q \in Reports : Fail(q)) /\ UNCHANGED <<moves, panel, form>>
    \/ EverybodyElse

PageSpec == PageInit /\ [][PageNext]_allVars

-----------------------------------------------------------------------------
(***************************************************************************)
(* Properties                                                              *)
(***************************************************************************)

\* Every variable has its type, and a panel that is closed has nothing left.
PageTypeOK ==
    /\ ReportsTypeOK
    /\ moves \in Nat
    /\ \A q \in Reports :
          /\ panel[q] \in [open : BOOLEAN, chosen : ChoicesOf[q],
                           shown : AnswersOf[q] \cup {Error, None}]
          /\ ~panel[q].open => panel[q] = Closed /\ reader[q] = Quiet
    /\ form \in FormState
    /\ ~panel["mine"].open => form = Blank

\* The answers of report q that are under way or on the screen.
AnswersAbout(q) == {a \in {reader[q].answer, panel[q].shown} : IsData(a)}

\* The pool's summary adds up although its settings, payments and members are
\* read one after the other, while people join and pay: nobody it counts as
\* settled, or as a payer, is missing from the members it counts, so that
\* "settled of members" and "outstanding" are numbers of people; and it counts
\* nobody who is not a member.
PoolAddsUp ==
    \A a \in AnswersAbout("pool") :
        /\ a.settled <= Cardinality(Payers(a.rows))
        /\ Cardinality(Payers(a.rows)) <= a.count
        /\ a.count <= Cardinality(members)

\* The summary of the own payments covers the list under it, however late it
\* is looked at: the paid total has every listed payment that still counts,
\* and nothing that was never on record.
MineAddsUp ==
    \A a \in AnswersAbout("mine") :
        /\ Total({r \in Counts(a.rows) : r \in contribution}) <= a.paid
        /\ a.paid <= Total({r \in contribution : r.user = Viewer /\ r.period = a.period})

\* As long as the list and the dues on the screen are those of the database
\* and the period is open, the form and the cap event agree: SETTLED is shown
\* exactly when no payment would be let in, and what "Max" fills in would be.
OffersWhatFits ==
    LET shown == panel["mine"].shown
        NextRow(amount) == [id |-> None, user |-> Viewer, cadence |-> shown.period.cadence,
                          period |-> shown.period, amount |-> amount, status |-> "submitted"]
        Fits(amount) == ~OverCap(contribution \cup {NextRow(amount)}, NextRow(amount), settings.dues)
    IN  (/\ IsData(shown)
         /\ shown.dues = settings.dues
         /\ shown.rows = {r \in contribution : r.user = Viewer /\ r.period = shown.period}) =>
            /\ IsSettled(shown) <=> ~Fits(1)
            /\ shown.remaining > 0 => Fits(shown.remaining) /\ ~Fits(shown.remaining + 1)

\* A payment that was acknowledged is in the list as soon as no load is under
\* way, if the list is of its period: the load that follows the answer drops
\* any that began before it.
ListShowsAcknowledged ==
    (IsData(panel["mine"].shown) /\ reader["mine"].pc = "idle") =>
        \A r \in contribution :
            (r.id = form.told /\ r.period = panel["mine"].shown.period) =>
                r.id \in {s.id : s \in panel["mine"].shown.rows}

\* No payment leaves the page without the receipt that was staged when it was
\* pressed, whatever is picked or read meanwhile.
ReceiptTravels ==
    form.pc = "posting" => form.proof = form.took

\* Keys, over the samples: the part of an email is made of safe characters,
\* the same when it is made again, and a key belongs to its own venture alone.
KeysStayAtHome ==
    \A slug \in SomeSlugs, email \in SomeEmails, id \in SomeIds :
        LET frag == SanitizeEmailFrag(email)
        IN  /\ \A i \in DOMAIN frag : frag[i] \in Safe
            /\ SanitizeEmailFrag(frag) = frag
            /\ \A other \in SomeSlugs : BelongsTo(KeyOf(slug, email, id), other) <=> other = slug

\* "Keep in sync with MAX_PROOF_BYTES ... so the UI can short-circuit oversized
\* files" (venture.rs): a receipt that the form has taken is refused by the
\* gateway only when it is empty; and the key that comes back for it is one
\* that the payment endpoint accepts, of that venture and of no other.
ReceiptsFindHome ==
    \A f \in {form.staged, form.took} \ {None} :
        (GatewayTakes(ContentType(f), f.size) \/ f.size = 0) /\ KeysStayAtHome

\* The audit log shows the period that was picked last, once nothing is under
\* way: an answer to an earlier choice is never shown in its place.
AuditShowsWhatWasPicked ==
    (IsData(panel["pool"].shown) /\ reader["pool"].pc = "idle" /\ panel["pool"].chosen # None) =>
        /\ panel["pool"].shown.period = panel["pool"].chosen
        /\ \A r \in panel["pool"].shown.rows : r.period = panel["pool"].chosen

\* HoldingSummary: the total of the last bucket, or else the carry-forward.
Lifetime(a) ==
    IF a.series # <<>> THEN a.series[Len(a.series)].total ELSE IF a.seed = None THEN 0 ELSE a.seed

\* bucket_series over the samples: every payment is in one bucket, the buckets
\* rise, and the last total is all there is.
SamplesAddUp ==
    \A points \in Samples, mode \in {"yearly", "monthly"}, seed \in {0, Opening} :
        LET series == BucketSeries(points, mode, seed)
        IN  /\ \A i \in 1..Len(series) :
                  /\ series[i].cents = Total({p \in points : Bucket(p, mode) = series[i].bucket})
                  /\ series[i].total =
                        seed + Total({p \in points : ~Lt(series[i].bucket, Bucket(p, mode))})
                  /\ i > 1 => Lt(series[i - 1].bucket, series[i].bucket)
            /\ points # {} => series[Len(series)].total = seed + Total(points)

\* The lifetime total is the carry-forward, and every payment that was counted
\* once, in whatever buckets the chart is drawn.
HistoryAddsUp ==
    \A a \in AnswersAbout("history") :
        /\ Lifetime(a) = Total(a.rows) + (IF a.seed = None THEN 0 ELSE a.seed)
        /\ a.seed \in {None, carry}
        /\ SamplesAddUp
=============================================================================
