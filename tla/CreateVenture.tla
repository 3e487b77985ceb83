--------------------------- MODULE CreateVenture ---------------------------
(***************************************************************************)
(* The create-venture page of the web client                               *)
(* (sharam-ui/src/pages/create_tenant.rs) over the gateway of              *)
(* Provisioning.  The page sends two requests, one after the other: POST   *)
(* /tenants, and then the carry-forward.  Its fields stay editable while   *)
(* it waits.  Other clients call the same endpoints.                       *)
(***************************************************************************)
EXTENDS Provisioning, FormText

CONSTANTS
    Forms,       \* open pages; each has one request at a time
    Visitor,     \* Visitor[r]: who sends the requests r
    Named,       \* Named[r]: the names that the client of r gives a venture
    SomeNames,   \* texts for the check of Slugify
    SomeMoney,   \* texts for the check of parse_dues_to_cents
    SomeDues,    \* texts typed for the dues
    SomeDates    \* carry-forwards as typed; those in Seeds pass the form's checks

ASSUME CreateVentureAssumption ==
    /\ Named \in [Requests -> SUBSET Names]
    /\ Forms \subseteq Requests
    /\ Visitor \in [Requests -> People]
    /\ \A r \in Requests : \A name \in Named[r] : Slugify(name) \in Typed \cup {<<>>}
    /\ \A name \in Names \cup {<<>>} : Trimmed(name) \in Names \cup {<<>>}
    /\ \A slug \in Typed \cup {<<>>} : ValidSlug(Trimmed(slug)) => Trimmed(slug) \in Typed
    /\ <<>> \notin Names
    /\ SomeNames \cup SomeMoney \subseteq Seq(STRING)

VARIABLES form   \* form[f]: the signals of page f

vars == <<provVars, form>>

Blank == [pc |-> "edit", name |-> <<>>, slug |-> <<>>, touched |-> FALSE, seed |-> None,
          flash |-> None, error |-> None]

\* What a page can say: in flash the slug and seed of a venture, in error what
\* went wrong, with the slug it is about.
Flashes == [slug : Slugs, seed : Seeds \cup {None}]
Errors == [kind : {"field", "conflict", "other", "seed failed"}, slug : Typed \cup {None}]

FormState ==
    [pc : {"edit", "creating", "seeding"}, name : Names \cup {<<>>}, slug : Typed \cup {<<>>},
     touched : BOOLEAN, seed : Seeds \cup {None}, flash : Flashes \cup {None},
     error : Errors \cup {None}]

Shows(f, shown) == form' = [form EXCEPT ![f] = shown]

Complains(f, kind, slug) ==
    Shows(f, [form[f] EXCEPT !.pc = "edit", !.error = [kind |-> kind, slug |-> slug]])

-----------------------------------------------------------------------------

Init ==
    /\ ProvInit
    /\ form = [f \in Forms |-> Blank]

\* on_name_input: the slug follows the name until it is typed itself.
TypeName(f, name) ==
    /\ Shows(f, [form[f] EXCEPT !.name = name, !.error = None,
                                !.slug = IF form[f].touched THEN @ ELSE Slugify(name)])
    /\ UNCHANGED provVars

\* on_slug_input.
TypeSlug(f, slug) ==
    /\ Shows(f, [form[f] EXCEPT !.slug = slug, !.touched = TRUE, !.error = None])
    /\ UNCHANGED provVars

\* Variant for the checks: the button is not disabled while the page waits.
SubmitRefusedAnytime(f, money, seedTyped) ==
    /\ \/ Trimmed(form[f].name) = <<>>
       \/ ~ValidSlug(Trimmed(form[f].slug))
       \/ ~TakesMoney(Trimmed(money))
       \/ seedTyped \notin Seeds \cup {None}
    /\ Complains(f, "field", None)
    /\ UNCHANGED provVars

\* submit, when a field does not pass: nothing is sent.
SubmitRefused(f, money, seedTyped) ==
    /\ form[f].pc = "edit"
    /\ \/ Trimmed(form[f].name) = <<>>
       \/ ~ValidSlug(Trimmed(form[f].slug))
       \/ ~TakesMoney(Trimmed(money))
       \/ seedTyped \notin Seeds \cup {None}
    /\ Complains(f, "field", None)
    /\ UNCHANGED provVars

\* submit: every field is read now, and the venture is asked for.
Submit(f, money, seedTyped) ==
    /\ form[f].pc = "edit"
    /\ Trimmed(form[f].name) # <<>>
    /\ ValidSlug(Trimmed(form[f].slug))
    /\ TakesMoney(Trimmed(money))
    /\ seedTyped \in Seeds \cup {None}
    /\ Shows(f, [form[f] EXCEPT !.pc = "creating", !.seed = seedTyped, !.flash = None, !.error = None])
    /\ AskToCreate(f, Visitor[f], Trimmed(form[f].slug), Trimmed(form[f].name))

\* The answer is taken from the wire.
TakesAnswer(f) == request' = [request EXCEPT ![f] = Quiet] /\ UNCHANGED <<tables, process>>

Answered(f, pc) == form[f].pc = pc /\ request[f].pc = "answered"

\* The page tells of a venture and clears its fields, whatever was typed
\* meanwhile.
Tells(f, slug, s) == Shows(f, [Blank EXCEPT !.flash = [slug |-> slug, seed |-> s]])

\* submit_tenant returned Ok, and no seed was asked for.
Created(f) ==
    /\ Answered(f, "creating")
    /\ request[f].status = "ok"
    /\ form[f].seed = None
    /\ Tells(f, request[f].slug, None)
    /\ TakesAnswer(f)

\* submit_tenant returned Ok: the seed follows, to the slug of the answer.
CreatedThenSeed(f) ==
    /\ Answered(f, "creating")
    /\ request[f].status = "ok"
    /\ form[f].seed # None
    /\ Shows(f, [form[f] EXCEPT !.pc = "seeding"])
    /\ request' = [request EXCEPT ![f] =
          [Quiet EXCEPT !.pc = "role", !.who = Visitor[f], !.slug = request[f].slug, !.seed = form[f].seed]]
    /\ UNCHANGED <<tables, process>>

\* Variant for the checks: a conflict is not among the errors.
NotCreatedOtherwise(f) ==
    /\ Answered(f, "creating")
    /\ request[f].status \notin {"ok", "conflict"}
    /\ Complains(f, "other", request[f].slug)
    /\ TakesAnswer(f)

\* submit_tenant returned an error; the fields stay.
NotCreated(f) ==
    /\ Answered(f, "creating")
    /\ request[f].status # "ok"
    /\ Complains(f, IF request[f].status = "conflict" THEN "conflict" ELSE "other", request[f].slug)
    /\ TakesAnswer(f)

\* Variant for the checks: nobody looks at the second answer.
SeededAnyhow(f) ==
    /\ Answered(f, "seeding")
    /\ Tells(f, request[f].slug, form[f].seed)
    /\ TakesAnswer(f)

\* submit_carry_forward returned Ok.
Seeded(f) ==
    /\ Answered(f, "seeding")
    /\ request[f].status = "ok"
    /\ Tells(f, request[f].slug, form[f].seed)
    /\ TakesAnswer(f)

\* "Tenant created but carry-forward seed failed".  The fields stay, so that the
\* same form asks for the same venture again.
NotSeeded(f) ==
    /\ Answered(f, "seeding")
    /\ request[f].status # "ok"
    /\ Complains(f, "seed failed", request[f].slug)
    /\ TakesAnswer(f)

\* The answer is lost on its way.
LoseAnswer(f) ==
    /\ form[f].pc # "edit"
    /\ request[f].pc = "answered"
    /\ request[f].status # "error"
    /\ request' = [request EXCEPT ![f].status = "error"]
    /\ UNCHANGED <<tables, process, form>>

\* Another client of the two endpoints.
OtherClient(r) ==
    /\ r \notin Forms
    /\ \/ \E slug \in Typed, name \in Named[r] : AskToCreate(r, Visitor[r], slug, name)
       \/ \E slug \in Slugs, s \in Seeds : AskToSeed(r, Visitor[r], slug, s)
    /\ UNCHANGED form

PageStep(f) ==
    \/ Created(f)
    \/ CreatedThenSeed(f)
    \/ NotCreated(f)
    \/ Seeded(f)
    \/ NotSeeded(f)

Next ==
    \/ \E f \in Forms :
          \/ \E name \in Named[f] : TypeName(f, name)
          \/ \E slug \in Typed : TypeSlug(f, slug)
          \/ \E money \in SomeDues, seedTyped \in SomeDates \cup {None} :
                Submit(f, money, seedTyped) \/ SubmitRefused(f, money, seedTyped)
          \/ PageStep(f)
          \/ LoseAnswer(f)
    \/ \E r \in Requests : OtherClient(r)
    \/ ServerStep /\ UNCHANGED form

Spec == Init /\ [][Next]_vars

\* The service manager restarts the gateway ("restart: unless-stopped"), whose
\* start goes on as its statements return; the runtime polls the requests.
FairSpec ==
    /\ Spec
    /\ WF_vars(StartStep /\ UNCHANGED form)
    /\ \A r \in Requests : WF_vars(RequestStep(r) /\ UNCHANGED form)
    /\ \A f \in Forms : WF_vars(PageStep(f))

-----------------------------------------------------------------------------
(***************************************************************************)
(* Properties                                                              *)
(***************************************************************************)

\* Every variable has its type, and a page waits for the request it sent last,
\* or has none out.
TypeOK ==
    /\ ProvTypeOK
    /\ form \in [Forms -> FormState]
    /\ \A f \in Forms :
          /\ form[f].pc = "edit" => request[f] = Quiet
          /\ form[f].pc = "creating" => request[f].pc \in CreateWaits \cup {"answered"}
          /\ form[f].pc = "seeding" => request[f].pc \in SeedWaits \cup {"answered"}

\* What a page says is so, and stays so, whatever is typed while it waits,
\* whoever else asks for the same slug, and whichever of its two requests fails:
\* "You are the owner" is said to the founder, "Carry-forward seeded" of the
\* seed he asked for, in his name; "Tenant created but ..." of a venture he
\* founded; and "already exists" of a venture that does.
PagesTellTheTruth ==
    \A f \in Forms :
        /\ form[f].flash # None =>
              /\ directory[form[f].flash.slug] # None
              /\ directory[form[f].flash.slug].by = Visitor[f]
              /\ form[f].flash.seed # None =>
                    seed[form[f].flash.slug] = [seed |-> form[f].flash.seed, by |-> Visitor[f]]
        /\ form[f].error # None =>
              /\ form[f].error.kind = "seed failed" =>
                    /\ directory[form[f].error.slug] # None
                    /\ directory[form[f].error.slug].by = Visitor[f]
              /\ form[f].error.kind = "conflict" => directory[form[f].error.slug] # None

\* Slugify, over all names of the check: a slug, or too short for one.
SlugsFromNames ==
    \A name \in SomeNames :
        LET s == Slugify(name) IN Len(s) < MinSlug \/ ValidSlug(s)

\* As long as nobody types the slug it follows the name, and whatever the name,
\* it is a slug that form and gateway accept once it has enough characters.
NamesMakeSlugs ==
    \A f \in Forms :
        ~form[f].touched => form[f].slug = Slugify(form[f].name) /\ SlugsFromNames

\* parse_dues_to_cents, over all texts of the check that have no sign: what is
\* before the point counts hundreds, the first place after it tens and the
\* second ones.
AmountsFromTexts ==
    \A text \in SomeMoney :
        (TakesMoney(text) /\ {"+", "-"} \cap {text[i] : i \in DOMAIN text} = {}) =>
            LET p == Cut(text)
                Digit(i) == IF i \in DOMAIN text /\ i # p THEN ValueOf[text[i]] ELSE 0
            IN  /\ Cents(text) % 100 = 10 * Digit(p + 1) + Digit(p + 2)
                /\ (Cents(text) \div 100) % 10 = Digit(p - 1)

\* A page sends an amount that was typed without signs for the cents it writes.
MoneyReadsAsWritten == \A f \in Forms : form[f].pc # "edit" => AmountsFromTexts

\* Every page that was submitted is answered, through any restart.
PagesAreAnswered == \A f \in Forms : form[f].pc # "edit" ~> form[f].pc = "edit"
=============================================================================
