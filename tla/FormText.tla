------------------------------ MODULE FormText ------------------------------
(***************************************************************************)
(* What the create-venture form makes of the text that is typed into it    *)
(* (sharam-ui/src/pages/create_tenant.rs: slugify, validate_slug,          *)
(* parse_dues_to_cents).  A text is a sequence of characters; the alphabet *)
(* stands for its classes.                                                 *)
(***************************************************************************)
EXTENDS Integers, SequencesExt

CONSTANTS
    MinSlug,    \* 3 in the code
    MaxSlug     \* 41 in the code

ASSUME FormTextAssumption == MinSlug \in Nat \ {0} /\ MaxSlug \in Nat /\ MinSlug <= MaxSlug

LowerCase == {"a", "b"}
UpperCase == {"A", "B"}
Digits == {"0", "1", "2", "3", "4", "5", "6", "7", "8", "9"}

Lowered == [A |-> "a", B |-> "b"]

\* What trim returns.
Trimmed(text) ==
    LET kept == {i \in DOMAIN text : text[i] # " "}
    IN  IF kept = {} THEN <<>>
        ELSE SubSeq(text, CHOOSE i \in kept : \A j \in kept : i <= j,
                          CHOOSE i \in kept : \A j \in kept : i >= j)

\* validate_slug of the form, and is_valid_slug of the gateway.
ValidSlug(s) ==
    /\ Len(s) \in MinSlug..MaxSlug
    /\ s[1] \in LowerCase
    /\ \A i \in DOMAIN s : s[i] \in LowerCase \cup Digits \cup {"_"}

\* A run of other characters becomes one underscore, none at the start.
Spell(out, c) ==
    IF c \in LowerCase \cup Digits THEN Append(out, c)
    ELSE IF c \in UpperCase THEN Append(out, Lowered[c])
    ELSE IF out # <<>> /\ Last(out) # "_" THEN Append(out, "_")
    ELSE out

Spelt(name) ==
    LET out[i \in 0..Len(name)] == IF i = 0 THEN <<>> ELSE Spell(out[i - 1], name[i])
    IN  out[Len(name)]

\* Variant for the checks: the first MaxSlug characters, then from a letter on.
SlugifyUntrimmed(name) ==
    LET spelt == Spelt(name)
    IN  SubSeq(spelt, 1, IF Len(spelt) < MaxSlug THEN Len(spelt) ELSE MaxSlug)

\* From the first letter on, without a last underscore, and no longer than a
\* slug may be.
Slugify(name) ==
    LET spelt == Spelt(name)
        letters == {i \in DOMAIN spelt : spelt[i] \in LowerCase}
        first == CHOOSE i \in letters : \A j \in letters : i <= j
        last == IF Last(spelt) = "_" THEN Len(spelt) - 1 ELSE Len(spelt)
    IN  IF letters = {} THEN <<>>
        ELSE SubSeq(spelt, first, IF last - first < MaxSlug THEN last ELSE first + MaxSlug - 1)

-----------------------------------------------------------------------------

\* What str::parse::<i64> reads: a sign or none, then digits.  No text here is
\* long enough to overflow.
InOrder == <<"0", "1", "2", "3", "4", "5", "6", "7", "8", "9">>
ValueOf == [c \in Digits |-> CHOOSE v \in 0..9 : InOrder[v + 1] = c]

Numeral(text) == text # <<>> /\ \A i \in DOMAIN text : text[i] \in Digits

Signed(text) == text # <<>> /\ text[1] \in {"+", "-"}

Reads(text) == IF Signed(text) THEN Numeral(Tail(text)) ELSE Numeral(text)

Magnitude(text) ==
    LET sum[i \in 0..Len(text)] == IF i = 0 THEN 0 ELSE 10 * sum[i - 1] + ValueOf[text[i]]
    IN  sum[Len(text)]

Reading(text) ==
    IF ~Signed(text) THEN Magnitude(text)
    ELSE IF text[1] = "+" THEN Magnitude(Tail(text)) ELSE -Magnitude(Tail(text))

\* The text is cut at its first point.
Points(text) == {i \in DOMAIN text : text[i] = "."}
Cut(text) ==
    IF Points(text) = {} THEN Len(text) + 1
    ELSE CHOOSE i \in Points(text) : \A j \in Points(text) : i <= j
Whole(text) == SubSeq(text, 1, Cut(text) - 1)
Fraction(text) == SubSeq(text, Cut(text) + 1, Len(text))

\* Variant for the checks: the fraction is not padded.
UnpaddedFraction(text) == IF Fraction(text) = <<>> THEN <<"0">> ELSE Fraction(text)

\* Two places, filled up with zeros on the right.
PaddedFraction(text) ==
    Fraction(text) \o [i \in 1..(IF Len(Fraction(text)) < 2 THEN 2 - Len(Fraction(text)) ELSE 0) |-> "0"]

\* parse_dues_to_cents: whether it takes the text, and for how many cents.  A
\* sign after the first character is read by the parser of the part it is in.
TakesMoney(text) ==
    \/ text = <<>>
    \/ /\ text[1] # "-"
       /\ Len(Fraction(text)) <= 2
       /\ Whole(text) = <<>> \/ Reads(Whole(text))
       /\ Reads(PaddedFraction(text))

Cents(text) ==
    IF text = <<>> THEN 0
    ELSE 100 * (IF Whole(text) = <<>> THEN 0 ELSE Reading(Whole(text)))
            + Reading(PaddedFraction(text))
=============================================================================
