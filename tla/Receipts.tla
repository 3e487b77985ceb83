------------------------------ MODULE Receipts ------------------------------
(***************************************************************************)
(* Proofs of payment: which files the form takes                           *)
(* (sharam-ui/src/pages/venture.rs), which ones the gateway stores         *)
(* (routes/proofs.rs), and the keys they are stored under                  *)
(* (crate/storage/src/proof.rs).  Keys and emails are sequences of         *)
(* characters, because the endpoints look at prefixes of keys.             *)
(***************************************************************************)
EXTENDS Integers, Sequences

CONSTANT MaxProofBytes

Kinds == {"image/jpeg", "image/png", "image/webp", "application/pdf"}

\* proof_content_type, by the extension of the file's name in lower case.
KindByName ==
    [jpg |-> "image/jpeg", jpeg |-> "image/jpeg", png |-> "image/png", webp |-> "image/webp",
     pdf |-> "application/pdf"]

\* What the browser says of the file, or else what its name says.
ContentType(f) ==
    IF f.mime \in Kinds THEN f.mime
    ELSE IF f.ext \in DOMAIN KindByName THEN KindByName[f.ext] ELSE "unknown"

FormTakes(f) == ContentType(f) # "unknown" /\ f.size <= MaxProofBytes

\* post_proof: the body's limit, its length, and ext_for.
GatewayTakes(kind, size) == size <= MaxProofBytes /\ size > 0 /\ kind \in Kinds

-----------------------------------------------------------------------------

Slash == <<"/">>
Safe == {"a", "b", "t", "7", ".", "_", "-"}
LowerOf(char) == IF char = "A" THEN "a" ELSE char

\* Split at the first "@", which is written out.
Merged(email) ==
    LET at == CHOOSE i \in 1..Len(email) :
                  email[i] = "@" /\ \A j \in 1..(i - 1) : email[j] # "@"
    IN  IF \E i \in 1..Len(email) : email[i] = "@"
        THEN SubSeq(email, 1, at - 1) \o <<"_", "a", "t", "_">> \o SubSeq(email, at + 1, Len(email))
        ELSE email

\* Every run of other characters becomes one dash.
Dashed(text) ==
    LET out[i \in 0..Len(text)] ==
            IF i = 0 THEN <<>>
            ELSE IF text[i] \in Safe THEN Append(out[i - 1], text[i])
            ELSE IF i > 1 /\ text[i - 1] \notin Safe THEN out[i - 1]
            ELSE Append(out[i - 1], "-")
    IN  out[Len(text)]

\* trim_matches('-').
Undashed(text) ==
    LET kept == {i \in 1..Len(text) : text[i] # "-"}
    IN  IF kept = {} THEN <<>>
        ELSE SubSeq(text, CHOOSE i \in kept : \A j \in kept : i <= j,
                          CHOOSE i \in kept : \A j \in kept : i >= j)

SanitizeEmailFrag(email) ==
    Undashed(Dashed(Merged([i \in DOMAIN email |-> LowerOf(email[i])])))

\* put: the store's key of an upload; the id is new.
KeyOf(slug, email, id) == Slash \o slug \o Slash \o SanitizeEmailFrag(email) \o Slash \o id

\* Variant for the checks: the slug is not closed.
VenturePrefixOpen(slug) == Slash \o slug

\* What post_contribution and get_proof_url ask a key to start with.
VenturePrefix(slug) == Slash \o slug \o Slash

BelongsTo(key, slug) ==
    LET prefix == VenturePrefix(slug)
    IN  Len(prefix) <= Len(key) /\ SubSeq(key, 1, Len(prefix)) = prefix
=============================================================================
