-------------------------- MODULE MCCreateVenture --------------------------
(***************************************************************************)
(* Slugs of two or three characters.  One name is a slug and too short for *)
(* another; ana has the page open, and calls the endpoints with bo besides.*)
(***************************************************************************)
EXTENDS CreateVenture

MCNames == {<<"A", "b">>, <<"b">>}
MCNamed == [page |-> {<<"A", "b">>}, api |-> {<<"b">>}]
MCSlugs == {<<"a", "b">>}
MCTyped == MCSlugs \cup {<<"b">>}

MCSomeNames == UNION {[1..n -> {"a", "B", "7", " "}] : n \in 0..5}

MCMoneyTexts == UNION {[1..n -> {"1", "9", ".", "-", "+"}] : n \in 0..4}
MCDues == {<<"1", "9">>, <<"-", "1">>}
MCVisitor == [page |-> "ana", api |-> "bo"]
=============================================================================
