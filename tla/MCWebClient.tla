---------------------------- MODULE MCWebClient ----------------------------
(***************************************************************************)
(* Two accounts and two ventures: ana owns v1 and keeps the money of v2,   *)
(* which bo owns.  The dues of v1 have cents.                              *)
(*                                                                         *)
(* The tab and the key cache share no variable, so that what holds of each *)
(* alone holds of both at once: a behaviour is of one of the two.  One of  *)
(* the tab stays on the dashboard and what surrounds it, or on the         *)
(* settings, or on the invites.                                            *)
(***************************************************************************)
EXTENDS WebClient, GoogleKeys, TLC

CONSTANTS a, b

VARIABLE part

mcVars == <<vars, keysVars, part>>

MCRole == [ana |-> [v1 |-> "owner", v2 |-> "treasurer"], bo |-> [v1 |-> None, v2 |-> "owner"]]

MCSettings ==
    [v1 |-> [name |-> "A", cadence |-> "monthly", dues |-> 150],
     v2 |-> [name |-> "A", cadence |-> "monthly", dues |-> 100]]

\* The pages a behaviour visits, by its part, and what others change meanwhile.
Visits ==
    [dashboard |-> {"login", "dashboard", "overview"},
     manage |-> {"manage"},
     invites |-> {"invites"}]

Stays ==
    [dashboard |-> UNCHANGED <<settings, invite>>,
     manage |-> UNCHANGED <<role, invite, stored>>,
     invites |-> UNCHANGED <<role, settings, stored>>]

\* Away from the dashboard somebody is signed in already.
MCInit ==
    /\ Init /\ KeysInit
    /\ role = MCRole /\ settings = MCSettings
    /\ part \in DOMAIN Visits \cup {"keys"}
    /\ IF part = "dashboard" THEN session = <<>> ELSE stored = None
    /\ part = "keys" => session = <<>>
    /\ part \in {"manage", "invites"} => session # <<>>
    /\ part # "keys" => published = [t \in 0..0 |-> {}]

MCNext ==
    /\ UNCHANGED part
    /\ \/ /\ part # "keys" /\ Next
          /\ tab'.page \in Visits[part] /\ Stays[part]
          /\ UNCHANGED keysVars
       \/ part = "keys" /\ KeysNext /\ UNCHANGED vars

MCSpec == MCInit /\ [][MCNext]_mcVars

MCSymmetry == Permutations({a, b})
=============================================================================
