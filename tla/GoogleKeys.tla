----------------------------- MODULE GoogleKeys -----------------------------
(***************************************************************************)
(* The cache of Google's signing keys (crate/auth/src/google.rs), as the   *)
(* verifications of credentials that are under way at once use it: a look  *)
(* under the read lock, a fetch when the look does not settle it, the      *)
(* answer stored under the write lock, and a second look.                  *)
(*                                                                         *)
(* An action is what a verification does between two awaits.  Whether the  *)
(* signature and the claims of a credential are right is not modelled:     *)
(* only which key it is checked with.                                      *)
(***************************************************************************)
EXTENDS Integers

CONSTANTS
    Kids,       \* names of RSA keys; the others are skipped
    Verifying,  \* verifications that may be under way at once (a bound)
    TTL,        \* JWKS_TTL, in instants
    Timeout,    \* the HTTP client's timeout
    LastInstant,   \* bound on the clock
    NoKeys      \* the cache before the first fetch

ASSUME GoogleKeysAssumption ==
    /\ TTL \in Nat \ {0}
    /\ Timeout \in Nat
    /\ LastInstant \in Nat
    /\ NoKeys \notin [keys : SUBSET Kids, fetched_at : Nat]

VARIABLES
    instant,     \* now
    published,   \* published[t]: what Google serves at instant t, up to now
    cache,       \* the key set and when it was stored, or NoKeys
    verify       \* verify[v]: what verification v holds

keysVars == <<instant, published, cache, verify>>

Resting == [pc |-> "resting", kid |-> "", asked |-> 0, since |-> 0, got |-> {}, ended |-> 0]

VerifyState ==
    [pc : {"resting", "look", "fetch", "store", "again", "found", "unknown", "failed"},
     kid : Kids \cup {""}, asked : Nat, since : Nat, got : SUBSET Kids, ended : Nat]

\* A verification goes on with what it holds now.
Keeps(v, held) == verify' = [verify EXCEPT ![v] = held]

Ends(v, pc) == Keeps(v, [verify[v] EXCEPT !.pc = pc, !.ended = instant])

-----------------------------------------------------------------------------

KeysInit ==
    /\ instant = 0
    /\ published \in [0..0 -> SUBSET Kids]
    /\ cache = NoKeys
    /\ verify = [v \in Verifying |-> Resting]

\* verify, once the header names a key and RS256; a slot is taken again when
\* its verification has ended.
AskForKey(v, kid) ==
    /\ verify[v].pc \in {"resting", "found", "unknown", "failed"}
    /\ Keeps(v, [Resting EXCEPT !.pc = "look", !.kid = kid, !.asked = instant])
    /\ UNCHANGED <<instant, published, cache>>

\* Variant for the checks: a key is a key, however old.
HitsAtAnyAge(kid) == cache # NoKeys /\ kid \in cache.keys

\* get_key: "cache hit, still fresh".
Hits(kid) ==
    /\ cache # NoKeys
    /\ instant - cache.fetched_at < TTL
    /\ kid \in cache.keys

Hit(v) ==
    /\ verify[v].pc = "look"
    /\ Hits(verify[v].kid)
    /\ Ends(v, "found")
    /\ UNCHANGED <<instant, published, cache>>

\* refresh_jwks: the request goes out.
Miss(v) ==
    /\ verify[v].pc = "look"
    /\ ~Hits(verify[v].kid)
    /\ Keeps(v, [verify[v] EXCEPT !.pc = "fetch", !.since = instant])
    /\ UNCHANGED <<instant, published, cache>>

\* Google composes its answer.
Served(v) ==
    /\ verify[v].pc = "fetch"
    /\ Keeps(v, [verify[v] EXCEPT !.pc = "store", !.got = published[instant]])
    /\ UNCHANGED <<instant, published, cache>>

\* The request or the answer fails, or takes too long.
FetchFails(v) ==
    /\ verify[v].pc \in {"fetch", "store"}
    /\ Ends(v, "failed")
    /\ UNCHANGED <<instant, published, cache>>

\* The answer replaces the cache, whatever was stored meanwhile, as of now.
StoreKeys(v) ==
    /\ verify[v].pc = "store"
    /\ cache' = [keys |-> verify[v].got, fetched_at |-> instant]
    /\ Keeps(v, [verify[v] EXCEPT !.pc = "again"])
    /\ UNCHANGED <<instant, published>>

\* get_key looks once more, at whatever is stored by now.
LookAgain(v) ==
    /\ verify[v].pc = "again"
    /\ Ends(v, IF verify[v].kid \in cache.keys THEN "found" ELSE "unknown")
    /\ UNCHANGED <<instant, published, cache>>

\* Google rotates its keys as it likes; no answer arrives after its timeout.
Pass(keys) ==
    /\ instant < LastInstant
    /\ \A v \in Verifying : verify[v].pc \in {"fetch", "store"} => instant - verify[v].since < Timeout
    /\ instant' = instant + 1
    /\ published' = [t \in 0..instant' |-> IF t = instant' THEN keys ELSE published[t]]
    /\ UNCHANGED <<cache, verify>>

VerifyStep(v) ==
    \/ Hit(v) \/ Miss(v) \/ Served(v) \/ FetchFails(v) \/ StoreKeys(v) \/ LookAgain(v)

KeysNext ==
    \/ \E v \in Verifying : VerifyStep(v) \/ \E kid \in Kids : AskForKey(v, kid)
    \/ \E keys \in SUBSET Kids : Pass(keys)

KeysSpec == KeysInit /\ [][KeysNext]_keysVars

-----------------------------------------------------------------------------
(***************************************************************************)
(* Properties                                                              *)
(***************************************************************************)

KeysTypeOK ==
    /\ instant \in Nat
    /\ published \in [0..instant -> SUBSET Kids]
    /\ cache \in [keys : SUBSET Kids, fetched_at : 0..instant] \cup {NoKeys}
    /\ verify \in [Verifying -> VerifyState]

\* A credential is checked with a key only if Google published it at some
\* instant not longer ago than the cache's TTL and a timeout, or than a timeout
\* before the check began; and a key is called unknown only if Google did not
\* publish it at some instant no longer before the check began: however fetches
\* overlap and in whatever order their answers are stored.
KeysAreGooglesOfLate ==
    \A v \in Verifying :
        LET h == verify[v]
        IN  /\ h.pc = "found" =>
                  \E t \in 0..h.ended :
                      /\ t + Timeout >= h.asked \/ t + Timeout + TTL > h.ended
                      /\ h.kid \in published[t]
            /\ h.pc = "unknown" =>
                  \E t \in 0..h.ended :
                      t + Timeout >= h.asked /\ h.kid \notin published[t]
=============================================================================
