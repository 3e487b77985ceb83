-------------------------- MODULE GoogleKeysProofs --------------------------
(***************************************************************************)
(* Proofs about the key cache (crate/auth/src/google.rs), for any number   *)
(* of verifications, any time to live, timeout and rotation of the keys.   *)
(*                                                                         *)
(* The property is about verifications that have ended.  What makes it so  *)
(* is what holds of the others and of the cache: an answer on its way is   *)
(* not older than a timeout, hence nor is what is stored, at the instant   *)
(* of its store; and what a verification finds at its second look was      *)
(* stored after it began, by itself or by another.                         *)
(***************************************************************************)
EXTENDS GoogleKeys, TLAPS

\* What is cached was published, at most a timeout before it was stored.
CacheIsGoogles ==
    cache # NoKeys =>
        \E t \in 0..instant : /\ t <= cache.fetched_at
                              /\ cache.fetched_at <= t + Timeout
                              /\ cache.keys = published[t]

\* What a verification under way knows, and what holds of one that has ended.
FetchesInTime(v) ==
    /\ verify[v].asked <= instant
    /\ verify[v].pc \in {"fetch", "store"} =>
          /\ verify[v].asked <= verify[v].since
          /\ verify[v].since <= instant
          /\ instant <= verify[v].since + Timeout
    /\ verify[v].pc = "store" =>
          \E t \in 0..instant : verify[v].since <= t /\ verify[v].got = published[t]
    /\ verify[v].pc = "again" => cache # NoKeys /\ verify[v].asked <= cache.fetched_at

EndedWell(v) ==
    /\ verify[v].ended <= instant
    /\ verify[v].pc = "found" =>
          \E t \in 0..verify[v].ended :
              /\ t + Timeout >= verify[v].asked \/ t + Timeout + TTL > verify[v].ended
              /\ verify[v].kid \in published[t]
    /\ verify[v].pc = "unknown" =>
          \E t \in 0..verify[v].ended :
              t + Timeout >= verify[v].asked /\ verify[v].kid \notin published[t]

\* The inductive invariant.
KeysInv ==
    /\ KeysTypeOK
    /\ CacheIsGoogles
    /\ \A v \in Verifying : FetchesInTime(v) /\ EndedWell(v)

\* At the start nothing is cached, asked or answered.
LEMMA KeysInitOK == KeysInit => KeysInv
<1> SUFFICES ASSUME KeysInit PROVE KeysInv
  OBVIOUS
<1>1. Resting \in VerifyState
  BY DEF Resting, VerifyState
<1>2. KeysTypeOK /\ CacheIsGoogles
  BY <1>1 DEF KeysInit, KeysTypeOK, CacheIsGoogles
<1>3. Resting.pc = "resting" /\ Resting.asked = 0 /\ Resting.ended = 0
  BY DEF Resting
<1>4. \A v \in Verifying : FetchesInTime(v) /\ EndedWell(v)
  BY <1>3 DEF KeysInit, FetchesInTime, EndedWell
<1> QED
  BY <1>2, <1>4 DEF KeysInv

\* A step of verification v that leaves the clock, Google and the cache alone
\* has only itself to answer for.
LEMMA OnlyItself ==
    ASSUME NEW v \in Verifying, NEW held \in VerifyState,
           KeysInv, Keeps(v, held), UNCHANGED <<instant, published, cache>>,
           FetchesInTime(v)', EndedWell(v)'
    PROVE  KeysInv'
<1>1. KeysTypeOK'
  BY DEF KeysInv, KeysTypeOK, Keeps
<1>2. CacheIsGoogles'
  BY DEF KeysInv, CacheIsGoogles
<1>3. ASSUME NEW w \in Verifying  PROVE (FetchesInTime(w) /\ EndedWell(w))'
  <2>1. CASE w = v
    BY <2>1
  <2>2. CASE w # v
    <3>1. verify'[w] = verify[w]
      BY <2>2 DEF KeysInv, KeysTypeOK, Keeps
    <3> QED
      BY <3>1 DEF KeysInv, FetchesInTime, EndedWell
  <2> QED BY <2>1, <2>2
<1> QED
  BY <1>1, <1>2, <1>3 DEF KeysInv

\* A verification begins.
LEMMA AskForKeyOK ==
    ASSUME NEW v \in Verifying, NEW kid \in Kids, KeysInv, AskForKey(v, kid)
    PROVE  KeysInv'
<1> DEFINE held == [Resting EXCEPT !.pc = "look", !.kid = kid, !.asked = instant]
<1>1. held \in VerifyState
  BY DEF KeysInv, KeysTypeOK, Resting, VerifyState
<1>2. verify'[v] = held
  BY DEF AskForKey, Keeps, KeysInv, KeysTypeOK
<1>3. FetchesInTime(v)' /\ EndedWell(v)'
  BY <1>2 DEF AskForKey, KeysInv, KeysTypeOK, FetchesInTime, EndedWell, Resting
<1> QED
  BY <1>1, <1>3, OnlyItself DEF AskForKey

\* The first look settles it: what is cached is not older than TTL.
LEMMA HitOK ==
    ASSUME NEW v \in Verifying, KeysInv, Hit(v)
    PROVE  KeysInv'
<1> DEFINE held == [verify[v] EXCEPT !.pc = "found", !.ended = instant]
<1>1. held \in VerifyState
  BY DEF KeysInv, KeysTypeOK, VerifyState
<1>2. verify'[v] = held /\ UNCHANGED <<instant, published, cache>> /\ Keeps(v, held)
  BY DEF Hit, Ends, Keeps, KeysInv, KeysTypeOK
<1>3. PICK t \in 0..instant : /\ t <= cache.fetched_at
                              /\ cache.fetched_at <= t + Timeout
                              /\ cache.keys = published[t]
  BY DEF KeysInv, CacheIsGoogles, Hit, Hits
<1>4. cache.fetched_at \in 0..instant /\ instant \in Nat
  BY DEF KeysInv, KeysTypeOK, Hit, Hits
<1>5. t + Timeout + TTL > instant /\ verify[v].kid \in published[t]
  BY <1>3, <1>4, GoogleKeysAssumption DEF Hit, Hits
<1>6. held.ended = instant /\ held.pc = "found" /\ held.kid = verify[v].kid /\ held.asked = verify[v].asked
  BY DEF KeysInv, KeysTypeOK, VerifyState
<1>7. FetchesInTime(v)'
  BY <1>2, <1>6 DEF KeysInv, FetchesInTime
<1>8. EndedWell(v)'
  BY <1>2, <1>4, <1>5, <1>6 DEF EndedWell
<1> QED
  BY <1>1, <1>2, <1>7, <1>8, OnlyItself

\* The first look does not settle it.
LEMMA MissOK ==
    ASSUME NEW v \in Verifying, KeysInv, Miss(v)
    PROVE  KeysInv'
<1> DEFINE held == [verify[v] EXCEPT !.pc = "fetch", !.since = instant]
<1>1. held \in VerifyState
  BY DEF KeysInv, KeysTypeOK, VerifyState
<1>2. verify'[v] = held
  BY DEF Miss, Keeps, KeysInv, KeysTypeOK
<1>3. /\ held.asked = verify[v].asked /\ held.since = instant
      /\ held.ended = verify[v].ended /\ held.pc = "fetch"
  BY DEF KeysInv, KeysTypeOK, VerifyState
<1>4. verify[v].asked <= instant /\ verify[v].ended <= instant /\ instant <= instant + Timeout
  BY GoogleKeysAssumption DEF KeysInv, KeysTypeOK, FetchesInTime, EndedWell
<1>5. FetchesInTime(v)' /\ EndedWell(v)'
  BY <1>2, <1>3, <1>4 DEF Miss, KeysInv, KeysTypeOK, FetchesInTime, EndedWell
<1> QED
  BY <1>1, <1>5, OnlyItself DEF Miss

\* Google answers with what it publishes now.
LEMMA ServedOK ==
    ASSUME NEW v \in Verifying, KeysInv, Served(v)
    PROVE  KeysInv'
<1> DEFINE held == [verify[v] EXCEPT !.pc = "store", !.got = published[instant]]
<1>0. instant \in 0..instant /\ published[instant] \in SUBSET Kids /\ verify[v] \in VerifyState
  BY DEF KeysInv, KeysTypeOK
<1>1. held \in VerifyState
  BY <1>0 DEF VerifyState
<1>2. verify'[v] = held
  BY DEF Served, Keeps, KeysInv, KeysTypeOK
<1>3. held.asked = verify[v].asked /\ held.since = verify[v].since /\ held.ended = verify[v].ended
      /\ held.pc = "store" /\ held.got = published[instant]
  BY DEF KeysInv, KeysTypeOK, VerifyState
<1>4. FetchesInTime(v)' /\ EndedWell(v)'
  <2>1. FetchesInTime(v)
    BY DEF KeysInv
  <2>2. instant \in 0..instant /\ verify[v].since <= instant
    BY <2>1 DEF KeysInv, KeysTypeOK, FetchesInTime, Served
  <2> QED
    BY <1>2, <1>3, <2>1, <2>2 DEF Served, KeysInv, FetchesInTime, EndedWell
<1> QED
  BY <1>1, <1>4, OnlyItself DEF Served

\* The fetch fails.
LEMMA FetchFailsOK ==
    ASSUME NEW v \in Verifying, KeysInv, FetchFails(v)
    PROVE  KeysInv'
<1> DEFINE held == [verify[v] EXCEPT !.pc = "failed", !.ended = instant]
<1>1. held \in VerifyState
  BY DEF KeysInv, KeysTypeOK, VerifyState
<1>2. verify'[v] = held
  BY DEF FetchFails, Ends, Keeps, KeysInv, KeysTypeOK
<1>3. held.asked = verify[v].asked /\ held.ended = instant /\ held.pc = "failed"
  BY DEF KeysInv, KeysTypeOK, VerifyState
<1>4. FetchesInTime(v)' /\ EndedWell(v)'
  BY <1>2, <1>3 DEF FetchFails, KeysInv, KeysTypeOK, FetchesInTime, EndedWell
<1> QED
  BY <1>1, <1>4, OnlyItself DEF FetchFails, Ends

\* The answer is stored as of now, which no other verification minds: the
\* cache is only the younger for it.
LEMMA StoreKeysOK ==
    ASSUME NEW v \in Verifying, KeysInv, StoreKeys(v)
    PROVE  KeysInv'
<1> DEFINE held == [verify[v] EXCEPT !.pc = "again"]
<1>1. held \in VerifyState /\ instant \in Nat /\ verify[v].got \in SUBSET Kids
  BY DEF KeysInv, KeysTypeOK, VerifyState
<1>2. /\ verify'[v] = held
      /\ verify' \in [Verifying -> VerifyState]
      /\ \A w \in Verifying : w # v => verify'[w] = verify[w]
  BY <1>1 DEF StoreKeys, Keeps, KeysInv, KeysTypeOK
<1>3. cache' = [keys |-> verify[v].got, fetched_at |-> instant] /\ UNCHANGED <<instant, published>>
  BY DEF StoreKeys
<1>4. cache' # NoKeys /\ cache' \in [keys : SUBSET Kids, fetched_at : 0..instant]
  BY <1>1, <1>3, GoogleKeysAssumption
<1>5. KeysTypeOK'
  BY <1>2, <1>3, <1>4 DEF KeysInv, KeysTypeOK
<1>6. CacheIsGoogles'
  <2>1. PICK t \in 0..instant : verify[v].since <= t /\ verify[v].got = published[t]
    BY DEF KeysInv, FetchesInTime, StoreKeys
  <2>2. instant <= verify[v].since + Timeout /\ verify[v].since \in Nat
    BY DEF KeysInv, KeysTypeOK, VerifyState, FetchesInTime, StoreKeys
  <2>3. instant <= t + Timeout
    BY <1>1, <2>1, <2>2, GoogleKeysAssumption
  <2> QED
    BY <1>1, <1>3, <2>1, <2>3 DEF CacheIsGoogles
<1>7. ASSUME NEW w \in Verifying  PROVE FetchesInTime(w)' /\ EndedWell(w)'
  <2>1. CASE w = v
    <3>1. held.asked = verify[v].asked /\ held.pc = "again" /\ held.ended = verify[v].ended
      BY DEF KeysInv, KeysTypeOK, VerifyState
    <3> QED
      BY <1>2, <1>3, <1>4, <2>1, <3>1 DEF KeysInv, FetchesInTime, EndedWell
  <2>2. CASE w # v
    BY <1>2, <1>3, <1>4, <2>2 DEF KeysInv, FetchesInTime, EndedWell
  <2> QED BY <2>1, <2>2
<1> QED
  BY <1>5, <1>6, <1>7 DEF KeysInv

\* The second look finds what was stored since the verification began.
LEMMA LookAgainOK ==
    ASSUME NEW v \in Verifying, KeysInv, LookAgain(v)
    PROVE  KeysInv'
<1> DEFINE pc == IF verify[v].kid \in cache.keys THEN "found" ELSE "unknown"
<1> DEFINE held == [verify[v] EXCEPT !.pc = pc, !.ended = instant]
<1>1. held \in VerifyState
  BY DEF KeysInv, KeysTypeOK, VerifyState
<1>2. verify'[v] = held /\ UNCHANGED <<instant, published, cache>> /\ Keeps(v, held)
  BY DEF LookAgain, Ends, Keeps, KeysInv, KeysTypeOK
<1>3. cache # NoKeys /\ verify[v].asked <= cache.fetched_at
  BY DEF KeysInv, FetchesInTime, LookAgain
<1>4. PICK t \in 0..instant : /\ t <= cache.fetched_at
                              /\ cache.fetched_at <= t + Timeout
                              /\ cache.keys = published[t]
  BY <1>3 DEF KeysInv, CacheIsGoogles
<1>5. cache.fetched_at \in 0..instant /\ instant \in Nat /\ verify[v].asked \in Nat
  BY <1>3 DEF KeysInv, KeysTypeOK, VerifyState
<1>6. t + Timeout >= verify[v].asked
  BY <1>3, <1>4, <1>5, GoogleKeysAssumption
<1>7. held.ended = instant /\ held.pc = pc /\ held.kid = verify[v].kid /\ held.asked = verify[v].asked
  BY DEF KeysInv, KeysTypeOK, VerifyState
<1>8. FetchesInTime(v)'
  BY <1>2, <1>7 DEF KeysInv, FetchesInTime
<1>9. EndedWell(v)'
  BY <1>2, <1>4, <1>5, <1>6, <1>7 DEF EndedWell
<1> QED
  BY <1>1, <1>2, <1>8, <1>9, OnlyItself

\* What was published stays published at its instant.
LEMMA PassOK ==
    ASSUME NEW keys \in SUBSET Kids, KeysInv, Pass(keys)
    PROVE  KeysInv'
<1>1. instant \in Nat /\ instant' = instant + 1 /\ UNCHANGED <<cache, verify>>
  BY DEF Pass, KeysInv, KeysTypeOK
<1>2. /\ published' \in [0..instant' -> SUBSET Kids]
      /\ \A t \in 0..instant : published'[t] = published[t] /\ t \in 0..instant'
  BY <1>1 DEF Pass, KeysInv, KeysTypeOK
<1>3. KeysTypeOK'
  BY <1>1, <1>2 DEF KeysInv, KeysTypeOK
<1>4. CacheIsGoogles'
  BY <1>1, <1>2 DEF KeysInv, CacheIsGoogles
<1>5. ASSUME NEW v \in Verifying  PROVE FetchesInTime(v)' /\ EndedWell(v)'
  <2>1. verify[v] \in VerifyState
    BY DEF KeysInv, KeysTypeOK
  <2>2. FetchesInTime(v)'
    <3>1. verify[v].since \in Nat /\ verify[v].asked \in Nat
      BY <2>1 DEF VerifyState
    <3>2. verify[v].pc \in {"fetch", "store"} => instant - verify[v].since < Timeout
      BY DEF Pass
    <3>3. verify[v].pc \in {"fetch", "store"} => instant' <= verify[v].since + Timeout
      BY <1>1, <3>1, <3>2, GoogleKeysAssumption
    <3>4. FetchesInTime(v)
      BY DEF KeysInv
    <3> QED
      BY <1>1, <1>2, <3>1, <3>3, <3>4 DEF FetchesInTime
  <2>3. EndedWell(v)'
    <3>1. verify[v].ended <= instant /\ verify[v].ended \in Nat
      BY <2>1 DEF KeysInv, EndedWell, VerifyState
    <3>2. \A t \in 0..verify[v].ended : t \in 0..instant
      BY <1>1, <3>1
    <3> QED
      BY <1>1, <1>2, <3>1, <3>2 DEF KeysInv, EndedWell
  <2> QED BY <2>2, <2>3
<1> QED
  BY <1>3, <1>4, <1>5 DEF KeysInv

LEMMA KeysNextOK == KeysInv /\ [KeysNext]_keysVars => KeysInv'
<1> SUFFICES ASSUME KeysInv, [KeysNext]_keysVars PROVE KeysInv'
  OBVIOUS
<1>1. CASE UNCHANGED keysVars
  BY <1>1 DEF keysVars, KeysInv, KeysTypeOK, CacheIsGoogles, FetchesInTime, EndedWell
<1>2. CASE KeysNext
  BY <1>2, AskForKeyOK, HitOK, MissOK, ServedOK, FetchFailsOK, StoreKeysOK, LookAgainOK, PassOK
     DEF KeysNext, VerifyStep
<1> QED BY <1>1, <1>2

LEMMA KeysInvHolds == KeysSpec => []KeysInv
  BY KeysInitOK, KeysNextOK, PTL DEF KeysSpec

\* Every variable has its type: in particular the cache was never stored later
\* than now.
THEOREM KeysTyped == KeysSpec => []KeysTypeOK
<1>1. KeysInv => KeysTypeOK
  BY DEF KeysInv
<1> QED BY <1>1, KeysInvHolds, PTL

\* However fetches overlap and in whatever order their answers are stored, a
\* credential is checked with a key of Google's of late, and a key called
\* unknown was not published at some instant since (google.rs get_key).
THEOREM KeysFresh == KeysSpec => []KeysAreGooglesOfLate
<1>1. KeysInv => KeysAreGooglesOfLate
  BY DEF KeysInv, KeysAreGooglesOfLate, EndedWell
<1> QED BY <1>1, KeysInvHolds, PTL
=============================================================================
