------------------------ MODULE CreateVentureProofs ------------------------
(***************************************************************************)
(* Proofs about the founding of ventures (routes/tenants.rs,               *)
(* routes/carry_forward.rs, main.rs, create_tenant.rs), for any number of  *)
(* pages, requests, people, ventures, releases and restarts.               *)
(*                                                                         *)
(* The requests are handled in steps that share no transaction, so what    *)
(* holds of the tables rests on what each request has found out and nobody *)
(* can undo: that whoever gets past the settings wrote them, and alone;    *)
(* that the schema he defined is still the serving release's, since no     *)
(* request outlives its process; and that who was once in a venture still  *)
(* is.  What a page says rests on how far its own request has come.        *)
(***************************************************************************)
EXTENDS CreateVenture, WellFoundedInduction, SequenceTheorems, TLAPS

\* What a request in this state has found out.
RequestTrue(h) ==
    /\ h.pc \in CreateWaits => h.who \in People /\ h.slug \in Slugs /\ h.name \in Names
    /\ h.pc \in SeedWaits => h.who \in People /\ h.slug \in Slugs /\ h.seed \in Seeds
    /\ h.pc \in {"settings", "register"} =>
          gateway.pc = "serving" /\ schema[h.slug] = gateway.release
    /\ h.pc = "register" => settings[h.slug] = h.name /\ directory[h.slug] = None
    /\ h.pc \in {"look", "record"} => membership[h.who][h.slug] # None

\* How far the migration has come.
ProcessTrue ==
    /\ gateway.pc # "down" => gateway.release \in Releases
    /\ gateway.pc = "migrate" =>
          \A v \in Slugs : directory[v] # None => v \in gateway.todo \/ schema[v] = gateway.release
    /\ gateway.pc \in {"bucket", "serving"} =>
          \A v \in Slugs : directory[v] # None => schema[v] = gateway.release

\* Past the settings everybody is alone with his slug.
Alone ==
    \A r, q \in Requests :
        (request[r].pc = "register" /\ request[q].pc = "register" /\ r # q) =>
            request[r].slug # request[q].slug

\* The inductive invariant of the gateway.
ProvInv ==
    /\ ProvTypeOK
    /\ ListedMeansComplete
    /\ ProcessTrue
    /\ Alone
    /\ \A r \in Requests : RequestTrue(request[r])

-----------------------------------------------------------------------------
(***************************************************************************)
(* The requests                                                            *)
(***************************************************************************)

\* A request moves and writes nothing.
LEMMA RequestMoves ==
    ASSUME NEW r \in Requests, NEW held \in RequestState, ProvInv, Holds(r, held),
           UNCHANGED <<tables, process>>, RequestTrue(held), held.pc # "register"
    PROVE  ProvInv'
<1>1. /\ request' \in [Requests -> RequestState]
      /\ request'[r] = held
      /\ \A q \in Requests : q # r => request'[q] = request[q]
  BY DEF ProvInv, ProvTypeOK, Holds
<1>2. ProvTypeOK' /\ ListedMeansComplete' /\ ProcessTrue'
  BY <1>1 DEF ProvInv, ProvTypeOK, ListedMeansComplete, ProcessTrue, tables, process
<1>3. Alone'
  BY <1>1 DEF ProvInv, Alone
<1>4. ASSUME NEW q \in Requests  PROVE RequestTrue(request[q])'
  <2>1. CASE q = r
    BY <1>1, <2>1 DEF RequestTrue, tables, process
  <2>2. CASE q # r
    BY <1>1, <2>2 DEF ProvInv, RequestTrue, tables, process
  <2> QED BY <2>1, <2>2
<1> QED
  BY <1>2, <1>3, <1>4 DEF ProvInv

\* An answer is a request's state, and claims nothing about the tables.
LEMMA AnswersAreQuiet ==
    ASSUME NEW h \in RequestState, NEW status \in Statuses
    PROVE  /\ Answer(h, status) \in RequestState
           /\ RequestTrue(Answer(h, status))
           /\ Answer(h, status).pc = "answered"
           /\ Answer(h, status).slug = h.slug
           /\ Answer(h, status).status = status
  BY DEF Answer, Quiet, RequestState, RequestTrue, CreateWaits, SeedWaits, Statuses

\* A request that is answered writes nothing with it.
LEMMA AnswerOK ==
    ASSUME NEW r \in Requests, NEW status \in Statuses, ProvInv, Answers(r, status),
           UNCHANGED <<tables, process>>
    PROVE  ProvInv'
<1>1. PICK h \in RequestState : h = request[r]
  BY DEF ProvInv, ProvTypeOK
<1>2. Holds(r, Answer(h, status))
  BY <1>1 DEF Answers
<1> QED
  BY <1>2, AnswersAreQuiet, RequestMoves

\* A request that waits goes on to another await.
LEMMA GoesOn ==
    ASSUME NEW r \in Requests, NEW h \in RequestState, h = request[r],
           NEW pc \in CreateWaits \cup SeedWaits, ProvInv
    PROVE  /\ [h EXCEPT !.pc = pc] \in RequestState
           /\ [h EXCEPT !.pc = pc].pc = pc
           /\ [h EXCEPT !.pc = pc].who = h.who
           /\ [h EXCEPT !.pc = pc].slug = h.slug
           /\ [h EXCEPT !.pc = pc].name = h.name
           /\ [h EXCEPT !.pc = pc].seed = h.seed
  BY DEF RequestState

\* The looks: at the slug, at the caller's role, at the seed.
LEMMA LookUpSlugOK ==
    ASSUME NEW r \in Requests, ProvInv, LookUpSlug(r)
    PROVE  ProvInv'
<1>1. PICK h \in RequestState : h = request[r]
  BY DEF ProvInv, ProvTypeOK
<1>2. CASE Answers(r, "conflict")
  BY <1>2, AnswerOK DEF LookUpSlug, Statuses
<1>3. CASE Goes(r, "schema")
  <2> DEFINE held == [h EXCEPT !.pc = "schema"]
  <2>1. held \in RequestState /\ held.pc = "schema" /\ held.who = h.who
        /\ held.slug = h.slug /\ held.name = h.name
    BY <1>1, GoesOn DEF CreateWaits
  <2>2. RequestTrue(h) /\ h.pc = "directory"
    BY <1>1 DEF ProvInv, LookUpSlug, At
  <2>3. RequestTrue(held)
    BY <2>1, <2>2 DEF RequestTrue, CreateWaits, SeedWaits
  <2>4. Holds(r, held) /\ UNCHANGED <<tables, process>>
    BY <1>1, <1>3 DEF Goes, LookUpSlug
  <2> HIDE DEF held
  <2> QED BY <2>1, <2>3, <2>4, RequestMoves
<1> QED BY <1>2, <1>3 DEF LookUpSlug

LEMMA CheckOwnerOK ==
    ASSUME NEW r \in Requests, ProvInv, CheckOwner(r)
    PROVE  ProvInv'
<1>1. PICK h \in RequestState : h = request[r]
  BY DEF ProvInv, ProvTypeOK
<1>2. CASE membership[h.who][h.slug] # "owner"
  BY <1>1, <1>2, AnswerOK DEF CheckOwner, Statuses
<1>3. CASE membership[h.who][h.slug] = "owner"
  <2> DEFINE held == [h EXCEPT !.pc = "look"]
  <2>1. held \in RequestState /\ held.pc = "look" /\ held.who = h.who
        /\ held.slug = h.slug /\ held.seed = h.seed
    BY <1>1, GoesOn DEF SeedWaits
  <2>2. RequestTrue(h) /\ h.pc = "role"
    BY <1>1 DEF ProvInv, CheckOwner, At
  <2>3. RequestTrue(held)
    BY <1>3, <2>1, <2>2, ProvisioningAssumption DEF RequestTrue, CreateWaits, SeedWaits
  <2>4. Holds(r, held) /\ UNCHANGED <<tables, process>>
    BY <1>1, <1>3 DEF Goes, CheckOwner
  <2> HIDE DEF held
  <2> QED BY <2>1, <2>3, <2>4, RequestMoves
<1> QED BY <1>2, <1>3

LEMMA LookForSeedOK ==
    ASSUME NEW r \in Requests, ProvInv, LookForSeed(r)
    PROVE  ProvInv'
<1>1. PICK h \in RequestState : h = request[r]
  BY DEF ProvInv, ProvTypeOK
<1>2. CASE Answers(r, "conflict")
  BY <1>2, AnswerOK DEF LookForSeed, Statuses
<1>3. CASE Goes(r, "record")
  <2> DEFINE held == [h EXCEPT !.pc = "record"]
  <2>1. held \in RequestState /\ held.pc = "record" /\ held.who = h.who
        /\ held.slug = h.slug /\ held.seed = h.seed
    BY <1>1, GoesOn DEF SeedWaits
  <2>2. RequestTrue(h) /\ h.pc = "look"
    BY <1>1 DEF ProvInv, LookForSeed, At
  <2>3. RequestTrue(held)
    BY <2>1, <2>2 DEF RequestTrue, CreateWaits, SeedWaits
  <2>4. Holds(r, held) /\ UNCHANGED <<tables, process>>
    BY <1>1, <1>3 DEF Goes, LookForSeed
  <2> HIDE DEF held
  <2> QED BY <2>1, <2>3, <2>4, RequestMoves
<1> QED BY <1>2, <1>3 DEF LookForSeed

(***************************************************************************)
(* The writes                                                              *)
(***************************************************************************)

\* The schema that is defined is that of the release that serves.
LEMMA ApplySchemaOK ==
    ASSUME NEW r \in Requests, ProvInv, ApplySchema(r)
    PROVE  ProvInv'
<1>1. PICK h \in RequestState : h = request[r]
  BY DEF ProvInv, ProvTypeOK
<1> DEFINE held == [h EXCEPT !.pc = "settings"]
<1>2. held \in RequestState /\ held.pc = "settings" /\ held.who = h.who
      /\ held.slug = h.slug /\ held.name = h.name
  BY <1>1, GoesOn DEF CreateWaits
<1>3. /\ h.pc = "schema" /\ gateway.pc = "serving" /\ gateway.release \in Releases
      /\ h.who \in People /\ h.slug \in Slugs /\ h.name \in Names
  BY <1>1 DEF ProvInv, ApplySchema, At, ProcessTrue, RequestTrue, CreateWaits
<1>4. /\ schema' = [schema EXCEPT ![h.slug] = gateway.release]
      /\ request' = [request EXCEPT ![r] = held]
      /\ UNCHANGED <<directory, membership, settings, seed, process>>
  BY <1>1 DEF ApplySchema, Goes, Holds
<1> HIDE DEF held
<1>5. /\ request' \in [Requests -> RequestState] /\ request'[r] = held
      /\ \A q \in Requests : q # r => request'[q] = request[q]
  BY <1>2, <1>4 DEF ProvInv, ProvTypeOK
<1>6. /\ schema' \in [Slugs -> Releases \cup {None}]
      /\ schema'[h.slug] = gateway.release
      /\ \A v \in Slugs : v # h.slug => schema'[v] = schema[v]
  BY <1>3, <1>4 DEF ProvInv, ProvTypeOK
<1>7. ProvTypeOK'
  BY <1>4, <1>5, <1>6 DEF ProvInv, ProvTypeOK, process
<1>8. ListedMeansComplete' /\ ProcessTrue'
  BY <1>3, <1>4, <1>6, ProvisioningAssumption DEF ProvInv, ListedMeansComplete, ProcessTrue, process
<1>9. Alone'
  BY <1>2, <1>5 DEF ProvInv, Alone
<1>10. ASSUME NEW q \in Requests  PROVE RequestTrue(request[q])'
  <2>1. CASE q = r
    BY <1>2, <1>3, <1>4, <1>5, <1>6, <2>1 DEF RequestTrue, CreateWaits, SeedWaits, process
  <2>2. CASE q # r
    <3>1. RequestTrue(request[q]) /\ request'[q] = request[q]
      BY <1>5, <2>2 DEF ProvInv
    <3> QED
      BY <1>4, <1>6, <3>1 DEF RequestTrue, CreateWaits, SeedWaits, process
  <2> QED BY <2>1, <2>2
<1> QED
  BY <1>7, <1>8, <1>9, <1>10 DEF ProvInv

\* Who writes the settings of a slug finds it unlisted, and nobody else past
\* them, whether or not he learns that he wrote.
LEMMA SettingsWritten ==
    ASSUME NEW r \in Requests, NEW h \in RequestState, h = request[r], h.pc = "settings",
           NEW held \in RequestState, Holds(r, held),
           \/ held.pc = "answered"
           \/ /\ held.pc = "register"
              /\ held.who = h.who /\ held.slug = h.slug /\ held.name = h.name,
           ProvInv, CreatesSettings(h), UNCHANGED process
    PROVE  ProvInv'
<1>1. RequestTrue(h)
  BY DEF ProvInv
<1>2. h.who \in People /\ h.slug \in Slugs /\ h.name \in Names
  BY <1>1 DEF RequestTrue, CreateWaits
<1>3. /\ settings[h.slug] = None /\ UNCHANGED <<directory, membership, schema, seed>>
      /\ settings' \in [Slugs -> Names \cup {None}]
      /\ settings'[h.slug] = h.name
      /\ \A v \in Slugs : v # h.slug => settings'[v] = settings[v]
  BY <1>2 DEF CreatesSettings, ProvInv, ProvTypeOK
<1>4. /\ request' \in [Requests -> RequestState] /\ request'[r] = held
      /\ \A q \in Requests : q # r => request'[q] = request[q]
  BY DEF ProvInv, ProvTypeOK, Holds
<1>5. directory[h.slug] = None
  BY <1>2, <1>3 DEF ProvInv, ListedMeansComplete
<1>6. \A q \in Requests : request[q].pc = "register" => request[q].slug # h.slug
  <2> SUFFICES ASSUME NEW q \in Requests, request[q].pc = "register", request[q].slug = h.slug
               PROVE  FALSE
    OBVIOUS
  <2>1. settings[h.slug] \in Names
    BY DEF ProvInv, RequestTrue, CreateWaits
  <2> QED BY <1>3, <2>1, ProvisioningAssumption
<1>7. ProvTypeOK'
  BY <1>3, <1>4 DEF ProvInv, ProvTypeOK, process
<1>8. ListedMeansComplete' /\ ProcessTrue'
  BY <1>3, <1>5 DEF ProvInv, ListedMeansComplete, ProcessTrue, process
<1>9. Alone'
  BY <1>4, <1>6 DEF ProvInv, Alone
<1>10. ASSUME NEW q \in Requests  PROVE RequestTrue(request[q])'
  <2>1. CASE q = r
    BY <1>1, <1>2, <1>3, <1>4, <1>5, <2>1 DEF RequestTrue, CreateWaits, SeedWaits, process
  <2>2. CASE q # r
    <3>1. RequestTrue(request[q]) /\ request'[q] = request[q]
      BY <1>4, <2>2 DEF ProvInv
    <3> QED
      BY <1>3, <1>6, <3>1 DEF RequestTrue, CreateWaits, SeedWaits, process
  <2> QED BY <2>1, <2>2
<1> QED
  BY <1>7, <1>8, <1>9, <1>10 DEF ProvInv

\* Who enters a slug in the directory has its schema and its settings in place.
LEMMA DirectoryWritten ==
    ASSUME NEW r \in Requests, NEW h \in RequestState, h = request[r], h.pc = "register",
           NEW held \in RequestState, Holds(r, held), held.pc = "answered",
           ProvInv, Enters(h), UNCHANGED process
    PROVE  ProvInv'
<1>1. RequestTrue(h)
  BY DEF ProvInv
<1>2. /\ h.who \in People /\ h.slug \in Slugs /\ h.name \in Names
      /\ gateway.pc = "serving" /\ gateway.release \in Releases
      /\ schema[h.slug] = gateway.release /\ settings[h.slug] = h.name
  BY <1>1 DEF RequestTrue, CreateWaits, ProvInv, ProcessTrue
<1>3. /\ directory[h.slug] = None /\ UNCHANGED <<schema, settings, seed>>
      /\ directory' \in [Slugs -> [by : People, name : Names] \cup {None}]
      /\ directory'[h.slug] = [by |-> h.who, name |-> h.name]
      /\ \A v \in Slugs : v # h.slug => directory'[v] = directory[v]
  BY <1>2 DEF Enters, ProvInv, ProvTypeOK
<1>4. /\ membership' \in [People -> [Slugs -> Roles \cup {"owner", None}]]
      /\ membership'[h.who][h.slug] = "owner"
      /\ \A p \in People, v \in Slugs :
            (p = h.who /\ v = h.slug) \/ membership'[p][v] = membership[p][v]
  BY <1>2 DEF Enters, ProvInv, ProvTypeOK
<1>5. /\ request' \in [Requests -> RequestState] /\ request'[r] = held
      /\ \A q \in Requests : q # r => request'[q] = request[q]
  BY DEF ProvInv, ProvTypeOK, Holds
<1>6. ProvTypeOK'
  BY <1>3, <1>4, <1>5 DEF ProvInv, ProvTypeOK, process
<1>7. directory'[h.slug] # None /\ directory'[h.slug].by = h.who
  BY <1>2, <1>3, ProvisioningAssumption
<1>8. ListedMeansComplete'
  <2> SUFFICES ASSUME NEW v \in Slugs
               PROVE  /\ directory'[v] # None =>
                            /\ schema'[v] # None /\ settings'[v] # None
                            /\ membership'[directory'[v].by][v] # None
                      /\ seed'[v] # None => directory'[v] # None
                      /\ \A p \in People : membership'[p][v] # None => directory'[v] # None
    BY DEF ListedMeansComplete
  <2>1. CASE v = h.slug
    BY <1>2, <1>3, <1>4, <1>7, <2>1, ProvisioningAssumption
  <2>2. CASE v # h.slug
    <3>1. directory'[v] = directory[v] /\ \A p \in People : membership'[p][v] = membership[p][v]
      BY <1>3, <1>4, <2>2
    <3>2. directory[v] # None => directory[v].by \in People
      BY DEF ProvInv, ProvTypeOK
    <3> QED
      BY <1>3, <3>1, <3>2 DEF ProvInv, ListedMeansComplete
  <2> QED BY <2>1, <2>2
<1>9. ProcessTrue'
  BY <1>2, <1>3 DEF ProvInv, ProcessTrue, process
<1>10. Alone'
  BY <1>5 DEF ProvInv, Alone
<1>11. ASSUME NEW q \in Requests  PROVE RequestTrue(request[q])'
  <2>1. CASE q = r
    BY <1>5, <2>1 DEF RequestTrue, CreateWaits, SeedWaits
  <2>2. CASE q # r
    <3>1. RequestTrue(request[q]) /\ request'[q] = request[q]
      BY <1>5, <2>2 DEF ProvInv
    <3>2. request[q].pc = "register" => request[q].slug # h.slug
      BY <2>2 DEF ProvInv, Alone
    <3>3. request[q].pc \in SeedWaits =>
              membership'[request[q].who][request[q].slug] # None
                 \/ membership[request[q].who][request[q].slug] = None
      BY <1>4, <3>1, ProvisioningAssumption DEF RequestTrue
    <3> QED
      BY <1>3, <3>1, <3>2, <3>3 DEF RequestTrue, CreateWaits, SeedWaits, process
  <2> QED BY <2>1, <2>2
<1> QED
  BY <1>6, <1>8, <1>9, <1>10, <1>11 DEF ProvInv

\* Who records a seed is in the venture, which is listed.
LEMMA SeedWritten ==
    ASSUME NEW r \in Requests, NEW h \in RequestState, h = request[r], h.pc = "record",
           NEW held \in RequestState, Holds(r, held), held.pc = "answered",
           ProvInv, RecordsSeed(h), UNCHANGED process
    PROVE  ProvInv'
<1>1. RequestTrue(h)
  BY DEF ProvInv
<1>2. h.who \in People /\ h.slug \in Slugs /\ h.seed \in Seeds /\ membership[h.who][h.slug] # None
  BY <1>1 DEF RequestTrue, SeedWaits
<1>3. directory[h.slug] # None
  BY <1>2 DEF ProvInv, ListedMeansComplete
<1>4. /\ UNCHANGED <<directory, membership, schema, settings>>
      /\ seed' \in [Slugs -> [seed : Seeds, by : People] \cup {None}]
      /\ \A v \in Slugs : v # h.slug => seed'[v] = seed[v]
  BY <1>2 DEF RecordsSeed, ProvInv, ProvTypeOK
<1>5. /\ request' \in [Requests -> RequestState] /\ request'[r] = held
      /\ \A q \in Requests : q # r => request'[q] = request[q]
  BY DEF ProvInv, ProvTypeOK, Holds
<1>6. ProvTypeOK' /\ ListedMeansComplete' /\ ProcessTrue'
  BY <1>3, <1>4, <1>5 DEF ProvInv, ProvTypeOK, ListedMeansComplete, ProcessTrue, process
<1>7. Alone'
  BY <1>5 DEF ProvInv, Alone
<1>8. ASSUME NEW q \in Requests  PROVE RequestTrue(request[q])'
  <2>1. CASE q = r
    BY <1>5, <2>1 DEF RequestTrue, CreateWaits, SeedWaits
  <2>2. CASE q # r
    BY <1>4, <1>5, <2>2 DEF ProvInv, RequestTrue, CreateWaits, SeedWaits, process
  <2> QED BY <2>1, <2>2
<1> QED
  BY <1>6, <1>7, <1>8 DEF ProvInv

LEMMA CreateSettingsOK ==
    ASSUME NEW r \in Requests, ProvInv, CreateSettings(r)
    PROVE  ProvInv'
<1>1. PICK h \in RequestState : h = request[r]
  BY DEF ProvInv, ProvTypeOK
<1> DEFINE held == [h EXCEPT !.pc = "register"]
<1>2. held \in RequestState /\ held.pc = "register" /\ held.who = h.who
      /\ held.slug = h.slug /\ held.name = h.name
  BY <1>1, GoesOn DEF CreateWaits
<1>3. h.pc = "settings" /\ CreatesSettings(h) /\ UNCHANGED process /\ Holds(r, held)
  BY <1>1 DEF CreateSettings, At, Goes
<1> HIDE DEF held
<1> QED BY <1>1, <1>2, <1>3, SettingsWritten

LEMMA RegisterOK ==
    ASSUME NEW r \in Requests, ProvInv, Register(r)
    PROVE  ProvInv'
<1>1. PICK h \in RequestState : h = request[r]
  BY DEF ProvInv, ProvTypeOK
<1>2. h.pc = "register" /\ Enters(h) /\ UNCHANGED process /\ Holds(r, Answer(h, "ok"))
  BY <1>1 DEF Register, At, Answers
<1>3. Answer(h, "ok") \in RequestState /\ Answer(h, "ok").pc = "answered"
  BY AnswersAreQuiet DEF Statuses
<1> QED BY <1>1, <1>2, <1>3, DirectoryWritten

LEMMA RecordSeedOK ==
    ASSUME NEW r \in Requests, ProvInv, RecordSeed(r)
    PROVE  ProvInv'
<1>1. PICK h \in RequestState : h = request[r]
  BY DEF ProvInv, ProvTypeOK
<1>2. h.pc = "record" /\ RecordsSeed(h) /\ UNCHANGED process /\ Holds(r, Answer(h, "ok"))
  BY <1>1 DEF RecordSeed, At, Answers
<1>3. Answer(h, "ok") \in RequestState /\ Answer(h, "ok").pc = "answered"
  BY AnswersAreQuiet DEF Statuses
<1> QED BY <1>1, <1>2, <1>3, SeedWritten

LEMMA FailUnacknowledgedOK ==
    ASSUME NEW r \in Requests, ProvInv, FailUnacknowledged(r)
    PROVE  ProvInv'
<1>1. PICK h \in RequestState : h = request[r]
  BY DEF ProvInv, ProvTypeOK
<1>2. UNCHANGED process /\ Holds(r, Answer(h, "error"))
  BY <1>1 DEF FailUnacknowledged, Answers
<1>3. Answer(h, "error") \in RequestState /\ Answer(h, "error").pc = "answered"
  BY AnswersAreQuiet DEF Statuses
<1>4. CASE h.pc = "settings" /\ CreatesSettings(h)
  BY <1>1, <1>2, <1>3, <1>4, SettingsWritten
<1>5. CASE h.pc = "register" /\ Enters(h)
  BY <1>1, <1>2, <1>3, <1>5, DirectoryWritten
<1>6. CASE h.pc = "record" /\ RecordsSeed(h)
  BY <1>1, <1>2, <1>3, <1>6, SeedWritten
<1> QED BY <1>1, <1>4, <1>5, <1>6 DEF FailUnacknowledged, At

\* An invite of a listed venture adds a member or gives one another role.
LEMMA JoinOK ==
    ASSUME NEW p \in People, NEW slug \in Slugs, NEW role \in Roles, ProvInv, Join(p, slug, role)
    PROVE  ProvInv'
<1>1. /\ membership' \in [People -> [Slugs -> Roles \cup {"owner", None}]]
      /\ membership'[p][slug] = role /\ role # None /\ directory[slug] # None
      /\ \A q \in People, v \in Slugs :
            (q = p /\ v = slug) \/ membership'[q][v] = membership[q][v]
      /\ UNCHANGED <<directory, schema, settings, seed, process, request>>
  BY ProvisioningAssumption DEF Join, ProvInv, ProvTypeOK
<1>2. \A q \in People, v \in Slugs : membership[q][v] # None => membership'[q][v] # None
  BY <1>1
<1>3. ProvTypeOK' /\ ProcessTrue' /\ Alone'
  BY <1>1 DEF ProvInv, ProvTypeOK, ProcessTrue, Alone, process
<1>4. ListedMeansComplete'
  <2>1. \A v \in Slugs : directory[v] # None => directory[v].by \in People
    BY DEF ProvInv, ProvTypeOK
  <2> QED
    BY <1>1, <1>2, <2>1 DEF ProvInv, ListedMeansComplete
<1>5. ASSUME NEW q \in Requests  PROVE RequestTrue(request[q])'
  BY <1>1, <1>2 DEF ProvInv, RequestTrue, CreateWaits, SeedWaits, process
<1> QED
  BY <1>3, <1>4, <1>5 DEF ProvInv

\* Only listed ventures are renamed, and nobody registers those.
LEMMA RenameOK ==
    ASSUME NEW p \in People, NEW slug \in Slugs, NEW name \in Names, ProvInv, Rename(p, slug, name)
    PROVE  ProvInv'
<1>1. /\ settings' \in [Slugs -> Names \cup {None}]
      /\ settings'[slug] = name /\ name # None
      /\ \A v \in Slugs : v # slug => settings'[v] = settings[v]
      /\ UNCHANGED <<directory, membership, schema, seed, process, request>>
  BY ProvisioningAssumption DEF Rename, ProvInv, ProvTypeOK
<1>2. directory[slug] # None
  BY ProvisioningAssumption DEF Rename, ProvInv, ListedMeansComplete
<1>3. ProvTypeOK' /\ ProcessTrue' /\ Alone' /\ ListedMeansComplete'
  BY <1>1 DEF ProvInv, ProvTypeOK, ProcessTrue, Alone, ListedMeansComplete, process
<1>4. ASSUME NEW q \in Requests  PROVE RequestTrue(request[q])'
  BY <1>1, <1>2 DEF ProvInv, RequestTrue, CreateWaits, SeedWaits, process
<1> QED
  BY <1>3, <1>4 DEF ProvInv

(***************************************************************************)
(* The process                                                             *)
(***************************************************************************)

\* The gateway takes a step that touches no table and no request: requests that
\* count on its schema are there only while it serves.
LEMMA ProcessMoves ==
    ASSUME ProvInv, gateway.pc # "serving", gateway' \in Gateway,
           UNCHANGED <<directory, membership, settings, seed, stops, request>>,
           schema' \in [Slugs -> Releases \cup {None}],
           \A v \in Slugs : schema'[v] # schema[v] => schema'[v] # None,
           ProcessTrue'
    PROVE  ProvInv'
<1>1. ProvTypeOK' /\ Alone'
  BY DEF ProvInv, ProvTypeOK, Alone
<1>2. ListedMeansComplete'
  BY DEF ProvInv, ListedMeansComplete
<1>3. ASSUME NEW q \in Requests  PROVE RequestTrue(request[q])'
  BY DEF ProvInv, RequestTrue, CreateWaits, SeedWaits
<1> QED
  BY <1>1, <1>2, <1>3 DEF ProvInv

LEMMA StartStepOK ==
    ASSUME ProvInv, StartStep
    PROVE  ProvInv'
<1> USE DEF ProvInv, ProvTypeOK
<1>1. CASE Start
  <2>1. PICK release \in Releases : gateway' = [Down EXCEPT !.pc = "control", !.release = release]
    BY <1>1 DEF Start
  <2>2. gateway' = [pc |-> "control", release |-> release, todo |-> {}]
    BY <2>1 DEF Down
  <2>3. gateway' \in Gateway /\ ProcessTrue' /\ gateway.pc # "serving"
    BY <1>1, <2>2 DEF Gateway, ProcessTrue, Start
  <2> QED BY <1>1, <2>3, ProcessMoves DEF Start, tables
<1>2. CASE ApplyControlSchema
  <2>1. gateway' \in Gateway /\ ProcessTrue' /\ gateway.pc # "serving"
    BY <1>2 DEF ApplyControlSchema, Gateway, ProcessTrue
  <2> QED BY <1>2, <2>1, ProcessMoves DEF ApplyControlSchema, tables
<1>3. CASE ListVentures
  <2>1. gateway' = [gateway EXCEPT !.pc = "migrate", !.todo = {v \in Slugs : directory[v] # None}]
        /\ UNCHANGED <<tables, stops, request>> /\ gateway.pc = "list"
    BY <1>3 DEF ListVentures
  <2>2. gateway' \in Gateway /\ gateway'.pc = "migrate" /\ gateway'.release = gateway.release
        /\ gateway'.todo = {v \in Slugs : directory[v] # None}
    BY <2>1 DEF Gateway
  <2>3. ProcessTrue'
    BY <2>1, <2>2 DEF ProcessTrue, tables
  <2> QED BY <2>1, <2>2, <2>3, ProcessMoves DEF tables
<1>4. ASSUME NEW slug \in Slugs, Migrate(slug)  PROVE ProvInv'
  <2>1. /\ gateway.pc = "migrate" /\ gateway.release \in Releases
        /\ gateway' = [gateway EXCEPT !.todo = @ \ {slug}]
        /\ schema' = [schema EXCEPT ![slug] = gateway.release]
        /\ UNCHANGED <<directory, membership, settings, seed, stops, request>>
    BY <1>4 DEF Migrate, ProcessTrue
  <2>2. /\ gateway' \in Gateway /\ gateway'.pc = "migrate"
        /\ gateway'.release = gateway.release /\ gateway'.todo = gateway.todo \ {slug}
    BY <2>1 DEF Gateway
  <2>3. /\ schema' \in [Slugs -> Releases \cup {None}] /\ schema'[slug] = gateway.release
        /\ \A v \in Slugs : v # slug => schema'[v] = schema[v]
    BY <2>1
  <2>4. ProcessTrue'
    BY <2>1, <2>2, <2>3 DEF ProcessTrue
  <2>5. \A v \in Slugs : schema'[v] # schema[v] => schema'[v] # None
    BY <2>1, <2>3, ProvisioningAssumption
  <2> QED BY <2>1, <2>2, <2>3, <2>4, <2>5, ProcessMoves
<1>5. CASE MigrationDone
  <2>1. gateway' = [gateway EXCEPT !.pc = "bucket"] /\ UNCHANGED <<tables, stops, request>>
        /\ gateway.pc = "migrate" /\ gateway.todo = {}
    BY <1>5 DEF MigrationDone
  <2>2. gateway' \in Gateway /\ gateway'.pc = "bucket" /\ gateway'.release = gateway.release
    BY <2>1 DEF Gateway
  <2>3. ProcessTrue'
    BY <2>1, <2>2 DEF ProcessTrue, tables
  <2> QED BY <2>1, <2>2, <2>3, ProcessMoves DEF tables
<1>6. CASE Listen
  <2>1. gateway' = [gateway EXCEPT !.pc = "serving"] /\ UNCHANGED <<tables, stops, request>>
        /\ gateway.pc = "bucket"
    BY <1>6 DEF Listen
  <2>2. gateway' \in Gateway /\ gateway'.pc = "serving" /\ gateway'.release = gateway.release
    BY <2>1 DEF Gateway
  <2>3. ProcessTrue'
    BY <2>1, <2>2 DEF ProcessTrue, tables
  <2> QED BY <2>1, <2>2, <2>3, ProcessMoves DEF tables
<1> QED BY <1>1, <1>2, <1>3, <1>4, <1>5, <1>6 DEF StartStep

\* The process ends, and with it every request that it was handling.
LEMMA StopOK ==
    ASSUME ProvInv, Stop
    PROVE  ProvInv'
<1>1. UNCHANGED tables /\ gateway' = Down /\ stops' \in 0..MaxStops
  BY ProvisioningAssumption DEF Stop, ProvInv, ProvTypeOK
<1>2. ASSUME NEW q \in Requests
      PROVE  /\ request'[q] \in RequestState
             /\ RequestTrue(request[q])'
             /\ request'[q].pc # "register"
  <2>1. PICK h \in RequestState : h = request[q]
    BY DEF ProvInv, ProvTypeOK
  <2>2. request'[q] = IF h.pc \in CreateWaits \cup SeedWaits THEN Answer(h, "error") ELSE h
    BY <2>1 DEF Stop, Waiting
  <2>3. CASE h.pc \in CreateWaits \cup SeedWaits
    <3>1. Answer(h, "error") \in RequestState /\ Answer(h, "error").pc = "answered"
      BY AnswersAreQuiet DEF Statuses
    <3> QED BY <2>2, <2>3, <3>1 DEF RequestTrue, CreateWaits, SeedWaits
  <2>4. CASE h.pc \notin CreateWaits \cup SeedWaits
    BY <2>2, <2>4 DEF RequestTrue, CreateWaits, SeedWaits
  <2> QED BY <2>3, <2>4
<1>3. request' \in [Requests -> RequestState]
  BY <1>2 DEF Stop
<1>4. ProvTypeOK'
  BY <1>1, <1>3 DEF ProvInv, ProvTypeOK, tables, Gateway, Down
<1>5. ListedMeansComplete' /\ ProcessTrue' /\ Alone'
  BY <1>1, <1>2 DEF ProvInv, ListedMeansComplete, ProcessTrue, Alone, tables, Down
<1> QED
  BY <1>2, <1>4, <1>5 DEF ProvInv

LEMMA RequestStepOK ==
    ASSUME NEW r \in Requests, ProvInv, RequestStep(r)
    PROVE  ProvInv'
<1>1. CASE SettingsExist(r)
  BY <1>1, AnswerOK DEF SettingsExist, Statuses
<1>2. CASE SeedRefused(r)
  BY <1>2, AnswerOK DEF SeedRefused, Statuses
<1> QED
  BY <1>1, <1>2, LookUpSlugOK, ApplySchemaOK, CreateSettingsOK, RegisterOK, CheckOwnerOK,
     LookForSeedOK, RecordSeedOK DEF RequestStep

LEMMA ServerStepOK ==
    ASSUME ProvInv, ServerStep
    PROVE  ProvInv'
<1>1. ASSUME NEW r \in Requests, Fail(r)  PROVE ProvInv'
  BY <1>1, AnswerOK DEF Fail, Statuses
<1> QED
  BY <1>1, StartStepOK, StopOK, RequestStepOK, FailUnacknowledgedOK, JoinOK, RenameOK DEF ServerStep

LEMMA ProvInitOK == ProvInit => ProvInv
<1> SUFFICES ASSUME ProvInit PROVE ProvInv
  OBVIOUS
<1>1. Quiet \in RequestState /\ RequestTrue(Quiet) /\ Quiet.pc = "none"
  BY DEF Quiet, RequestState, RequestTrue, CreateWaits, SeedWaits
<1>2. ProvTypeOK
  BY <1>1, ProvisioningAssumption DEF ProvInit, ProvTypeOK, Gateway, Down
<1>3. ListedMeansComplete /\ ProcessTrue /\ Alone
  BY <1>1 DEF ProvInit, ListedMeansComplete, ProcessTrue, Alone, Down
<1> QED
  BY <1>1, <1>2, <1>3 DEF ProvInv, ProvInit

-----------------------------------------------------------------------------
(***************************************************************************)
(* What the gateway writes                                                 *)
(***************************************************************************)

\* A step of the gateway founds a venture, records a seed, admits someone, or
\* changes nothing that the registry knows of.
LEMMA ServerWrites ==
    ASSUME ProvInv, ServerStep
    PROVE  \/ UNCHANGED <<directory, membership, seed>>
           \/ \E r \in Requests : request[r].pc = "register" /\ Enters(request[r])
           \/ \E r \in Requests : request[r].pc = "record" /\ RecordsSeed(request[r])
           \/ \E p \in People, slug \in Slugs, role \in Roles : Join(p, slug, role)
<1>1. CASE StartStep \/ Stop
  BY <1>1 DEF StartStep, Start, ApplyControlSchema, ListVentures, Migrate, MigrationDone, Listen,
     Stop, tables
<1>2. ASSUME NEW r \in Requests, RequestStep(r) \/ Fail(r) \/ FailUnacknowledged(r)
      PROVE  \/ UNCHANGED <<directory, membership, seed>>
             \/ request[r].pc = "register" /\ Enters(request[r])
             \/ request[r].pc = "record" /\ RecordsSeed(request[r])
  BY <1>2 DEF RequestStep, LookUpSlug, ApplySchema, CreateSettings, SettingsExist, Register,
     CheckOwner, LookForSeed, RecordSeed, SeedRefused, Fail, FailUnacknowledged, At,
     CreatesSettings, tables
<1>3. ASSUME NEW p \in People, NEW slug \in Slugs, NEW name \in Names, Rename(p, slug, name)
      PROVE  UNCHANGED <<directory, membership, seed>>
  BY <1>3 DEF Rename
<1> QED
  BY <1>1, <1>2, <1>3 DEF ServerStep

\* The effects, row by row.
LEMMA EntersRows ==
    ASSUME NEW h \in RequestState, ProvInv, RequestTrue(h), h.pc = "register", Enters(h)
    PROVE  /\ h.who \in People /\ h.slug \in Slugs
           /\ directory[h.slug] = None
           /\ directory' \in [Slugs -> [by : People, name : Names] \cup {None}]
           /\ directory'[h.slug] = [by |-> h.who, name |-> h.name]
           /\ directory'[h.slug] # None /\ directory'[h.slug].by = h.who
           /\ \A v \in Slugs : v # h.slug => directory'[v] = directory[v]
           /\ membership'[h.who][h.slug] # None
           /\ \A p \in People, v \in Slugs :
                 (p = h.who /\ v = h.slug) \/ membership'[p][v] = membership[p][v]
           /\ seed' = seed
<1>1. h.who \in People /\ h.slug \in Slugs /\ h.name \in Names
  BY DEF RequestTrue, CreateWaits
<1>2. [by |-> h.who, name |-> h.name] # None
  BY <1>1, ProvisioningAssumption
<1> QED
  BY <1>1, <1>2, ProvisioningAssumption DEF Enters, ProvInv, ProvTypeOK

LEMMA SeedRows ==
    ASSUME NEW h \in RequestState, ProvInv, RequestTrue(h), h.pc = "record", RecordsSeed(h)
    PROVE  /\ h.who \in People /\ h.slug \in Slugs /\ h.seed \in Seeds
           /\ membership[h.who][h.slug] # None
           /\ seed[h.slug] = None
           /\ seed' = [seed EXCEPT ![h.slug] = [seed |-> h.seed, by |-> h.who]]
           /\ seed'[h.slug] = [seed |-> h.seed, by |-> h.who]
           /\ \A v \in Slugs : v # h.slug => seed'[v] = seed[v]
           /\ UNCHANGED <<directory, membership>>
  BY DEF RecordsSeed, RequestTrue, SeedWaits, ProvInv, ProvTypeOK

\* What the directory and the seeds say they say for good.
Grows ==
    \A v \in Slugs :
        /\ directory[v] # None => directory'[v] = directory[v]
        /\ seed[v] # None => seed'[v] = seed[v]

LEMMA ServerGrows ==
    ASSUME ProvInv, ServerStep
    PROVE  Grows
<1>1. ASSUME NEW r \in Requests, request[r].pc = "register", Enters(request[r])
      PROVE  Grows
  <2>1. PICK h \in RequestState : h = request[r]
    BY DEF ProvInv, ProvTypeOK
  <2>2. RequestTrue(h) /\ h.pc = "register" /\ Enters(h)
    BY <1>1, <2>1 DEF ProvInv
  <2> QED BY <2>2, EntersRows DEF Grows
<1>2. ASSUME NEW r \in Requests, request[r].pc = "record", RecordsSeed(request[r])
      PROVE  Grows
  <2>1. PICK h \in RequestState : h = request[r]
    BY DEF ProvInv, ProvTypeOK
  <2>2. RequestTrue(h) /\ h.pc = "record" /\ RecordsSeed(h)
    BY <1>2, <2>1 DEF ProvInv
  <2> QED BY <2>2, SeedRows DEF Grows
<1>3. ASSUME NEW p \in People, NEW slug \in Slugs, NEW role \in Roles, Join(p, slug, role)
      PROVE  Grows
  BY <1>3 DEF Join, Grows
<1>4. CASE UNCHANGED <<directory, membership, seed>>
  BY <1>4 DEF Grows
<1> QED
  BY <1>1, <1>2, <1>3, <1>4, ServerWrites

(***************************************************************************)
(* The registry                                                            *)
(***************************************************************************)
FounderOf == [v \in Slugs |-> IF directory[v] = None THEN None ELSE directory[v].by]
RosterOf == [v \in Slugs |-> {p \in People : membership[p][v] # None}]

\* Who is entered has founded.
LEMMA EnterIsFound ==
    ASSUME NEW h \in RequestState, ProvInv, RequestTrue(h), h.pc = "register", Enters(h)
    PROVE  TheRegistry!Found(h.slug, h.who)
<1>1. /\ h.slug \in Slugs /\ directory[h.slug] = None
      /\ directory'[h.slug] # None /\ directory'[h.slug].by = h.who
      /\ \A v \in Slugs : v # h.slug => directory'[v] = directory[v]
      /\ h.who \in People /\ membership'[h.who][h.slug] # None
      /\ \A p \in People, v \in Slugs :
            (p = h.who /\ v = h.slug) \/ membership'[p][v] = membership[p][v]
      /\ seed' = seed
  BY EntersRows
<1>2. FounderOf[h.slug] = None
  BY <1>1 DEF FounderOf
<1>3. FounderOf' = [FounderOf EXCEPT ![h.slug] = h.who]
  <2>1. ASSUME NEW v \in Slugs
        PROVE  FounderOf'[v] = IF v = h.slug THEN h.who ELSE FounderOf[v]
    BY <1>1 DEF FounderOf
  <2> QED BY <2>1 DEF FounderOf
<1>4. RosterOf' = [RosterOf EXCEPT ![h.slug] = @ \cup {h.who}]
  <2>1. ASSUME NEW v \in Slugs
        PROVE  RosterOf'[v] = IF v = h.slug THEN RosterOf[v] \cup {h.who} ELSE RosterOf[v]
    BY <1>1 DEF RosterOf
  <2> QED BY <2>1 DEF RosterOf
<1> QED
  BY <1>1, <1>2, <1>3, <1>4 DEF TheRegistry!Found, FounderOf, RosterOf

\* Who is invited is admitted.
LEMMA JoinIsAdmit ==
    ASSUME NEW p \in People, NEW slug \in Slugs, NEW role \in Roles, ProvInv, Join(p, slug, role)
    PROVE  TheRegistry!Admit(slug, p)
<1>1. /\ directory[slug] # None /\ UNCHANGED <<directory, seed>>
      /\ membership'[p][slug] # None
      /\ \A q \in People, v \in Slugs :
            (q = p /\ v = slug) \/ membership'[q][v] = membership[q][v]
  BY ProvisioningAssumption DEF Join, ProvInv, ProvTypeOK
<1>2. FounderOf[slug] # None
  <2>1. directory[slug].by \in People
    BY <1>1 DEF ProvInv, ProvTypeOK
  <2> QED BY <1>1, <2>1, ProvisioningAssumption DEF FounderOf
<1>3. RosterOf' = [RosterOf EXCEPT ![slug] = @ \cup {p}]
  <2>1. ASSUME NEW v \in Slugs
        PROVE  RosterOf'[v] = IF v = slug THEN RosterOf[v] \cup {p} ELSE RosterOf[v]
    BY <1>1 DEF RosterOf
  <2> QED BY <2>1 DEF RosterOf
<1>4. FounderOf' = FounderOf
  BY <1>1 DEF FounderOf
<1> QED
  BY <1>1, <1>2, <1>3, <1>4 DEF TheRegistry!Admit, FounderOf, RosterOf

\* What is seeded is recorded, by one of the people, once.
LEMMA SeedIsRecord ==
    ASSUME NEW h \in RequestState, ProvInv, RequestTrue(h), h.pc = "record", RecordsSeed(h)
    PROVE  TheRegistry!Record(h.slug, h.who, h.seed)
<1>1. h.who \in RosterOf[h.slug] /\ seed[h.slug] = None
  BY SeedRows DEF RosterOf
<1>2. UNCHANGED <<FounderOf, RosterOf>>
  BY SeedRows DEF FounderOf, RosterOf
<1>3. seed' = [seed EXCEPT ![h.slug] = [seed |-> h.seed, by |-> h.who]]
  BY SeedRows
<1> QED
  BY <1>1, <1>2, <1>3 DEF TheRegistry!Record, FounderOf, RosterOf

LEMMA RegistryStep ==
    ASSUME ProvInv, ServerStep
    PROVE  [TheRegistry!RegistryNext]_(TheRegistry!registryVars)
<1>1. ASSUME NEW r \in Requests, request[r].pc = "register", Enters(request[r])
      PROVE  TheRegistry!RegistryNext
  <2>1. PICK h \in RequestState : h = request[r]
    BY DEF ProvInv, ProvTypeOK
  <2>2. RequestTrue(h) /\ h.pc = "register" /\ Enters(h)
    BY <1>1, <2>1 DEF ProvInv
  <2>3. TheRegistry!Found(h.slug, h.who) /\ h.slug \in Slugs /\ h.who \in People
    BY <2>2, EnterIsFound, EntersRows
  <2> QED BY <2>3 DEF TheRegistry!RegistryNext
<1>2. ASSUME NEW r \in Requests, request[r].pc = "record", RecordsSeed(request[r])
      PROVE  TheRegistry!RegistryNext
  <2>1. PICK h \in RequestState : h = request[r]
    BY DEF ProvInv, ProvTypeOK
  <2>2. RequestTrue(h) /\ h.pc = "record" /\ RecordsSeed(h)
    BY <1>2, <2>1 DEF ProvInv
  <2>3. /\ TheRegistry!Record(h.slug, h.who, h.seed)
        /\ h.slug \in Slugs /\ h.who \in People /\ h.seed \in Seeds
    BY <2>2, SeedIsRecord, SeedRows
  <2> QED BY <2>3 DEF TheRegistry!RegistryNext
<1>3. ASSUME NEW p \in People, NEW slug \in Slugs, NEW role \in Roles, Join(p, slug, role)
      PROVE  TheRegistry!RegistryNext
  BY <1>3, JoinIsAdmit DEF TheRegistry!RegistryNext
<1>4. CASE UNCHANGED <<directory, membership, seed>>
  BY <1>4 DEF TheRegistry!registryVars
<1> QED
  BY <1>1, <1>2, <1>3, <1>4, ServerWrites

-----------------------------------------------------------------------------
(***************************************************************************)
(* The pages                                                               *)
(***************************************************************************)
Listed(slug) == slug \in Slugs /\ directory[slug] # None
Founded(slug, p) == Listed(slug) /\ directory[slug].by = p

\* What the page of p says.
PageSays(p, g) ==
    /\ g.flash # None =>
          /\ Founded(g.flash.slug, p)
          /\ g.flash.seed # None => seed[g.flash.slug] = [seed |-> g.flash.seed, by |-> p]
    /\ g.error # None =>
          /\ g.error.kind = "seed failed" => Founded(g.error.slug, p)
          /\ g.error.kind = "conflict" => Listed(g.error.slug)

\* What the page of p waits for, and what it may conclude from the answer.
PageWaits(p, g, h) ==
    /\ g.pc = "edit" => h = Quiet
    /\ g.pc = "creating" =>
          /\ h.pc \in CreateWaits \cup {"answered"}
          /\ h.pc \in CreateWaits => h.who = p
          /\ (h.pc = "answered" /\ h.status = "ok") => Founded(h.slug, p)
          /\ (h.pc = "answered" /\ h.status = "conflict") => Listed(h.slug)
    /\ g.pc = "seeding" =>
          /\ h.pc \in SeedWaits \cup {"answered"}
          /\ Founded(h.slug, p)
          /\ g.seed \in Seeds
          /\ h.pc \in SeedWaits => h.who = p /\ h.seed = g.seed
          /\ (h.pc = "answered" /\ h.status = "ok") => seed[h.slug] = [seed |-> g.seed, by |-> p]

FormsInv ==
    /\ form \in [Forms -> FormState]
    /\ \A f \in Forms :
          PageSays(Visitor[f], form[f]) /\ PageWaits(Visitor[f], form[f], request[f])

\* The inductive invariant of pages and gateway.
Inv == ProvInv /\ FormsInv

(***************************************************************************)
(* What a page waits for while the gateway works                           *)
(***************************************************************************)

\* How a step of the gateway may take a request on.
CreateGoesOn(h, k) ==
    /\ h.pc \in CreateWaits
    /\ k.slug = h.slug
    /\ \/ k.pc \in CreateWaits /\ k.who = h.who
       \/ /\ k.pc = "answered"
          /\ k.status = "ok" => directory'[h.slug] # None /\ directory'[h.slug].by = h.who
          /\ k.status = "conflict" => directory'[h.slug] # None

SeedGoesOn(h, k) ==
    /\ h.pc \in SeedWaits
    /\ k.slug = h.slug
    /\ \/ k.pc \in SeedWaits /\ k.who = h.who /\ k.seed = h.seed
       \/ /\ k.pc = "answered"
          /\ k.status = "ok" => seed'[h.slug] = [seed |-> h.seed, by |-> h.who]

Progress(h, k) == k = h \/ CreateGoesOn(h, k) \/ SeedGoesOn(h, k)

\* An answer that is neither "ok" nor "conflict" is progress.
LEMMA RefusalIsProgress ==
    ASSUME NEW h \in RequestState, h.pc \in CreateWaits \cup SeedWaits,
           NEW status \in {"refused", "error"}
    PROVE  Progress(h, Answer(h, status))
<1>1. /\ Answer(h, status).pc = "answered" /\ Answer(h, status).slug = h.slug
      /\ Answer(h, status).status = status
  BY AnswersAreQuiet DEF Statuses
<1> QED
  BY <1>1 DEF Progress, CreateGoesOn, SeedGoesOn

\* The next await of the same handler is progress.
LEMMA AwaitIsProgress ==
    ASSUME NEW r \in Requests, NEW h \in RequestState, h = request[r], ProvInv,
           NEW pc \in CreateWaits \cup SeedWaits,
           (h.pc \in CreateWaits /\ pc \in CreateWaits) \/ (h.pc \in SeedWaits /\ pc \in SeedWaits)
    PROVE  Progress(h, [h EXCEPT !.pc = pc])
  BY GoesOn DEF Progress, CreateGoesOn, SeedGoesOn

\* One handler's own step.
LEMMA OwnProgress ==
    ASSUME NEW r \in Requests, NEW h \in RequestState, h = request[r], ProvInv,
           RequestStep(r) \/ Fail(r) \/ FailUnacknowledged(r)
    PROVE  Progress(h, request'[r])
<1>1. /\ \A status : Answers(r, status) => request'[r] = Answer(h, status)
      /\ \A pc : Goes(r, pc) => request'[r] = [h EXCEPT !.pc = pc]
  BY DEF Answers, Goes, Holds, ProvInv, ProvTypeOK
<1>2. RequestTrue(h)
  BY DEF ProvInv
<1>3. \A status \in Statuses :
          /\ Answer(h, status).pc = "answered" /\ Answer(h, status).slug = h.slug
          /\ Answer(h, status).status = status
  BY AnswersAreQuiet
<1>4. CASE LookUpSlug(r)
  <2>1. CASE directory[h.slug] = None
    <3>1. h.pc = "directory" /\ request'[r] = [h EXCEPT !.pc = "schema"]
      BY <1>1, <1>4, <2>1 DEF LookUpSlug, At
    <3> QED BY <3>1, AwaitIsProgress DEF CreateWaits
  <2>2. CASE directory[h.slug] # None
    <3>1. h.pc = "directory" /\ request'[r] = Answer(h, "conflict") /\ directory' = directory
      BY <1>1, <1>4, <2>2 DEF LookUpSlug, At, tables
    <3> QED BY <1>3, <2>2, <3>1 DEF Progress, CreateGoesOn, CreateWaits, Statuses
  <2> QED BY <2>1, <2>2
<1>5. CASE ApplySchema(r)
  <2>1. h.pc = "schema" /\ request'[r] = [h EXCEPT !.pc = "settings"]
    BY <1>1, <1>5 DEF ApplySchema, At
  <2> QED BY <2>1, AwaitIsProgress DEF CreateWaits
<1>6. CASE CreateSettings(r)
  <2>1. h.pc = "settings" /\ request'[r] = [h EXCEPT !.pc = "register"]
    BY <1>1, <1>6 DEF CreateSettings, At
  <2> QED BY <2>1, AwaitIsProgress DEF CreateWaits
<1>7. CASE Register(r)
  <2>1. h.pc = "register" /\ Enters(h) /\ request'[r] = Answer(h, "ok")
    BY <1>1, <1>7 DEF Register, At
  <2>2. directory'[h.slug] # None /\ directory'[h.slug].by = h.who
    BY <1>2, <2>1, EntersRows
  <2> QED BY <1>3, <2>1, <2>2 DEF Progress, CreateGoesOn, CreateWaits, Statuses
<1>8. CASE CheckOwner(r)
  <2>1. h.pc = "role" /\ (request'[r] = [h EXCEPT !.pc = "look"] \/ request'[r] = Answer(h, "refused"))
    BY <1>1, <1>8 DEF CheckOwner, At
  <2> QED BY <2>1, AwaitIsProgress, RefusalIsProgress DEF SeedWaits
<1>9. CASE LookForSeed(r)
  <2>1. h.pc = "look" /\ (request'[r] = [h EXCEPT !.pc = "record"] \/ request'[r] = Answer(h, "conflict"))
    BY <1>1, <1>9 DEF LookForSeed, At
  <2>2. CASE request'[r] = [h EXCEPT !.pc = "record"]
    BY <2>1, <2>2, AwaitIsProgress DEF SeedWaits
  <2>3. CASE request'[r] = Answer(h, "conflict")
    BY <1>3, <2>1, <2>3 DEF Progress, SeedGoesOn, SeedWaits, Statuses
  <2> QED BY <2>1, <2>2, <2>3
<1>10. CASE RecordSeed(r)
  <2>1. h.pc = "record" /\ RecordsSeed(h) /\ request'[r] = Answer(h, "ok")
    BY <1>1, <1>10 DEF RecordSeed, At
  <2>2. seed'[h.slug] = [seed |-> h.seed, by |-> h.who]
    BY <1>2, <2>1, SeedRows
  <2> QED BY <1>3, <2>1, <2>2 DEF Progress, SeedGoesOn, SeedWaits, Statuses
<1>11. CASE SeedRefused(r)
  <2>1. h.pc = "record" /\ (request'[r] = Answer(h, "conflict") \/ request'[r] = Answer(h, "error"))
    BY <1>1, <1>11 DEF SeedRefused, At
  <2> QED BY <1>3, <2>1 DEF Progress, SeedGoesOn, SeedWaits, Statuses
<1>12. CASE SettingsExist(r) \/ Fail(r) \/ FailUnacknowledged(r)
  <2>1. h.pc \in CreateWaits \cup SeedWaits /\ request'[r] = Answer(h, "error")
    BY <1>1, <1>12 DEF SettingsExist, Fail, FailUnacknowledged, Waiting, At, CreateWaits, SeedWaits
  <2> QED BY <2>1, RefusalIsProgress
<1> QED
  BY <1>4, <1>5, <1>6, <1>7, <1>8, <1>9, <1>10, <1>11, <1>12 DEF RequestStep

LEMMA ServerProgress ==
    ASSUME NEW r \in Requests, NEW h \in RequestState, h = request[r], ProvInv, ServerStep
    PROVE  Progress(h, request'[r])
<1>1. CASE request' = request
  BY <1>1 DEF Progress
<1>2. CASE Stop
  <2>1. request'[r] = IF h.pc \in CreateWaits \cup SeedWaits THEN Answer(h, "error") ELSE h
    BY <1>2 DEF Stop, Waiting
  <2> QED BY <2>1, RefusalIsProgress DEF Progress
<1>3. ASSUME NEW q \in Requests, RequestStep(q) \/ Fail(q) \/ FailUnacknowledged(q)
      PROVE  Progress(h, request'[r])
  <2>1. CASE q = r
    BY <1>3, <2>1, OwnProgress
  <2>2. CASE q # r
    <3>1. \E held : Holds(q, held)
      BY <1>3 DEF RequestStep, LookUpSlug, ApplySchema, CreateSettings, SettingsExist, Register,
         CheckOwner, LookForSeed, RecordSeed, SeedRefused, Fail, FailUnacknowledged, Answers, Goes
    <3>2. request'[r] = h
      BY <2>2, <3>1 DEF Holds, ProvInv, ProvTypeOK
    <3> QED BY <3>2 DEF Progress
  <2> QED BY <2>1, <2>2
<1>4. CASE StartStep
  BY <1>1, <1>4 DEF StartStep, Start, ApplyControlSchema, ListVentures, Migrate, MigrationDone, Listen
<1>5. ASSUME NEW p \in People, NEW slug \in Slugs, NEW role \in Roles, Join(p, slug, role)
      PROVE  request' = request
  BY <1>5 DEF Join
<1>6. ASSUME NEW p \in People, NEW slug \in Slugs, NEW name \in Names, Rename(p, slug, name)
      PROVE  request' = request
  BY <1>6 DEF Rename
<1> QED
  BY <1>1, <1>2, <1>3, <1>4, <1>5, <1>6 DEF ServerStep

\* Whatever the gateway does, pages may go on saying what they say ...
LEMMA SaysOn ==
    ASSUME NEW p \in People, NEW g \in FormState, PageSays(p, g), Grows
    PROVE  PageSays(p, g)'
<1>1. \A v \in Slugs : (Listed(v) => Listed(v)') /\ (Founded(v, p) => Founded(v, p)')
  BY DEF Grows, Listed, Founded
<1>2. \A v : (Listed(v) => v \in Slugs) /\ (Founded(v, p) => v \in Slugs)
  BY DEF Listed, Founded
<1>3. ASSUME g.flash # None, g.flash.seed # None
      PROVE  seed'[g.flash.slug] = [seed |-> g.flash.seed, by |-> p]
  <2>1. g.flash.slug \in Slugs /\ g.flash.seed \in Seeds
    BY <1>3 DEF FormState, Flashes
  <2>2. [seed |-> g.flash.seed, by |-> p] # None
    BY <2>1, ProvisioningAssumption
  <2>3. seed[g.flash.slug] = [seed |-> g.flash.seed, by |-> p]
    BY <1>3 DEF PageSays
  <2> QED BY <2>1, <2>2, <2>3 DEF Grows
<1> QED
  BY <1>1, <1>2, <1>3 DEF PageSays

\* ... and waiting as they wait.
LEMMA WaitsOn ==
    ASSUME NEW p \in People, NEW g \in FormState, NEW h \in RequestState, NEW k,
           PageWaits(p, g, h), RequestTrue(h), Progress(h, k), Grows
    PROVE  PageWaits(p, g, k)'
<1>1. \A v \in Slugs : (Listed(v) => Listed(v)') /\ (Founded(v, p) => Founded(v, p)')
  BY DEF Grows, Listed, Founded
<1>2. \A v : (Listed(v) => v \in Slugs) /\ (Founded(v, p) => v \in Slugs)
  BY DEF Listed, Founded
<1>3. CASE g.pc = "edit"
  <2>1. h.pc = "none"
    BY <1>3 DEF PageWaits, Quiet
  <2>2. k = h
    BY <2>1 DEF Progress, CreateGoesOn, SeedGoesOn, CreateWaits, SeedWaits
  <2> QED BY <1>3, <2>2 DEF PageWaits
<1>4. CASE g.pc = "creating"
  <2>1. CASE k = h
    BY <1>1, <1>2, <1>4, <2>1 DEF PageWaits
  <2>2. CASE CreateGoesOn(h, k)
    <3>1. h.slug \in Slugs /\ h.who = p
      BY <1>4, <2>2 DEF CreateGoesOn, RequestTrue, PageWaits
    <3> QED BY <1>4, <2>2, <3>1 DEF CreateGoesOn, PageWaits, Listed, Founded, CreateWaits
  <2>3. h.pc \notin SeedWaits
    BY <1>4 DEF PageWaits, CreateWaits, SeedWaits
  <2> QED BY <2>1, <2>2, <2>3 DEF Progress, SeedGoesOn
<1>5. CASE g.pc = "seeding"
  <2>1. CASE k = h
    <3>1. ASSUME h.pc = "answered", h.status = "ok"
          PROVE  seed'[h.slug] = [seed |-> g.seed, by |-> p]
      <4>1. h.slug \in Slugs /\ seed[h.slug] = [seed |-> g.seed, by |-> p] /\ g.seed \in Seeds
        BY <1>2, <1>5, <3>1 DEF PageWaits
      <4>2. [seed |-> g.seed, by |-> p] # None
        BY <4>1, ProvisioningAssumption
      <4> QED BY <4>1, <4>2 DEF Grows
    <3> QED BY <1>1, <1>2, <1>5, <2>1, <3>1 DEF PageWaits
  <2>2. CASE SeedGoesOn(h, k)
    BY <1>1, <1>2, <1>5, <2>2 DEF SeedGoesOn, PageWaits, SeedWaits
  <2>3. h.pc \notin CreateWaits
    BY <1>5 DEF PageWaits, CreateWaits, SeedWaits
  <2> QED BY <2>1, <2>2, <2>3 DEF Progress, CreateGoesOn
<1> QED
  BY <1>3, <1>4, <1>5 DEF FormState

LEMMA ServerKeepsPages ==
    ASSUME Inv, ServerStep, UNCHANGED form
    PROVE  Inv'
<1>1. ProvInv'
  BY ServerStepOK DEF Inv
<1>2. ASSUME NEW f \in Forms
      PROVE  PageSays(Visitor[f], form[f])' /\ PageWaits(Visitor[f], form[f], request[f])'
  <2>1. f \in Requests /\ Visitor[f] \in People
    BY CreateVentureAssumption
  <2>2. PICK g \in FormState : g = form[f]
    BY DEF Inv, FormsInv
  <2>3. PICK h \in RequestState : h = request[f]
    BY <2>1 DEF Inv, ProvInv, ProvTypeOK
  <2>4. PICK p \in People : p = Visitor[f]
    BY <2>1
  <2>5. PICK k : k = request'[f]
    OBVIOUS
  <2>6. PageSays(p, g) /\ PageWaits(p, g, h) /\ RequestTrue(h)
    BY <2>1, <2>2, <2>3, <2>4 DEF Inv, FormsInv, ProvInv
  <2>7. Progress(h, k) /\ Grows
    BY <2>1, <2>3, <2>5, ServerProgress, ServerGrows DEF Inv
  <2>8. PageSays(p, g)' /\ PageWaits(p, g, k)'
    BY <2>6, <2>7, SaysOn, WaitsOn
  <2> QED
    BY <2>2, <2>4, <2>5, <2>8 DEF PageSays, PageWaits, Listed, Founded
<1> QED
  BY <1>1, <1>2 DEF Inv, FormsInv

(***************************************************************************)
(* What a page does                                                        *)
(***************************************************************************)

\* A page changes, and with it at most its own request.
LEMMA PageMoves ==
    ASSUME NEW f \in Forms, NEW g \in FormState, NEW h \in RequestState, Inv,
           Shows(f, g), Holds(f, h), UNCHANGED <<tables, process>>,
           RequestTrue(h), h.pc # "register",
           PageSays(Visitor[f], g), PageWaits(Visitor[f], g, h)
    PROVE  Inv'
<1>1. f \in Requests
  BY CreateVentureAssumption
<1>2. ProvInv'
  BY <1>1, RequestMoves DEF Inv
<1>3. /\ form' \in [Forms -> FormState] /\ form'[f] = g
      /\ \A e \in Forms : e # f => form'[e] = form[e]
  BY DEF Inv, FormsInv, Shows
<1>4. /\ request'[f] = h
      /\ \A e \in Forms : e # f => request'[e] = request[e]
  BY <1>1, CreateVentureAssumption DEF Inv, ProvInv, ProvTypeOK, Holds
<1>5. ASSUME NEW e \in Forms
      PROVE  PageSays(Visitor[e], form[e])' /\ PageWaits(Visitor[e], form[e], request[e])'
  <2>1. directory' = directory /\ seed' = seed
    BY DEF tables
  <2>2. CASE e = f
    BY <1>3, <1>4, <2>1, <2>2 DEF PageSays, PageWaits, Listed, Founded
  <2>3. CASE e # f
    <3>1. PageSays(Visitor[e], form[e]) /\ PageWaits(Visitor[e], form[e], request[e])
      BY DEF Inv, FormsInv
    <3> QED
      BY <1>3, <1>4, <2>1, <2>3, <3>1 DEF PageSays, PageWaits, Listed, Founded
  <2> QED BY <2>2, <2>3
<1> QED
  BY <1>2, <1>3, <1>5 DEF Inv, FormsInv

\* The request stays as it is: a field is typed, or refused.
LEMMA FieldsMove ==
    ASSUME NEW f \in Forms, NEW g \in FormState, Inv, Shows(f, g), UNCHANGED provVars,
           PageSays(Visitor[f], g), PageWaits(Visitor[f], g, request[f])
    PROVE  Inv'
<1>1. ProvInv'
  BY DEF Inv, ProvInv, ProvTypeOK, ListedMeansComplete, ProcessTrue, Alone, RequestTrue, provVars,
     tables, process
<1>2. /\ form' \in [Forms -> FormState] /\ form'[f] = g
      /\ \A e \in Forms : e # f => form'[e] = form[e]
  BY DEF Inv, FormsInv, Shows
<1>3. directory' = directory /\ seed' = seed /\ request' = request
  BY DEF provVars, tables
<1>4. ASSUME NEW e \in Forms
      PROVE  PageSays(Visitor[e], form[e])' /\ PageWaits(Visitor[e], form[e], request[e])'
  <2>1. CASE e = f
    BY <1>2, <1>3, <2>1 DEF PageSays, PageWaits, Listed, Founded
  <2>2. CASE e # f
    <3>1. PageSays(Visitor[e], form[e]) /\ PageWaits(Visitor[e], form[e], request[e])
      BY DEF Inv, FormsInv
    <3> QED
      BY <1>2, <1>3, <2>2, <3>1 DEF PageSays, PageWaits, Listed, Founded
  <2> QED BY <2>1, <2>2
<1> QED
  BY <1>1, <1>2, <1>4 DEF Inv, FormsInv

\* What is known of a page and its request before it acts.
LEMMA PageKnown ==
    ASSUME NEW f \in Forms, Inv
    PROVE  \E g \in FormState, h \in RequestState, p \in People :
              /\ g = form[f] /\ h = request[f] /\ p = Visitor[f]
              /\ PageSays(p, g) /\ PageWaits(p, g, h) /\ RequestTrue(h)
              /\ f \in Requests
<1>1. f \in Requests /\ Visitor[f] \in People
  BY CreateVentureAssumption
<1> QED
  BY <1>1 DEF Inv, FormsInv, ProvInv, ProvTypeOK

LEMMA TypeNameOK ==
    ASSUME NEW f \in Forms, NEW name \in Named[f], Inv, TypeName(f, name)
    PROVE  Inv'
<1>1. PICK g \in FormState, h \in RequestState, p \in People :
          /\ g = form[f] /\ h = request[f] /\ p = Visitor[f]
          /\ PageSays(p, g) /\ PageWaits(p, g, h) /\ f \in Requests
  BY PageKnown
<1>2. name \in Names /\ Slugify(name) \in Typed \cup {<<>>}
  BY <1>1, CreateVentureAssumption
<1> DEFINE shown == [g EXCEPT !.name = name, !.error = None,
                              !.slug = IF g.touched THEN @ ELSE Slugify(name)]
<1>3. Shows(f, shown) /\ UNCHANGED provVars
  BY <1>1 DEF TypeName
<1>4. shown \in FormState
  BY <1>2 DEF FormState
<1>5. /\ shown.pc = g.pc /\ shown.seed = g.seed /\ shown.flash = g.flash /\ shown.error = None
  BY DEF FormState
<1> HIDE DEF shown
<1>6. PageSays(p, shown) /\ PageWaits(p, shown, h)
  BY <1>1, <1>5 DEF PageSays, PageWaits
<1> QED
  BY <1>1, <1>3, <1>4, <1>6, FieldsMove

LEMMA TypeSlugOK ==
    ASSUME NEW f \in Forms, NEW slug \in Typed, Inv, TypeSlug(f, slug)
    PROVE  Inv'
<1>1. PICK g \in FormState, h \in RequestState, p \in People :
          /\ g = form[f] /\ h = request[f] /\ p = Visitor[f]
          /\ PageSays(p, g) /\ PageWaits(p, g, h)
  BY PageKnown
<1> DEFINE shown == [g EXCEPT !.slug = slug, !.touched = TRUE, !.error = None]
<1>2. Shows(f, shown) /\ UNCHANGED provVars
  BY <1>1 DEF TypeSlug
<1>3. shown \in FormState
  BY DEF FormState
<1>4. /\ shown.pc = g.pc /\ shown.seed = g.seed /\ shown.flash = g.flash /\ shown.error = None
  BY DEF FormState
<1> HIDE DEF shown
<1>5. PageSays(p, shown) /\ PageWaits(p, shown, h)
  BY <1>1, <1>4 DEF PageSays, PageWaits
<1> QED
  BY <1>1, <1>2, <1>3, <1>5, FieldsMove

\* An error is shown, and the fields stay.
Complaining(g, e) == [g EXCEPT !.pc = "edit", !.error = e]

LEMMA Complaint ==
    ASSUME NEW g \in FormState, NEW e \in Errors
    PROVE  /\ Complaining(g, e) \in FormState
           /\ Complaining(g, e).pc = "edit"
           /\ Complaining(g, e).flash = g.flash
           /\ Complaining(g, e).error = e
  BY DEF Complaining, FormState

LEMMA SubmitRefusedOK ==
    ASSUME NEW f \in Forms, NEW money, NEW seedTyped, Inv, SubmitRefused(f, money, seedTyped)
    PROVE  Inv'
<1>1. PICK g \in FormState, h \in RequestState, p \in People :
          /\ g = form[f] /\ h = request[f] /\ p = Visitor[f]
          /\ PageSays(p, g) /\ PageWaits(p, g, h)
  BY PageKnown
<1>2. PICK e \in Errors : e = [kind |-> "field", slug |-> None] /\ e.kind = "field"
  <2>1. [kind |-> "field", slug |-> None] \in Errors
    BY DEF Errors
  <2> QED BY <2>1
<1> DEFINE shown == Complaining(g, e)
<1>3. Shows(f, shown) /\ UNCHANGED provVars /\ g.pc = "edit"
  BY <1>1, <1>2 DEF SubmitRefused, Complains, Complaining
<1>4. /\ shown \in FormState /\ shown.pc = "edit" /\ shown.flash = g.flash
      /\ shown.error.kind = "field"
  BY <1>2, Complaint
<1> HIDE DEF shown
<1>5. PageSays(p, shown)
  BY <1>1, <1>4 DEF PageSays
<1>6. PageWaits(p, shown, h)
  BY <1>1, <1>3, <1>4 DEF PageWaits
<1> QED
  BY <1>1, <1>3, <1>4, <1>5, <1>6, FieldsMove

(***************************************************************************)
(* Requests, and their answers                                             *)
(***************************************************************************)

\* A request for a venture, or its refusal on the spot.
LEMMA AskedToCreate ==
    ASSUME NEW p \in People, NEW slug \in Typed, NEW name \in Names
    PROVE  LET asked == [Quiet EXCEPT !.who = p, !.slug = slug, !.name = name]
               held == IF slug \in Slugs THEN [asked EXCEPT !.pc = "directory"]
                       ELSE Answer(asked, "refused")
           IN  /\ held \in RequestState /\ RequestTrue(held)
               /\ \/ held.pc = "directory" /\ held.who = p
                  \/ held.pc = "answered" /\ held.status = "refused"
<1> DEFINE asked == [Quiet EXCEPT !.who = p, !.slug = slug, !.name = name]
           sent == [asked EXCEPT !.pc = "directory"]
<1>1. asked \in RequestState
  BY DEF Quiet, RequestState
<1>2. /\ sent \in RequestState /\ sent.pc = "directory" /\ sent.who = p
      /\ sent.slug = slug /\ sent.name = name
  BY DEF Quiet, RequestState, CreateWaits
<1>3. slug \in Slugs => RequestTrue(sent)
  BY <1>2 DEF RequestTrue, CreateWaits, SeedWaits
<1>4. /\ Answer(asked, "refused") \in RequestState /\ RequestTrue(Answer(asked, "refused"))
      /\ Answer(asked, "refused").pc = "answered" /\ Answer(asked, "refused").status = "refused"
  BY <1>1, AnswersAreQuiet DEF Statuses
<1> HIDE DEF asked, sent
<1>5. /\ (IF slug \in Slugs THEN sent ELSE Answer(asked, "refused")) \in RequestState
      /\ RequestTrue(IF slug \in Slugs THEN sent ELSE Answer(asked, "refused"))
  BY <1>2, <1>3, <1>4
<1> QED
  BY <1>2, <1>4, <1>5 DEF asked, sent

\* A request for a carry-forward.
SeedRequest(p, slug, s) == [Quiet EXCEPT !.pc = "role", !.who = p, !.slug = slug, !.seed = s]

LEMMA AskedToSeed ==
    ASSUME NEW p \in People, NEW slug \in Slugs, NEW s \in Seeds
    PROVE  /\ SeedRequest(p, slug, s) \in RequestState /\ RequestTrue(SeedRequest(p, slug, s))
           /\ SeedRequest(p, slug, s).pc = "role" /\ SeedRequest(p, slug, s).who = p
           /\ SeedRequest(p, slug, s).slug = slug /\ SeedRequest(p, slug, s).seed = s
<1> DEFINE held == SeedRequest(p, slug, s)
<1>1. /\ held \in RequestState /\ held.pc = "role" /\ held.who = p
      /\ held.slug = slug /\ held.seed = s
  BY ProvisioningAssumption DEF SeedRequest, Quiet, RequestState, SeedWaits
<1>2. RequestTrue(held)
  BY <1>1 DEF RequestTrue, CreateWaits, SeedWaits
<1> QED
  BY <1>1, <1>2

LEMMA QuietIsTrue == Quiet \in RequestState /\ RequestTrue(Quiet) /\ Quiet.pc = "none"
  BY DEF Quiet, RequestState, RequestTrue, CreateWaits, SeedWaits

LEMMA SubmitOK ==
    ASSUME NEW f \in Forms, NEW money, NEW seedTyped, Inv, Submit(f, money, seedTyped)
    PROVE  Inv'
<1>1. PICK g \in FormState, h \in RequestState, p \in People :
          /\ g = form[f] /\ h = request[f] /\ p = Visitor[f]
          /\ PageSays(p, g) /\ PageWaits(p, g, h)
  BY PageKnown
<1> DEFINE shown == [g EXCEPT !.pc = "creating", !.seed = seedTyped, !.flash = None, !.error = None]
           slug == Trimmed(g.slug)
           name == Trimmed(g.name)
           asked == [Quiet EXCEPT !.who = p, !.slug = slug, !.name = name]
           held == IF slug \in Slugs THEN [asked EXCEPT !.pc = "directory"]
                   ELSE Answer(asked, "refused")
<1>2. Shows(f, shown) /\ Holds(f, held) /\ UNCHANGED <<tables, process>>
  BY <1>1 DEF Submit, AskToCreate
<1>3. slug \in Typed /\ name \in Names
  BY <1>1, CreateVentureAssumption DEF Submit, FormState
<1>4. seedTyped \in Seeds \cup {None}
  BY DEF Submit
<1>5. /\ shown \in FormState /\ shown.pc = "creating" /\ shown.flash = None /\ shown.error = None
  BY <1>4 DEF FormState
<1> HIDE DEF slug, name, shown
<1>6. /\ held \in RequestState /\ RequestTrue(held)
      /\ \/ held.pc = "directory" /\ held.who = p
         \/ held.pc = "answered" /\ held.status = "refused"
  BY <1>3, AskedToCreate
<1> HIDE DEF asked, held
<1>7. PageSays(p, shown) /\ PageWaits(p, shown, held)
  BY <1>5, <1>6 DEF PageSays, PageWaits, CreateWaits
<1> QED
  BY <1>1, <1>2, <1>5, <1>6, <1>7, PageMoves

\* The page tells of a venture that is its visitor's.
LEMMA TellsOK ==
    ASSUME NEW f \in Forms, NEW p \in People, p = Visitor[f], NEW slug \in Slugs,
           NEW s \in Seeds \cup {None}, Inv, Tells(f, slug, s), TakesAnswer(f), Founded(slug, p),
           s # None => seed[slug] = [seed |-> s, by |-> p]
    PROVE  Inv'
<1> DEFINE shown == [Blank EXCEPT !.flash = [slug |-> slug, seed |-> s]]
<1>1. /\ shown \in FormState /\ shown.pc = "edit" /\ shown.error = None
      /\ shown.flash = [slug |-> slug, seed |-> s]
  BY DEF Blank, FormState, Flashes
<1>2. Shows(f, shown) /\ Holds(f, Quiet) /\ UNCHANGED <<tables, process>>
  BY DEF Tells, TakesAnswer, Holds
<1> HIDE DEF shown
<1>3. shown.flash.slug = slug /\ shown.flash.seed = s
  BY <1>1
<1>4. PageSays(p, shown)
  BY <1>1, <1>3 DEF PageSays
<1>5. PageWaits(p, shown, Quiet)
  BY <1>1 DEF PageWaits
<1> QED
  BY <1>1, <1>2, <1>4, <1>5, QuietIsTrue, PageMoves

LEMMA CreatedOK ==
    ASSUME NEW f \in Forms, Inv, Created(f)
    PROVE  Inv'
<1>1. PICK g \in FormState, h \in RequestState, p \in People :
          /\ g = form[f] /\ h = request[f] /\ p = Visitor[f]
          /\ PageSays(p, g) /\ PageWaits(p, g, h)
  BY PageKnown
<1>2. /\ g.pc = "creating" /\ h.pc = "answered" /\ h.status = "ok"
      /\ Tells(f, h.slug, None) /\ TakesAnswer(f)
  BY <1>1 DEF Created, Answered
<1>3. Founded(h.slug, p) /\ h.slug \in Slugs
  BY <1>1, <1>2 DEF PageWaits, Founded, Listed
<1> QED
  BY <1>1, <1>2, <1>3, TellsOK

LEMMA SeededOK ==
    ASSUME NEW f \in Forms, Inv, Seeded(f)
    PROVE  Inv'
<1>1. PICK g \in FormState, h \in RequestState, p \in People :
          /\ g = form[f] /\ h = request[f] /\ p = Visitor[f]
          /\ PageSays(p, g) /\ PageWaits(p, g, h)
  BY PageKnown
<1>2. /\ g.pc = "seeding" /\ h.pc = "answered" /\ h.status = "ok"
      /\ Tells(f, h.slug, g.seed) /\ TakesAnswer(f)
  BY <1>1 DEF Seeded, Answered
<1>3. /\ Founded(h.slug, p) /\ h.slug \in Slugs /\ g.seed \in Seeds
      /\ seed[h.slug] = [seed |-> g.seed, by |-> p]
  BY <1>1, <1>2 DEF PageWaits, Founded, Listed
<1> QED
  BY <1>1, <1>2, <1>3, TellsOK

LEMMA CreatedThenSeedOK ==
    ASSUME NEW f \in Forms, Inv, CreatedThenSeed(f)
    PROVE  Inv'
<1>1. PICK g \in FormState, h \in RequestState, p \in People :
          /\ g = form[f] /\ h = request[f] /\ p = Visitor[f]
          /\ PageSays(p, g) /\ PageWaits(p, g, h)
  BY PageKnown
<1> DEFINE shown == [g EXCEPT !.pc = "seeding"]
           held == SeedRequest(p, h.slug, g.seed)
<1>2. /\ g.pc = "creating" /\ h.pc = "answered" /\ h.status = "ok" /\ g.seed # None
      /\ Shows(f, shown) /\ Holds(f, held) /\ UNCHANGED <<tables, process>>
  BY <1>1 DEF CreatedThenSeed, Answered, Holds, SeedRequest
<1>3. Founded(h.slug, p) /\ h.slug \in Slugs /\ g.seed \in Seeds
  BY <1>1, <1>2 DEF PageWaits, Founded, Listed, FormState
<1>4. /\ shown \in FormState /\ shown.pc = "seeding" /\ shown.seed = g.seed
      /\ shown.flash = g.flash /\ shown.error = g.error
  BY DEF FormState
<1>5. /\ held \in RequestState /\ RequestTrue(held)
      /\ held.pc = "role" /\ held.who = p /\ held.slug = h.slug /\ held.seed = g.seed
  BY <1>3, AskedToSeed
<1> HIDE DEF shown, held
<1>6. PageSays(p, shown)
  BY <1>1, <1>4 DEF PageSays
<1>7. PageWaits(p, shown, held)
  BY <1>3, <1>4, <1>5 DEF PageWaits, SeedWaits
<1> QED
  BY <1>1, <1>2, <1>4, <1>5, <1>6, <1>7, PageMoves

\* An answer that is an error is shown as one.
LEMMA ComplainsOK ==
    ASSUME NEW f \in Forms, NEW h \in RequestState, h = request[f], Inv,
           NEW kind \in {"conflict", "other", "seed failed"},
           Complains(f, kind, h.slug), TakesAnswer(f),
           kind = "conflict" => Listed(h.slug),
           kind = "seed failed" => Founded(h.slug, Visitor[f])
    PROVE  Inv'
<1>1. PICK g \in FormState, p \in People :
          /\ g = form[f] /\ p = Visitor[f] /\ PageSays(p, g)
  BY PageKnown
<1>2. PICK e \in Errors : e = [kind |-> kind, slug |-> h.slug] /\ e.kind = kind /\ e.slug = h.slug
  <2>1. h.slug \in Typed \cup {None}
    BY DEF RequestState
  <2>2. [kind |-> kind, slug |-> h.slug] \in Errors
    BY <2>1 DEF Errors
  <2> QED BY <2>2
<1> DEFINE shown == Complaining(g, e)
<1>3. Shows(f, shown) /\ Holds(f, Quiet) /\ UNCHANGED <<tables, process>>
  BY <1>1, <1>2 DEF Complains, Complaining, TakesAnswer, Holds
<1>4. /\ shown \in FormState /\ shown.pc = "edit" /\ shown.flash = g.flash
      /\ shown.error.kind = kind /\ shown.error.slug = h.slug
  BY <1>2, Complaint
<1> HIDE DEF shown
<1>5. PageSays(p, shown)
  BY <1>1, <1>4 DEF PageSays
<1>6. PageWaits(p, shown, Quiet)
  BY <1>4 DEF PageWaits
<1> QED
  BY <1>1, <1>3, <1>4, <1>5, <1>6, QuietIsTrue, PageMoves

LEMMA NotCreatedOK ==
    ASSUME NEW f \in Forms, Inv, NotCreated(f)
    PROVE  Inv'
<1>1. PICK g \in FormState, h \in RequestState, p \in People :
          g = form[f] /\ h = request[f] /\ p = Visitor[f] /\ PageWaits(p, g, h)
  BY PageKnown
<1>2. /\ g.pc = "creating" /\ h.pc = "answered" /\ TakesAnswer(f)
      /\ Complains(f, IF h.status = "conflict" THEN "conflict" ELSE "other", h.slug)
  BY <1>1 DEF NotCreated, Answered
<1>3. h.status = "conflict" => Listed(h.slug)
  BY <1>1, <1>2 DEF PageWaits
<1> QED
  BY <1>1, <1>2, <1>3, ComplainsOK

LEMMA NotSeededOK ==
    ASSUME NEW f \in Forms, Inv, NotSeeded(f)
    PROVE  Inv'
<1>1. PICK g \in FormState, h \in RequestState, p \in People :
          g = form[f] /\ h = request[f] /\ p = Visitor[f] /\ PageWaits(p, g, h)
  BY PageKnown
<1>2. g.pc = "seeding" /\ TakesAnswer(f) /\ Complains(f, "seed failed", h.slug)
  BY <1>1 DEF NotSeeded, Answered
<1>3. Founded(h.slug, p)
  BY <1>1, <1>2 DEF PageWaits
<1> QED
  BY <1>1, <1>2, <1>3, ComplainsOK

LEMMA LoseAnswerOK ==
    ASSUME NEW f \in Forms, Inv, LoseAnswer(f)
    PROVE  Inv'
<1>1. PICK g \in FormState, h \in RequestState, p \in People :
          /\ g = form[f] /\ h = request[f] /\ p = Visitor[f] /\ f \in Requests
          /\ PageSays(p, g) /\ PageWaits(p, g, h)
  BY PageKnown
<1> DEFINE held == [h EXCEPT !.status = "error"]
<1>2. held \in RequestState /\ held.pc = h.pc /\ held.slug = h.slug /\ held.status = "error"
  BY DEF RequestState, Statuses
<1>3. /\ g.pc # "edit" /\ h.pc = "answered" /\ request' = [request EXCEPT ![f].status = "error"]
      /\ UNCHANGED <<tables, process, form>>
  BY <1>1 DEF LoseAnswer
<1>4. Holds(f, held)
  BY <1>1, <1>3 DEF Holds
<1>5. Shows(f, g)
  BY <1>1, <1>3 DEF Shows, Inv, FormsInv
<1> HIDE DEF held
<1>6. RequestTrue(held)
  BY <1>2, <1>3 DEF RequestTrue, CreateWaits, SeedWaits
<1>7. PageWaits(p, g, held)
  BY <1>1, <1>2, <1>3 DEF PageWaits, CreateWaits, SeedWaits
<1> QED
  BY <1>1, <1>2, <1>3, <1>4, <1>5, <1>6, <1>7, PageMoves

\* Another client's requests concern no page.
LEMMA OtherClientOK ==
    ASSUME NEW r \in Requests, Inv, OtherClient(r)
    PROVE  Inv'
<1>1. r \notin Forms /\ UNCHANGED form /\ Visitor[r] \in People
  BY CreateVentureAssumption DEF OtherClient
<1>2. \E held \in RequestState :
          /\ Holds(r, held) /\ RequestTrue(held) /\ held.pc # "register"
          /\ UNCHANGED <<tables, process>>
  <2>1. PICK p \in People : p = Visitor[r]
    BY <1>1
  <2>2. CASE \E slug \in Typed, name \in Named[r] : AskToCreate(r, p, slug, name)
    <3>1. PICK slug \in Typed, name \in Names : AskToCreate(r, p, slug, name)
      BY <2>2, CreateVentureAssumption
    <3> DEFINE asked == [Quiet EXCEPT !.who = p, !.slug = slug, !.name = name]
               held == IF slug \in Slugs THEN [asked EXCEPT !.pc = "directory"]
                       ELSE Answer(asked, "refused")
    <3>2. Holds(r, held) /\ UNCHANGED <<tables, process>>
      BY <3>1 DEF AskToCreate
    <3>3. /\ held \in RequestState /\ RequestTrue(held)
          /\ held.pc = "directory" \/ held.pc = "answered"
      BY AskedToCreate
    <3> HIDE DEF asked, held
    <3> QED BY <3>2, <3>3
  <2>3. CASE \E slug \in Slugs, s \in Seeds : AskToSeed(r, p, slug, s)
    <3>1. PICK slug \in Slugs, s \in Seeds : AskToSeed(r, p, slug, s)
      BY <2>3
    <3> DEFINE held == SeedRequest(p, slug, s)
    <3>2. Holds(r, held) /\ UNCHANGED <<tables, process>>
      BY <3>1 DEF AskToSeed, SeedRequest
    <3>3. held \in RequestState /\ RequestTrue(held) /\ held.pc = "role"
      BY AskedToSeed
    <3> HIDE DEF held
    <3> QED BY <3>2, <3>3
  <2> QED BY <2>1, <2>2, <2>3 DEF OtherClient
<1>3. ProvInv'
  BY <1>2, RequestMoves DEF Inv
<1>4. directory' = directory /\ seed' = seed
  BY <1>2 DEF tables
<1>5. ASSUME NEW e \in Forms
      PROVE  PageSays(Visitor[e], form[e])' /\ PageWaits(Visitor[e], form[e], request[e])'
  <2>1. PageSays(Visitor[e], form[e]) /\ PageWaits(Visitor[e], form[e], request[e])
    BY DEF Inv, FormsInv
  <2>2. request'[e] = request[e]
    BY <1>1, <1>2, CreateVentureAssumption DEF Holds, Inv, ProvInv, ProvTypeOK
  <2> QED
    BY <1>1, <1>4, <2>1, <2>2 DEF PageSays, PageWaits, Listed, Founded
<1> QED
  BY <1>1, <1>3, <1>5 DEF Inv, FormsInv

-----------------------------------------------------------------------------
(***************************************************************************)
(* The theorems                                                            *)
(***************************************************************************)
LEMMA InvInitially == Init => Inv
<1> SUFFICES ASSUME Init PROVE Inv
  OBVIOUS
<1>1. ProvInv
  BY ProvInitOK DEF Init
<1>2. /\ Blank \in FormState /\ Blank.pc = "edit"
      /\ Blank.flash = None /\ Blank.error = None
  BY DEF Blank, FormState
<1>3. ASSUME NEW f \in Forms
      PROVE  form[f] = Blank /\ request[f] = Quiet
  BY CreateVentureAssumption DEF Init, ProvInit
<1> QED
  BY <1>1, <1>2, <1>3 DEF Init, Inv, FormsInv, PageSays, PageWaits

LEMMA PageStepOK ==
    ASSUME NEW f \in Forms, Inv, PageStep(f)
    PROVE  Inv'
  BY CreatedOK, CreatedThenSeedOK, NotCreatedOK, SeededOK, NotSeededOK DEF PageStep

LEMMA NextOK ==
    ASSUME Inv, Next
    PROVE  Inv'
  BY TypeNameOK, TypeSlugOK, SubmitOK, SubmitRefusedOK, PageStepOK, LoseAnswerOK, OtherClientOK,
     ServerKeepsPages DEF Next

LEMMA StutterOK ==
    ASSUME Inv, UNCHANGED vars
    PROVE  Inv'
<1>1. ProvInv'
  BY DEF Inv, vars, provVars, tables, process, ProvInv, ProvTypeOK, ListedMeansComplete,
     ProcessTrue, Alone, RequestTrue
<1>2. FormsInv'
  BY DEF Inv, vars, provVars, tables, FormsInv, PageSays, PageWaits, Listed, Founded
<1> QED BY <1>1, <1>2 DEF Inv

LEMMA InvHolds == Spec => []Inv
  BY InvInitially, NextOK, StutterOK, PTL DEF Spec

\* Every variable keeps its type, and a page waits for the request it sent last,
\* or has none out (create_tenant.rs, submit).
THEOREM TypeCorrect == Spec => []TypeOK
<1>1. Inv => TypeOK
  BY DEF Inv, ProvInv, FormsInv, PageWaits, TypeOK
<1> QED BY <1>1, InvHolds, PTL

\* However requests interleave, fail and die, a venture in the directory has its
\* schema, its settings and its owner (Ledger::create_tenant).
THEOREM ListedHolds == Spec => []ListedMeansComplete
<1>1. Inv => ListedMeansComplete
  BY DEF Inv, ProvInv
<1> QED BY <1>1, InvHolds, PTL

\* At most one request for a slug gets past the settings (Ledger::create_tenant).
THEOREM RegistrarIsAlone == Spec => []OneRegistrar
<1>1. Inv => OneRegistrar
  BY DEF Inv, ProvInv, RequestTrue, Alone, OneRegistrar
<1> QED BY <1>1, InvHolds, PTL

\* Whenever the gateway serves, every venture has its release's schema
\* (Ledger::migrate_all_tenants).
THEOREM MigratedHolds == Spec => []ServingMeansMigrated
<1>1. Inv => ServingMeansMigrated
  BY DEF Inv, ProvInv, ProcessTrue, ServingMeansMigrated
<1> QED BY <1>1, InvHolds, PTL

\* What a page says of ventures and seeds is so, and stays so (create_tenant.rs,
\* submit).
THEOREM PagesAreTrue == Spec => []PagesTellTheTruth
<1>1. Inv => PagesTellTheTruth
  BY DEF Inv, FormsInv, PageSays, Founded, Listed, PagesTellTheTruth
<1> QED BY <1>1, InvHolds, PTL

LEMMA RegistryInitially == Init => TheRegistry!RegistryInit
  BY DEF Init, ProvInit, TheRegistry!RegistryInit

\* Pages and other clients send and read; only the gateway writes.
LEMMA RegistryNextStep ==
    ASSUME Inv, [Next]_vars
    PROVE  [TheRegistry!RegistryNext]_(TheRegistry!registryVars)
<1>1. CASE ServerStep
  BY <1>1, RegistryStep DEF Inv
<1>2. CASE UNCHANGED tables
  BY <1>2 DEF tables, TheRegistry!registryVars
<1>3. CASE UNCHANGED vars
  BY <1>2, <1>3 DEF vars, provVars
<1>4. ASSUME NEW f \in Forms,
             \/ \E name \in Named[f] : TypeName(f, name)
             \/ \E slug \in Typed : TypeSlug(f, slug)
             \/ \E money \in SomeDues, seedTyped \in SomeDates \cup {None} :
                   Submit(f, money, seedTyped) \/ SubmitRefused(f, money, seedTyped)
             \/ PageStep(f)
             \/ LoseAnswer(f)
      PROVE  UNCHANGED tables
  BY <1>4 DEF TypeName, TypeSlug, Submit, SubmitRefused, AskToCreate, PageStep, Created,
     CreatedThenSeed, NotCreated, Seeded, NotSeeded, TakesAnswer, LoseAnswer, provVars
<1>5. ASSUME NEW r \in Requests, OtherClient(r)
      PROVE  UNCHANGED tables
  BY <1>5 DEF OtherClient, AskToCreate, AskToSeed
<1> QED
  BY <1>1, <1>2, <1>3, <1>4, <1>5 DEF Next

\* Requests, pages, crashes and migrations add up to what the registry promises:
\* one founder per slug, nobody removed, the carry-forward recorded once.
THEOREM RegistryHolds == Spec => KeepsTheRegistry
<1>1. Inv /\ [Next]_vars => [TheRegistry!RegistryNext]_(TheRegistry!registryVars)
  BY RegistryNextStep
<1> QED
  BY <1>1, RegistryInitially, InvHolds, PTL DEF Spec, KeepsTheRegistry, TheRegistry!RegistrySpec

-----------------------------------------------------------------------------
(***************************************************************************)
(* Least elements, by which what a loop computes is proved for all texts:  *)
(* the first step that goes wrong has one before it that did not.          *)
(***************************************************************************)

LEMMA LeastNumber ==
    ASSUME NEW T \in SUBSET Nat, T # {}
    PROVE  \E n \in T : \A m \in T : n <= m
<1> DEFINE R == OpToRel(<, Nat)
<1>1. \A m, n \in Nat : m < n => <<m, n>> \in R
    BY DEF OpToRel
<1>2. IsWellFoundedOn(R, Nat)
    BY NatLessThanWellFounded
<1> HIDE DEF R
<1>3. PICK n \in T : \A m \in T : ~(<<m, n>> \in R)
    BY <1>2, WFMin
<1>4. ASSUME NEW m \in T  PROVE n <= m
    <2>1. m \in Nat /\ n \in Nat
        OBVIOUS
    <2>2. ~(m < n)
        BY <1>1, <1>3, <2>1
    <2> QED  BY <2>1, <2>2
<1> QED  BY <1>4

-----------------------------------------------------------------------------
(***************************************************************************)
(* Names and slugs                                                         *)
(***************************************************************************)

\* The first k characters of a name, spelt one after the other.
Spelling(out, name, k) ==
    out = [i \in 0..k |-> IF i = 0 THEN <<>> ELSE Spell(out[i - 1], name[i])]

\* The loop over the characters ends, however long the name is.
LEMMA SpellingExists ==
    ASSUME NEW name, NEW n \in Nat
    PROVE  \E out : Spelling(out, name, n)
<1> DEFINE Bad == {k \in Nat : ~\E out : Spelling(out, name, k)}
<1>1. SUFFICES ASSUME Bad # {} PROVE FALSE
    OBVIOUS
<1>2. PICK k \in Bad : \A j \in Bad : k <= j
    <2>1. Bad \in SUBSET Nat
        OBVIOUS
    <2> QED  BY <1>1, <2>1, LeastNumber
<1>3. k \in Nat /\ ~\E out : Spelling(out, name, k)
    BY <1>2
<1>4. k # 0
    <2>1. SUFFICES ASSUME k = 0 PROVE FALSE
        OBVIOUS
    <2> DEFINE out == [i \in 0..0 |-> <<>>]
    <2>2. out = [i \in 0..0 |-> IF i = 0 THEN <<>> ELSE Spell(out[i - 1], name[i])]
        OBVIOUS
    <2> QED  BY <1>3, <2>1, <2>2 DEF Spelling
<1>5. k - 1 \in Nat /\ k - 1 \notin Bad
    BY <1>2, <1>3, <1>4
<1>6. PICK out : Spelling(out, name, k - 1)
    BY <1>5
<1> DEFINE more == [i \in 0..k |-> IF i = k THEN Spell(out[k - 1], name[k]) ELSE out[i]]
<1>7. ASSUME NEW i \in 0..k
      PROVE  more[i] = IF i = 0 THEN <<>> ELSE Spell(more[i - 1], name[i])
    <2>1. CASE i = k
        <3>1. k - 1 \in 0..k /\ k - 1 # k
            BY <1>3, <1>4
        <3> QED  BY <1>4, <2>1, <3>1
    <2>2. CASE i # k
        <3>1. i \in 0..(k - 1) /\ (i # 0 => i - 1 \in 0..k /\ i - 1 # k)
            BY <1>3, <2>2
        <3>2. out[i] = IF i = 0 THEN <<>> ELSE Spell(out[i - 1], name[i])
            BY <1>6, <3>1 DEF Spelling
        <3> QED  BY <2>2, <3>1, <3>2
    <2> QED  BY <2>1, <2>2
<1>8. more = [i \in 0..k |-> more[i]]
    OBVIOUS
<1> HIDE DEF more
<1>9. Spelling(more, name, k)
    BY <1>7, <1>8 DEF Spelling
<1> QED  BY <1>3, <1>9

LEMMA SpeltIs ==
    ASSUME NEW name, Len(name) \in Nat
    PROVE  \E out : Spelling(out, name, Len(name)) /\ Spelt(name) = out[Len(name)]
<1> DEFINE R(f) == f = [i \in 0..Len(name) |-> IF i = 0 THEN <<>> ELSE Spell(f[i - 1], name[i])]
<1>1. \A f : R(f) <=> Spelling(f, name, Len(name))
    BY DEF Spelling
<1>2. Spelt(name) = (CHOOSE f : R(f))[Len(name)]
    BY DEF Spelt
<1> HIDE DEF R
<1>3. \E f : R(f)
    BY <1>1, SpellingExists
<1>4. R(CHOOSE f : R(f))
    BY <1>3
<1> QED  BY <1>1, <1>2, <1>4

\* The characters of slugs.
SlugChars == LowerCase \cup Digits \cup {"_"}

LEMMA SpellIsSlug ==
    ASSUME NEW out \in Seq(SlugChars), NEW c
    PROVE  Spell(out, c) \in Seq(SlugChars)
<1>1. ASSUME NEW d \in SlugChars  PROVE Append(out, d) \in Seq(SlugChars)
    BY AppendProperties
<1>2. c \in UpperCase => Lowered[c] \in SlugChars
    <2>1. Lowered["A"] = "a" /\ Lowered["B"] = "b"
        BY DEF Lowered
    <2>2. c \in UpperCase => c = "A" \/ c = "B"
        BY DEF UpperCase
    <2>3. "a" \in SlugChars /\ "b" \in SlugChars
        BY DEF SlugChars, LowerCase
    <2> QED  BY <2>1, <2>2, <2>3
<1>3. "_" \in SlugChars /\ (c \in LowerCase \cup Digits => c \in SlugChars)
    BY DEF SlugChars
<1> QED  BY <1>1, <1>2, <1>3 DEF Spell

LEMMA SpeltIsSlug ==
    ASSUME NEW name \in Seq(STRING)
    PROVE  Spelt(name) \in Seq(SlugChars)
<1>1. PICK n \in Nat : n = Len(name)
    BY LenProperties
<1>2. PICK out : Spelling(out, name, n) /\ Spelt(name) = out[n]
    BY <1>1, SpeltIs
<1> DEFINE Bad == {i \in 0..n : out[i] \notin Seq(SlugChars)}
<1>3. SUFFICES ASSUME Bad # {} PROVE FALSE
    BY <1>2
<1>4. PICK i \in Bad : \A j \in Bad : i <= j
    <2>1. Bad \in SUBSET Nat
        OBVIOUS
    <2> QED  BY <1>3, <2>1, LeastNumber
<1>5. out[i] = IF i = 0 THEN <<>> ELSE Spell(out[i - 1], name[i])
    BY <1>2, <1>4 DEF Spelling
<1>6. i # 0
    BY <1>4, <1>5, EmptySeq
<1>7. out[i - 1] \in Seq(SlugChars)
    <2>1. i - 1 \in 0..n /\ i - 1 \notin Bad
        BY <1>4, <1>6
    <2> QED  BY <2>1
<1> QED  BY <1>4, <1>5, <1>6, <1>7, SpellIsSlug

\* What Slugify makes of a name is a slug, or too short for one.
LEMMA SlugifyMakesSlugs ==
    ASSUME NEW name \in Seq(STRING)
    PROVE  Len(Slugify(name)) < MinSlug \/ ValidSlug(Slugify(name))
<1>1. PICK spelt \in Seq(SlugChars) : spelt = Spelt(name)
    BY SpeltIsSlug
<1>2. PICK n \in Nat : n = Len(spelt) /\ DOMAIN spelt = 1..n
    BY LenProperties
<1> DEFINE letters == {i \in DOMAIN spelt : spelt[i] \in LowerCase}
           first == CHOOSE i \in letters : \A j \in letters : i <= j
           last == IF Last(spelt) = "_" THEN Len(spelt) - 1 ELSE Len(spelt)
           end == IF last - first < MaxSlug THEN last ELSE first + MaxSlug - 1
<1>3. Slugify(name) = IF letters = {} THEN <<>> ELSE SubSeq(spelt, first, end)
    BY <1>1 DEF Slugify
<1>4. /\ \A i \in letters : i \in 1..n /\ spelt[i] \in LowerCase
      /\ (\E i \in letters : \A j \in letters : i <= j) => first \in letters
    BY <1>2
<1>5. last = n - 1 \/ last = n
    BY <1>2
<1> HIDE DEF letters, first, last
<1>6. end = IF last - first < MaxSlug THEN last ELSE first + MaxSlug - 1
    OBVIOUS
<1> HIDE DEF end
<1>8. CASE letters = {}
    <2>1. Len(<<>>) = 0
        OBVIOUS
    <2> QED  BY <1>3, <1>8, <2>1, FormTextAssumption
<1>9. CASE letters # {}
    <2>1. letters \in SUBSET Nat
        BY <1>2, <1>4
    <2>2. first \in letters
        BY <1>4, <1>9, <2>1, LeastNumber
    <2>3. first \in 1..n /\ spelt[first] \in LowerCase
        BY <1>4, <2>2
    <2>4. last \in Int /\ last <= n
        BY <1>5
    <2>5. end \in Int /\ end <= n /\ end - first + 1 <= MaxSlug
        BY <1>6, <2>3, <2>4, FormTextAssumption
    <2>6. \A i \in first..end : spelt[i] \in SlugChars
        <3>1. \A i \in first..end : i \in 1..n
            BY <2>3, <2>5
        <3> QED  BY <1>2, <3>1, ElementOfSeq
    <2>7. first \in Int
        BY <2>3
    <2>8. PICK s : s = SubSeq(spelt, first, end)
        OBVIOUS
    <2>9. /\ s \in Seq(SlugChars)
          /\ Len(s) = IF first <= end THEN end - first + 1 ELSE 0
          /\ \A i \in 1..(end - first + 1) : s[i] = spelt[first + i - 1]
        BY <2>5, <2>6, <2>7, <2>8, SubSeqProperties
    <2>10. Len(s) < MinSlug \/ Len(s) \in MinSlug..MaxSlug
        BY <2>5, <2>7, <2>9, FormTextAssumption
    <2>11. \A i \in DOMAIN s : s[i] \in LowerCase \cup Digits \cup {"_"}
        BY <2>9, LenProperties, ElementOfSeq DEF SlugChars
    <2>12. Len(s) \in MinSlug..MaxSlug => s[1] \in LowerCase
        <3>1. SUFFICES ASSUME Len(s) \in MinSlug..MaxSlug PROVE s[1] \in LowerCase
            OBVIOUS
        <3>2. 1 \in 1..(end - first + 1) /\ first + 1 - 1 = first
            BY <2>5, <2>7, <2>9, <3>1, FormTextAssumption
        <3> QED  BY <2>3, <2>9, <3>2
    <2>13. s = Slugify(name)
        BY <1>3, <1>9, <2>8
    <2> QED  BY <2>10, <2>11, <2>12, <2>13 DEF ValidSlug
<1> QED  BY <1>8, <1>9

LEMMA NoNameNoSlug == Slugify(<<>>) = <<>>
<1>1. Len(<<>>) = 0
    OBVIOUS
<1>2. PICK out : Spelling(out, <<>>, 0) /\ Spelt(<<>>) = out[0]
    BY <1>1, SpeltIs
<1>3. Spelt(<<>>) = <<>>
    BY <1>2 DEF Spelling
<1>4. {i \in DOMAIN <<>> : <<>>[i] \in LowerCase} = {}
    OBVIOUS
<1> QED  BY <1>3, <1>4 DEF Slugify

-----------------------------------------------------------------------------
(***************************************************************************)
(* Amounts                                                                 *)
(***************************************************************************)

\* The value of the first k digits.
Summing(sum, text, k) ==
    sum = [i \in 0..k |-> IF i = 0 THEN 0 ELSE 10 * sum[i - 1] + ValueOf[text[i]]]

LEMMA SummingExists ==
    ASSUME NEW text, NEW n \in Nat
    PROVE  \E sum : Summing(sum, text, n)
<1> DEFINE Bad == {k \in Nat : ~\E sum : Summing(sum, text, k)}
<1>1. SUFFICES ASSUME Bad # {} PROVE FALSE
    OBVIOUS
<1>2. PICK k \in Bad : \A j \in Bad : k <= j
    <2>1. Bad \in SUBSET Nat
        OBVIOUS
    <2> QED  BY <1>1, <2>1, LeastNumber
<1>3. k \in Nat /\ ~\E sum : Summing(sum, text, k)
    BY <1>2
<1>4. k # 0
    <2>1. SUFFICES ASSUME k = 0 PROVE FALSE
        OBVIOUS
    <2> DEFINE sum == [i \in 0..0 |-> 0]
    <2>2. sum = [i \in 0..0 |-> IF i = 0 THEN 0 ELSE 10 * sum[i - 1] + ValueOf[text[i]]]
        OBVIOUS
    <2> QED  BY <1>3, <2>1, <2>2 DEF Summing
<1>5. k - 1 \in Nat /\ k - 1 \notin Bad
    BY <1>2, <1>3, <1>4
<1>6. PICK sum : Summing(sum, text, k - 1)
    BY <1>5
<1> DEFINE more == [i \in 0..k |-> IF i = k THEN 10 * sum[k - 1] + ValueOf[text[k]] ELSE sum[i]]
<1>7. ASSUME NEW i \in 0..k
      PROVE  more[i] = IF i = 0 THEN 0 ELSE 10 * more[i - 1] + ValueOf[text[i]]
    <2>1. CASE i = k
        <3>1. k - 1 \in 0..k /\ k - 1 # k
            BY <1>3, <1>4
        <3> QED  BY <1>4, <2>1, <3>1
    <2>2. CASE i # k
        <3>1. i \in 0..(k - 1) /\ (i # 0 => i - 1 \in 0..k /\ i - 1 # k)
            BY <1>3, <2>2
        <3>2. sum[i] = IF i = 0 THEN 0 ELSE 10 * sum[i - 1] + ValueOf[text[i]]
            BY <1>6, <3>1 DEF Summing
        <3> QED  BY <2>2, <3>1, <3>2
    <2> QED  BY <2>1, <2>2
<1>8. more = [i \in 0..k |-> more[i]]
    OBVIOUS
<1> HIDE DEF more
<1>9. Summing(more, text, k)
    BY <1>7, <1>8 DEF Summing
<1> QED  BY <1>3, <1>9

LEMMA MagnitudeIs ==
    ASSUME NEW text, Len(text) \in Nat
    PROVE  \E sum : Summing(sum, text, Len(text)) /\ Magnitude(text) = sum[Len(text)]
<1> DEFINE R(f) == f = [i \in 0..Len(text) |-> IF i = 0 THEN 0 ELSE 10 * f[i - 1] + ValueOf[text[i]]]
<1>1. \A f : R(f) <=> Summing(f, text, Len(text))
    BY DEF Summing
<1>2. Magnitude(text) = (CHOOSE f : R(f))[Len(text)]
    BY DEF Magnitude
<1> HIDE DEF R
<1>3. \E f : R(f)
    BY <1>1, SummingExists
<1>4. R(CHOOSE f : R(f))
    BY <1>3
<1> QED  BY <1>1, <1>2, <1>4

LEMMA DigitsHaveValues ==
    /\ \A c \in Digits : ValueOf[c] \in 0..9
    /\ "0" \in Digits /\ ValueOf["0"] = 0
<1> DEFINE V(c, v) == v \in 0..9 /\ InOrder[v + 1] = c
<1>1. ASSUME NEW c \in Digits  PROVE \E v \in 0..9 : InOrder[v + 1] = c
    <2>1. \/ c = "0" \/ c = "1" \/ c = "2" \/ c = "3" \/ c = "4"
          \/ c = "5" \/ c = "6" \/ c = "7" \/ c = "8" \/ c = "9"
        BY DEF Digits
    <2>2. /\ InOrder[0 + 1] = "0" /\ InOrder[1 + 1] = "1" /\ InOrder[2 + 1] = "2"
          /\ InOrder[3 + 1] = "3" /\ InOrder[4 + 1] = "4" /\ InOrder[5 + 1] = "5"
          /\ InOrder[6 + 1] = "6" /\ InOrder[7 + 1] = "7" /\ InOrder[8 + 1] = "8"
          /\ InOrder[9 + 1] = "9"
        BY DEF InOrder
    <2>3. {0, 1, 2, 3, 4, 5, 6, 7, 8, 9} \subseteq 0..9
        OBVIOUS
    <2> QED  BY <2>1, <2>2, <2>3
<1>2. ASSUME NEW c \in Digits  PROVE ValueOf[c] \in 0..9 /\ InOrder[ValueOf[c] + 1] = c
    BY <1>1 DEF ValueOf
<1>3. "0" \in Digits
    BY DEF Digits
<1>4. ASSUME NEW v \in 0..9, InOrder[v + 1] = "0"  PROVE v = 0
    BY <1>4 DEF InOrder
<1> QED  BY <1>2, <1>3, <1>4

\* The value of a text of digits is the value of its last one, and tens.
LEMMA MagnitudeOf ==
    ASSUME NEW text, NEW n \in Nat, n = Len(text), \A i \in 1..n : text[i] \in Digits
    PROVE  /\ Magnitude(text) \in Nat
           /\ n # 0 => \E m \in Nat : Magnitude(text) = 10 * m + ValueOf[text[n]]
           /\ n = 2 => Magnitude(text) = 10 * ValueOf[text[1]] + ValueOf[text[2]]
<1>1. PICK sum : Summing(sum, text, n) /\ Magnitude(text) = sum[n]
    BY MagnitudeIs
<1>2. sum[0] = 0
    BY <1>1 DEF Summing
<1>3. ASSUME NEW i \in 1..n
      PROVE  sum[i] = 10 * sum[i - 1] + ValueOf[text[i]] /\ ValueOf[text[i]] \in 0..9
    <2>1. sum[i] = 10 * sum[i - 1] + ValueOf[text[i]]
        BY <1>1 DEF Summing
    <2> QED  BY <2>1, DigitsHaveValues
<1> DEFINE Bad == {i \in 0..n : sum[i] \notin Nat}
<1>4. Bad = {}
    <2>1. SUFFICES ASSUME Bad # {} PROVE FALSE
        OBVIOUS
    <2>2. PICK i \in Bad : \A j \in Bad : i <= j
        <3>1. Bad \in SUBSET Nat
            OBVIOUS
        <3> QED  BY <2>1, <3>1, LeastNumber
    <2>3. i \in 0..n /\ sum[i] \notin Nat
        OBVIOUS
    <2>4. i # 0
        BY <1>2, <2>3
    <2>5. sum[i - 1] \in Nat
        <3>1. i - 1 \in 0..n /\ i - 1 \notin Bad
            BY <2>2, <2>3, <2>4
        <3> QED  BY <3>1
    <2>6. i \in 1..n
        BY <2>3, <2>4
    <2>7. PICK d \in 0..9 : d = ValueOf[text[i]]
        BY <1>3, <2>6
    <2>8. sum[i] = 10 * sum[i - 1] + d
        BY <1>3, <2>6, <2>7
    <2>9. PICK m \in Nat : m = sum[i - 1]
        BY <2>5
    <2> QED  BY <2>3, <2>8, <2>9
<1>5. \A i \in 0..n : sum[i] \in Nat
    BY <1>4
<1>6. Magnitude(text) \in Nat
    BY <1>1, <1>5
<1>7. ASSUME n # 0  PROVE \E m \in Nat : Magnitude(text) = 10 * m + ValueOf[text[n]]
    <2>1. n \in 1..n /\ n - 1 \in 0..n
        BY <1>7
    <2> QED  BY <1>1, <1>3, <1>5, <2>1
<1>8. ASSUME n = 2  PROVE Magnitude(text) = 10 * ValueOf[text[1]] + ValueOf[text[2]]
    <2>1. 1 \in 1..n /\ 2 \in 1..n /\ 1 - 1 = 0 /\ 2 - 1 = 1
        BY <1>8
    <2>2. sum[1] = 10 * sum[0] + ValueOf[text[1]] /\ ValueOf[text[1]] \in 0..9
        BY <1>3, <2>1
    <2>3. sum[2] = 10 * sum[1] + ValueOf[text[2]]
        BY <1>3, <2>1
    <2>4. sum[1] = ValueOf[text[1]]
        BY <1>2, <2>2
    <2> QED  BY <1>1, <1>8, <2>3, <2>4
<1> QED  BY <1>6, <1>7, <1>8

Unsigned(text) == \A i \in DOMAIN text : text[i] # "+" /\ text[i] # "-"

\* Where a text is cut.
LEMMA CutIs ==
    ASSUME NEW text \in Seq(STRING)
    PROVE  /\ Cut(text) \in 1..(Len(text) + 1)
           /\ Cut(text) \in 1..Len(text) => text[Cut(text)] = "."
<1>1. PICK n \in Nat : n = Len(text) /\ DOMAIN text = 1..n
    BY LenProperties
<1>2. CASE Points(text) = {}
    BY <1>1, <1>2 DEF Cut
<1>3. CASE Points(text) # {}
    <2>1. Points(text) \in SUBSET Nat
        BY <1>1 DEF Points
    <2>2. Cut(text) \in Points(text)
        BY <1>3, <2>1, LeastNumber DEF Cut
    <2>3. \A i \in Points(text) : i \in 1..n /\ text[i] = "."
        BY <1>1 DEF Points
    <2> QED  BY <1>1, <2>2, <2>3
<1> QED  BY <1>2, <1>3

\* What is before the cut,
LEMMA WholeIs ==
    ASSUME NEW text \in Seq(STRING), Unsigned(text)
    PROVE  /\ Whole(text) \in Seq(STRING) /\ Len(Whole(text)) = Cut(text) - 1
           /\ \A i \in 1..(Cut(text) - 1) : Whole(text)[i] = text[i]
           /\ ~Signed(Whole(text))
<1>1. PICK n \in Nat : n = Len(text) /\ DOMAIN text = 1..n
    BY LenProperties
<1>2. PICK p \in 1..(n + 1) : p = Cut(text)
    BY <1>1, CutIs
<1>3. PICK w : w = Whole(text)
    OBVIOUS
<1>4. w = SubSeq(text, 1, p - 1)
    BY <1>2, <1>3 DEF Whole
<1>5. \A i \in 1..(p - 1) : i \in 1..n
    OBVIOUS
<1>6. \A i \in 1..(p - 1) : text[i] \in STRING
    BY <1>1, <1>5, ElementOfSeq
<1>7. 1 \in Int /\ p - 1 \in Int
    OBVIOUS
<1>8. /\ w \in Seq(STRING)
      /\ Len(w) = IF 1 <= p - 1 THEN (p - 1) - 1 + 1 ELSE 0
      /\ \A i \in 1..((p - 1) - 1 + 1) : w[i] = text[1 + i - 1]
    BY <1>4, <1>6, <1>7, SubSeqProperties
<1>9. Len(w) = p - 1
    BY <1>8
<1>10. \A i \in 1..(p - 1) : w[i] = text[i]
    <2>1. \A i \in 1..(p - 1) : i \in 1..((p - 1) - 1 + 1) /\ 1 + i - 1 = i
        OBVIOUS
    <2> QED  BY <1>8, <2>1
<1>11. ~Signed(w)
    <2>1. SUFFICES ASSUME w # <<>> PROVE w[1] \notin {"+", "-"}
        BY DEF Signed
    <2>2. 1 \in 1..(p - 1)
        BY <1>8, <1>9, <2>1, EmptySeq
    <2> QED  BY <1>1, <1>5, <1>10, <2>2 DEF Unsigned
<1> QED  BY <1>2, <1>3, <1>8, <1>9, <1>10, <1>11

\* and the two places after it.
Place(text, i) == IF i \in DOMAIN text THEN text[i] ELSE "0"

LEMMA FractionIs ==
    ASSUME NEW text \in Seq(STRING), Unsigned(text), Len(Fraction(text)) <= 2
    PROVE  /\ PaddedFraction(text) \in Seq(STRING \cup {"0"}) /\ Len(PaddedFraction(text)) = 2
           /\ PaddedFraction(text)[1] = Place(text, Cut(text) + 1)
           /\ PaddedFraction(text)[2] = Place(text, Cut(text) + 2)
           /\ ~Signed(PaddedFraction(text))
<1>1. PICK n \in Nat : n = Len(text) /\ DOMAIN text = 1..n
    BY LenProperties
<1>2. PICK p \in 1..(n + 1) : p = Cut(text)
    BY <1>1, CutIs
<1>3. PICK fr : fr = Fraction(text)
    OBVIOUS
<1>4. fr = SubSeq(text, p + 1, n)
    BY <1>1, <1>2, <1>3 DEF Fraction
<1> DEFINE Chars == STRING \cup {"0"}
<1>5. \A i \in (p + 1)..n : text[i] \in Chars
    <2>1. \A i \in (p + 1)..n : i \in 1..n
        OBVIOUS
    <2> QED  BY <1>1, <2>1, ElementOfSeq
<1>6. p + 1 \in Int /\ n \in Int
    OBVIOUS
<1> HIDE DEF Chars
<1>7. /\ fr \in Seq(Chars)
      /\ Len(fr) = IF p + 1 <= n THEN n - (p + 1) + 1 ELSE 0
      /\ \A i \in 1..(n - (p + 1) + 1) : fr[i] = text[(p + 1) + i - 1]
    BY <1>4, <1>5, <1>6, SubSeqProperties
<1>8. PICK k \in 0..2 : k = Len(fr)
    BY <1>3, <1>7
<1>9. ASSUME NEW i \in 1..2
      PROVE  /\ i <= k => fr[i] = Place(text, p + i)
             /\ i > k => Place(text, p + i) = "0"
    <2>1. i <= k <=> p + i <= n
        BY <1>7, <1>8
    <2>2. p + i <= n <=> p + i \in 1..n
        OBVIOUS
    <2>3. p + i <= n => i \in 1..(n - (p + 1) + 1) /\ (p + 1) + i - 1 = p + i
        OBVIOUS
    <2> QED  BY <1>1, <1>7, <2>1, <2>2, <2>3 DEF Place
<1>10. PICK z : z = [i \in 1..(2 - k) |-> "0"]
    OBVIOUS
<1>11. z \in Seq(Chars) /\ Len(z) = 2 - k /\ \A i \in 1..(2 - k) : z[i] = "0"
    <2>1. 2 - k \in Nat /\ "0" \in Chars
        BY DEF Chars
    <2>2. z \in [1..(2 - k) -> Chars]
        BY <1>10, <2>1
    <2>3. z \in Seq(Chars)
        BY <2>1, <2>2, SeqDef
    <2>4. Len(z) = 2 - k
        BY <1>10, <2>1
    <2> QED  BY <1>10, <2>3, <2>4
<1>12. PICK padded : padded = fr \o z
    OBVIOUS
<1>13. padded = PaddedFraction(text)
    <2>1. (IF Len(fr) < 2 THEN 2 - Len(fr) ELSE 0) = 2 - k
        BY <1>8
    <2> QED  BY <1>3, <1>10, <1>12, <2>1 DEF PaddedFraction
<1>14. /\ padded \in Seq(Chars) /\ Len(padded) = k + (2 - k)
       /\ \A i \in 1..(k + (2 - k)) : padded[i] = IF i <= k THEN fr[i] ELSE z[i - k]
    <2>1. /\ padded \in Seq(Chars) /\ Len(padded) = Len(fr) + Len(z)
          /\ \A i \in 1..(Len(fr) + Len(z)) :
                 padded[i] = IF i <= Len(fr) THEN fr[i] ELSE z[i - Len(fr)]
        BY <1>7, <1>11, <1>12, ConcatProperties
    <2> QED  BY <1>8, <1>11, <2>1
<1>15. ASSUME NEW i \in 1..2  PROVE padded[i] = Place(text, p + i)
    <2>1. i \in 1..(k + (2 - k))
        OBVIOUS
    <2>2. CASE i <= k
        BY <1>9, <1>14, <2>1, <2>2
    <2>3. CASE ~(i <= k)
        <3>1. i - k \in 1..(2 - k) /\ i > k
            BY <2>3
        <3> QED  BY <1>9, <1>11, <1>14, <2>1, <2>3, <3>1
    <2> QED  BY <2>2, <2>3
<1>16. Len(padded) = 2
    BY <1>14
<1>17. padded[1] = Place(text, p + 1) /\ padded[2] = Place(text, p + 2)
    BY <1>15
<1>18. ~Signed(padded)
    BY <1>17 DEF Signed, Place, Unsigned
<1> QED  BY <1>2, <1>13, <1>14, <1>16, <1>17, <1>18 DEF Chars

LEMMA Places ==
    ASSUME NEW w \in Nat, NEW m \in Nat, NEW a \in 0..9, NEW b \in 0..9, NEW d \in 0..9
    PROVE  /\ (100 * w + (10 * a + b)) % 100 = 10 * a + b
           /\ (100 * w + (10 * a + b)) \div 100 = w
           /\ (10 * m + d) % 10 = d
<1>1. PICK r \in 0..99 : r = 10 * a + b
    OBVIOUS
<1>2. (100 * w + r) % 100 = r /\ (100 * w + r) \div 100 = w
    OBVIOUS
<1> QED  BY <1>1, <1>2

\* So much holds of every text, not only of those that TLC samples.
LEMMA AmountsAreTexts == AmountsFromTexts
<1> DEFINE Val(text, i) == IF i \in DOMAIN text /\ i # Cut(text) THEN ValueOf[text[i]] ELSE 0
<1>1. SUFFICES ASSUME NEW text \in SomeMoney, TakesMoney(text),
                      {"+", "-"} \cap {text[i] : i \in DOMAIN text} = {}
               PROVE  /\ Cents(text) % 100 = 10 * Val(text, Cut(text) + 1) + Val(text, Cut(text) + 2)
                      /\ (Cents(text) \div 100) % 10 = Val(text, Cut(text) - 1)
    BY DEF AmountsFromTexts
<1>2. text \in Seq(STRING)
    BY CreateVentureAssumption
<1>3. Unsigned(text)
    BY <1>1 DEF Unsigned
<1>4. PICK n \in Nat : n = Len(text) /\ DOMAIN text = 1..n
    BY <1>2, LenProperties
<1>5. PICK p \in 1..(n + 1) : p = Cut(text)
    BY <1>2, <1>4, CutIs
<1>6. CASE text = <<>>
    <2>1. n = 0
        BY <1>4, <1>6
    <2>2. \A i : Val(text, i) = 0
        BY <1>4, <2>1
    <2>3. Cents(text) = 0
        BY <1>6 DEF Cents
    <2>4. 0 % 100 = 0 /\ (0 \div 100) % 10 = 0
        OBVIOUS
    <2> QED  BY <2>2, <2>3, <2>4
<1>7. CASE text # <<>>
    <2>1. /\ Len(Fraction(text)) <= 2
          /\ Whole(text) = <<>> \/ Reads(Whole(text))
          /\ Reads(PaddedFraction(text))
        BY <1>1, <1>7 DEF TakesMoney
    <2>2. PICK w : w = Whole(text)
        OBVIOUS
    <2>3. /\ w \in Seq(STRING) /\ Len(w) = p - 1 /\ \A i \in 1..(p - 1) : w[i] = text[i]
          /\ ~Signed(w)
        BY <1>2, <1>3, <1>5, <2>2, WholeIs
    <2>4. PICK f : f = PaddedFraction(text)
        OBVIOUS
    <2>5. /\ f \in Seq(STRING \cup {"0"}) /\ Len(f) = 2
          /\ f[1] = Place(text, p + 1) /\ f[2] = Place(text, p + 2) /\ ~Signed(f)
        BY <1>2, <1>3, <1>5, <2>1, <2>4, FractionIs
    <2>6. DOMAIN w = 1..(p - 1) /\ DOMAIN f = 1..2
        BY <2>3, <2>5, LenProperties
    <2>7. \A i \in 1..2 : f[i] \in Digits
        BY <2>1, <2>4, <2>5, <2>6 DEF Reads, Numeral
    <2>8. w # <<>> => \A i \in 1..(p - 1) : w[i] \in Digits
        BY <2>1, <2>2, <2>3, <2>6 DEF Reads, Numeral
    <2>9. ASSUME NEW k \in {1, 2}
          PROVE  Val(text, p + k) = ValueOf[Place(text, p + k)]
        <3>1. p + k # Cut(text)
            BY <1>5
        <3> QED  BY <3>1, DigitsHaveValues DEF Place
    <2>10. PICK a \in 0..9, b \in 0..9 : a = ValueOf[f[1]] /\ b = ValueOf[f[2]]
        <3>1. 1 \in 1..2 /\ 2 \in 1..2
            OBVIOUS
        <3> QED  BY <2>7, <3>1, DigitsHaveValues
    <2>11. a = Val(text, p + 1) /\ b = Val(text, p + 2)
        BY <2>5, <2>9, <2>10
    <2>12. Reading(f) = 10 * a + b
        BY <2>5, <2>7, <2>10, MagnitudeOf DEF Reading
    <2>13. \E m \in Nat, u \in Nat, d \in 0..9 :
              /\ u = (IF w = <<>> THEN 0 ELSE Reading(w))
              /\ u = 10 * m + d
              /\ d = Val(text, p - 1)
        <3>1. CASE w = <<>>
            <4>1. p - 1 = 0
                BY <2>3, <3>1
            <4>2. Val(text, p - 1) = 0
                BY <1>4, <4>1
            <4>3. 0 = 10 * 0 + 0 /\ 0 \in Nat /\ 0 \in 0..9
                OBVIOUS
            <4> QED  BY <3>1, <4>2, <4>3
        <3>2. CASE w # <<>>
            <4>1. PICK l \in Nat : l = p - 1
                OBVIOUS
            <4>2. l # 0
                BY <2>3, <3>2, <4>1, EmptySeq
            <4>3. Reading(w) = Magnitude(w)
                BY <2>3 DEF Reading
            <4>4. Magnitude(w) \in Nat /\ \E m \in Nat : Magnitude(w) = 10 * m + ValueOf[w[l]]
                BY <2>3, <2>8, <3>2, <4>1, <4>2, MagnitudeOf
            <4>5. l \in 1..(p - 1) /\ l \in 1..n /\ l # p
                BY <4>1, <4>2
            <4>6. w[l] = text[l] /\ ValueOf[w[l]] \in 0..9
                BY <2>3, <2>8, <3>2, <4>5, DigitsHaveValues
            <4>7. Val(text, l) = ValueOf[w[l]]
                BY <1>4, <1>5, <4>5, <4>6
            <4> QED  BY <3>2, <4>1, <4>3, <4>4, <4>6, <4>7
        <3> QED  BY <3>1, <3>2
    <2>14. PICK m \in Nat, u \in Nat, d \in 0..9 :
              /\ u = (IF w = <<>> THEN 0 ELSE Reading(w))
              /\ u = 10 * m + d
              /\ d = Val(text, p - 1)
        BY <2>13
    <2>15. Cents(text) = 100 * u + (10 * a + b)
        BY <1>7, <2>2, <2>4, <2>12, <2>14 DEF Cents
    <2> HIDE DEF Val
    <2>16. PICK c : c = Cents(text)
        OBVIOUS
    <2>17. c % 100 = 10 * a + b /\ c \div 100 = u /\ u % 10 = d
        <3>1. /\ (100 * u + (10 * a + b)) % 100 = 10 * a + b
              /\ (100 * u + (10 * a + b)) \div 100 = u
              /\ (10 * m + d) % 10 = d
            BY Places
        <3>2. u = 10 * m + d
            BY <2>14
        <3>3. c = 100 * u + (10 * a + b)
            BY <2>15, <2>16
        <3> QED  BY <3>1, <3>2, <3>3, Zenon
    <2> QED  BY <1>5, <2>11, <2>14, <2>16, <2>17
<1> QED  BY <1>6, <1>7

-----------------------------------------------------------------------------

\* On a page whose slug was not typed the slug is that of the name.
Follows(g) == ~g.touched => g.slug = Slugify(g.name)

LEMMA FollowsOn ==
    ASSUME form \in [Forms -> FormState], \A f \in Forms : Follows(form[f]), [Next]_vars
    PROVE  \A f \in Forms : Follows(form'[f])
<1>1. ASSUME NEW f \in Forms, NEW shown, Shows(f, shown), Follows(shown)
      PROVE  \A q \in Forms : Follows(form'[q])
  BY <1>1 DEF Shows
<1>2. ASSUME UNCHANGED form  PROVE \A f \in Forms : Follows(form'[f])
  BY <1>2
<1>3. ASSUME NEW f \in Forms, NEW name \in Named[f], TypeName(f, name)
      PROVE  \A q \in Forms : Follows(form'[q])
  <2>1. PICK g \in FormState : g = form[f]
    OBVIOUS
  <2>2. PICK slug : slug = IF g.touched THEN g.slug ELSE Slugify(name)
    OBVIOUS
  <2>3. PICK shown : shown = [g EXCEPT !.name = name, !.error = None, !.slug = slug]
    OBVIOUS
  <2>4. Shows(f, shown)
    BY <1>3, <2>1, <2>2, <2>3 DEF TypeName
  <2>5. shown.name = name /\ shown.slug = slug /\ shown.touched = g.touched
    BY <2>3 DEF FormState
  <2> QED BY <1>1, <2>2, <2>4, <2>5 DEF Follows
<1>4. ASSUME NEW f \in Forms, NEW slug \in Typed, TypeSlug(f, slug)
      PROVE  \A q \in Forms : Follows(form'[q])
  <2>1. PICK g \in FormState : g = form[f]
    OBVIOUS
  <2>2. PICK shown : shown = [g EXCEPT !.slug = slug, !.touched = TRUE, !.error = None]
    OBVIOUS
  <2>3. Shows(f, shown)
    BY <1>4, <2>1, <2>2 DEF TypeSlug
  <2>4. shown.touched
    BY <2>2 DEF FormState
  <2> QED BY <1>1, <2>3, <2>4 DEF Follows
<1>5. ASSUME NEW f \in Forms, NEW kind, NEW slug, Complains(f, kind, slug)
      PROVE  \A q \in Forms : Follows(form'[q])
  <2>1. PICK g \in FormState : g = form[f] /\ Follows(g)
    OBVIOUS
  <2>2. PICK e : e = [kind |-> kind, slug |-> slug]
    OBVIOUS
  <2>3. PICK shown : shown = [g EXCEPT !.pc = "edit", !.error = e]
    OBVIOUS
  <2>4. Shows(f, shown)
    BY <1>5, <2>1, <2>2, <2>3 DEF Complains
  <2>5. shown.name = g.name /\ shown.slug = g.slug /\ shown.touched = g.touched
    BY <2>3 DEF FormState
  <2> QED BY <1>1, <2>1, <2>4, <2>5 DEF Follows
<1>6. ASSUME NEW f \in Forms, NEW slug, NEW s, Tells(f, slug, s)
      PROVE  \A q \in Forms : Follows(form'[q])
  <2>1. PICK shown : shown = [Blank EXCEPT !.flash = [slug |-> slug, seed |-> s]]
    OBVIOUS
  <2>2. Shows(f, shown)
    BY <1>6, <2>1 DEF Tells
  <2>3. shown.name = <<>> /\ shown.slug = <<>>
    BY <2>1 DEF Blank
  <2> QED BY <1>1, <2>2, <2>3, NoNameNoSlug DEF Follows
<1>7. ASSUME NEW f \in Forms, NEW money, NEW seedTyped, Submit(f, money, seedTyped)
      PROVE  \A q \in Forms : Follows(form'[q])
  <2>1. PICK g \in FormState : g = form[f] /\ Follows(g)
    OBVIOUS
  <2>2. PICK shown : shown = [g EXCEPT !.pc = "creating", !.seed = seedTyped, !.flash = None, !.error = None]
    OBVIOUS
  <2>3. Shows(f, shown)
    BY <1>7, <2>1, <2>2 DEF Submit
  <2>4. shown.name = g.name /\ shown.slug = g.slug /\ shown.touched = g.touched
    BY <2>2 DEF FormState
  <2> QED BY <1>1, <2>1, <2>3, <2>4 DEF Follows
<1>8. ASSUME NEW f \in Forms, CreatedThenSeed(f)
      PROVE  \A q \in Forms : Follows(form'[q])
  <2>1. PICK g \in FormState : g = form[f] /\ Follows(g)
    OBVIOUS
  <2>2. PICK shown : shown = [g EXCEPT !.pc = "seeding"]
    OBVIOUS
  <2>3. Shows(f, shown)
    BY <1>8, <2>1, <2>2 DEF CreatedThenSeed
  <2>4. shown.name = g.name /\ shown.slug = g.slug /\ shown.touched = g.touched
    BY <2>2 DEF FormState
  <2> QED BY <1>1, <2>1, <2>3, <2>4 DEF Follows
<1>9. ASSUME NEW f \in Forms, PageStep(f)
      PROVE  \A q \in Forms : Follows(form'[q])
  BY <1>5, <1>6, <1>8, <1>9 DEF PageStep, Created, NotCreated, Seeded, NotSeeded
<1>10. ASSUME NEW f \in Forms, NEW money, NEW seedTyped, SubmitRefused(f, money, seedTyped)
       PROVE  \A q \in Forms : Follows(form'[q])
  BY <1>5, <1>10 DEF SubmitRefused
<1>11. ASSUME NEW f \in Forms, LoseAnswer(f)  PROVE UNCHANGED form
  BY <1>11 DEF LoseAnswer
<1>12. ASSUME NEW r \in Requests, OtherClient(r)  PROVE UNCHANGED form
  BY <1>12 DEF OtherClient
<1> QED
  BY <1>2, <1>3, <1>4, <1>7, <1>9, <1>10, <1>11, <1>12 DEF Next, vars

\* As long as nobody types the slug it follows the name, and whatever the name,
\* the slug is one that form and gateway accept once it has enough characters
\* (create_tenant.rs, on_name_input and slugify).
THEOREM NamesHold == Spec => []NamesMakeSlugs
<1> DEFINE Following == \A f \in Forms : Follows(form[f])
<1>1. Init => Following
  <2>1. ASSUME Init, NEW f \in Forms  PROVE Follows(form[f])
    <3>1. form[f] = Blank
      BY <2>1 DEF Init
    <3> QED BY <3>1, NoNameNoSlug DEF Blank, Follows
  <2> QED BY <2>1
<1>2. Inv /\ Following /\ [Next]_vars => Following'
  <2>1. Inv => form \in [Forms -> FormState]
    BY DEF Inv, FormsInv
  <2> QED BY <2>1, FollowsOn
<1>3. Following => NamesMakeSlugs
  <2>1. SlugsFromNames
    BY CreateVentureAssumption, SlugifyMakesSlugs DEF SlugsFromNames
  <2> QED BY <2>1 DEF Follows, NamesMakeSlugs
<1> HIDE DEF Following
<1> QED BY <1>1, <1>2, <1>3, InvHolds, PTL DEF Spec

\* An amount typed without a sign is sent for the cents it writes
\* (create_tenant.rs, parse_dues_to_cents).
THEOREM MoneyHolds == Spec => []MoneyReadsAsWritten
<1>1. MoneyReadsAsWritten
  BY AmountsAreTexts DEF MoneyReadsAsWritten
<1> QED BY <1>1, PTL
=============================================================================
