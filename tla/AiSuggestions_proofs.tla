------------------------- MODULE AiSuggestions_proofs -------------------------
(***************************************************************************)
(* The properties of AiSuggestions for any users, sections, texts, prompts, *)
(* requests and reviews.                                                   *)
(*                                                                         *)
(* A text is followed from where it is written to where it is stored:      *)
(* through the cache, where it is found only under the key of what it was  *)
(* written for, and through the request, whose input does not change once  *)
(* it is read.  A decision stands because a row is inserted at most once   *)
(* and leaves `pending' at most once; an event tells of a review that was  *)
(* answered.                                                               *)
(***************************************************************************)
EXTENDS AiSuggestions, TLAPS

Decisions == {"accepted", "rejected"}

RequestSteps == {"idle", "prompt", "context", "cache", "gateway", "insert", "done", "failed"}

RequestType ==
  [step : RequestSteps, user : Users \cup {Nothing}, section : Sections \cup {Nothing},
   content : Contents \cup {Nothing}, prompt : Prompts \cup {Nothing},
   titles : Titles \cup {Nothing}, text : Texts \cup {Nothing}]

RowType ==
  [section : Sections, user : Users, original : Contents, prompt : Prompts,
   titles : Titles \cup {Nothing}, text : Texts,
   status : Decisions \cup {"pending"}]

\* The variables are functions of their indices.
TablesInv ==
  /\ requests \in [Requests -> RequestType]
  /\ sections = [s \in Sections |-> sections[s]]
  /\ \A s \in Sections : Exists(s) => sections[s] \in [content : Contents, titles : Titles]
  /\ rows = [r \in Requests |-> rows[r]]
  /\ reviews = [v \in Reviewers |-> reviews[v]]

\* What a request holds at each step.
RequestInv(req) ==
  /\ req.step \in {"prompt", "context", "cache", "gateway", "insert"} =>
       /\ req.user \in Users /\ req.section \in Sections /\ req.content \in Contents
       /\ req.user = Owner[req.section]
  /\ req.step \in {"context", "cache", "gateway", "insert"} => req.prompt \in Prompts
  /\ req.step = "insert" => req.text = TextFor(req)

\* A row was written for what it says, and once.
RowInv(r) ==
  rows[r] # Nothing =>
    /\ rows[r] \in RowType
    /\ rows[r].text = [user |-> rows[r].user, prompt |-> rows[r].prompt,
                       shown |-> Prepare(rows[r].original), titles |-> rows[r].titles]
    /\ requests[r].step = "done"

\* A cached text was written for its key.
CacheInv ==
  \A key \in DOMAIN cache :
    cache[key] = [user |-> key[1], prompt |-> key[2], shown |-> key[3], titles |-> key[4]]

\* What a review holds at each step; a row it names is not inserted again.
ReviewInv(v) ==
  /\ reviews[v].step \in {"idle", "own", "mark", "reviewed", "refused"}
  /\ reviews[v].step = "own" =>
       /\ reviews[v].section \in Sections
       /\ rows[reviews[v].row] # Nothing =>
            rows[reviews[v].row].section = reviews[v].section
  /\ reviews[v].step \in {"own", "mark", "reviewed"} =>
       /\ reviews[v].row \in Requests /\ reviews[v].decision \in Decisions
       /\ requests[reviews[v].row].step = "done"
  /\ reviews[v].step \in {"mark", "reviewed"} =>
       /\ DOMAIN reviews[v] = {"step", "row", "user", "decision"}
       /\ rows[reviews[v].row] # Nothing =>
            reviews[v].user = Owner[rows[reviews[v].row].section]
  /\ reviews[v].step = "reviewed" /\ rows[reviews[v].row] # Nothing =>
       rows[reviews[v].row].status = reviews[v].decision

OneDecides ==
  \A v, w \in Reviewers :
    reviews[v].step = "reviewed" /\ reviews[w].step = "reviewed"
      /\ reviews[v].row = reviews[w].row => v = w

\* An answered review is behind what is told of one.
Told(user, payload) ==
  \E v \in Reviewers :
    /\ reviews[v].step = "reviewed" /\ reviews[v].user = user
    /\ reviews[v].row = payload.suggestion /\ reviews[v].decision = payload.decision

EventsInv ==
  /\ \A event \in events :
       event.name = "suggestion.reviewed" => Told(event.user, event.payload)
  /\ \A entry \in audit :
       entry.action = "suggestion.reviewed" => Told(entry.user, entry.metadata)

SuggestionsInv ==
  /\ TablesInv /\ CacheInv
  /\ \A r \in Requests : RequestInv(requests[r]) /\ RowInv(r)
  /\ \A v \in Reviewers : ReviewInv(v)
  /\ OneDecides /\ EventsInv

-----------------------------------------------------------------------------
(* Records. *)

LEMMA FixedRequests ==
  /\ Done \in RequestType /\ Done.step = "done" /\ RequestInv(Done)
  /\ Failed \in RequestType /\ Failed.step = "failed" /\ RequestInv(Failed)
  /\ Idle \in RequestType /\ Idle.step = "idle" /\ RequestInv(Idle)
<1>1. Idle \in RequestType /\ Idle.step = "idle"
  BY DEF Idle, RequestType, RequestSteps
<1>2. /\ Done \in RequestType /\ Done.step = "done"
      /\ Failed \in RequestType /\ Failed.step = "failed"
  BY <1>1 DEF Done, Failed, RequestType, RequestSteps
<1>3. QED
  BY <1>1, <1>2 DEF RequestInv

\* The text for a request that has read its input.
LEMMA TextType ==
  ASSUME NEW req \in RequestType, req.user \in Users, req.prompt \in Prompts,
         req.content \in Contents
  PROVE  TextFor(req) \in Texts
BY DEF TextFor, Texts, Prepare, Contents, RequestType

\* The text does not depend on how far the request is.
LEMMA SameText ==
  ASSUME NEW a, NEW b, a.user = b.user, a.prompt = b.prompt, a.content = b.content,
         a.titles = b.titles
  PROVE  TextFor(a) = TextFor(b)
BY DEF TextFor, Prepare

\* A text found under a request's key is the text for that request.
LEMMA CachedText ==
  ASSUME CacheInv, NEW req, CacheKey(req) \in DOMAIN cache
  PROVE  cache[CacheKey(req)] = TextFor(req)
<1> DEFINE key == CacheKey(req)
<1>1. /\ key[1] = req.user /\ key[2] = req.prompt /\ key[3] = Prepare(req.content)
      /\ key[4] = req.titles
  BY DEF CacheKey
<1>2. cache[key] = [user |-> key[1], prompt |-> key[2], shown |-> key[3],
                    titles |-> key[4]]
  BY DEF CacheInv
<1> HIDE DEF key
<1>3. cache[key] = TextFor(req)
  BY <1>1, <1>2 DEF TextFor
<1>4. QED
  BY <1>3 DEF key

-----------------------------------------------------------------------------
(* A request goes on. *)

LEMMA AdvanceStep ==
  ASSUME SuggestionsInv, NEW r \in Requests, NEW req \in RequestType, RequestInv(req),
         Advance(r, req), requests[r].step # "done", CacheInv'
  PROVE  SuggestionsInv'
<1>1. /\ UNCHANGED <<sections, rows, reviews, events, audit>>
      /\ requests' = [requests EXCEPT ![r] = req]
  BY DEF Advance, Silent
<1>2. /\ requests' \in [Requests -> RequestType] /\ requests'[r] = req
      /\ \A q \in Requests \ {r} : requests'[q] = requests[q]
  BY <1>1 DEF SuggestionsInv, TablesInv
<1>3. TablesInv'
  BY <1>1, <1>2 DEF SuggestionsInv, TablesInv, Exists
<1>4. \A q \in Requests : RequestInv(requests'[q])
  BY <1>2 DEF SuggestionsInv
<1>5. \A q \in Requests : RowInv(q)'
  BY <1>1, <1>2 DEF SuggestionsInv, RowInv
<1>6. \A v \in Reviewers : ReviewInv(v)'
  BY <1>1, <1>2 DEF SuggestionsInv, ReviewInv
<1>7. OneDecides' /\ EventsInv'
  BY <1>1 DEF SuggestionsInv, OneDecides, EventsInv, Told
<1>8. \A q \in Requests : RequestInv(requests[q])'
  BY <1>4 DEF RequestInv, TextFor, Prepare
<1>9. QED
  BY <1>3, <1>5, <1>6, <1>7, <1>8 DEF SuggestionsInv

LEMMA AskStep ==
  ASSUME SuggestionsInv, NEW r \in Requests, Ask(r)
  PROVE  SuggestionsInv'
<1>1. PICK u \in Users, s \in Sections :
        /\ requests[r].step = "idle"
        /\ Advance(r, IF Consents(u) /\ Exists(s) /\ Owner[s] = u
                      THEN [Idle EXCEPT !.step = "prompt", !.user = u, !.section = s,
                                        !.content = sections[s].content]
                      ELSE Failed)
        /\ UNCHANGED cache
  BY DEF Ask
<1>2. CacheInv'
  BY <1>1 DEF SuggestionsInv, CacheInv
<1>3. CASE ~(Consents(u) /\ Exists(s) /\ Owner[s] = u)
  BY <1>1, <1>2, <1>3, FixedRequests, AdvanceStep
<1>4. CASE Consents(u) /\ Exists(s) /\ Owner[s] = u
  <2> DEFINE req == [Idle EXCEPT !.step = "prompt", !.user = u, !.section = s,
                                 !.content = sections[s].content]
  <2>1. sections[s].content \in Contents
    BY <1>4 DEF SuggestionsInv, TablesInv
  <2>2. /\ req \in RequestType /\ req.step = "prompt" /\ req.user = u
        /\ req.section = s /\ req.content = sections[s].content
    BY <2>1 DEF Idle, RequestType, RequestSteps
  <2>3. Advance(r, req)
    BY <1>1, <1>4
  <2> HIDE DEF req
  <2>4. RequestInv(req)
    BY <1>4, <2>1, <2>2 DEF RequestInv
  <2>5. QED
    BY <1>1, <1>2, <2>2, <2>3, <2>4, AdvanceStep
<1>5. QED
  BY <1>3, <1>4

LEMMA LookUpPromptStep ==
  ASSUME SuggestionsInv, NEW r \in Requests, LookUpPrompt(r)
  PROVE  SuggestionsInv'
<1>1. /\ requests[r] \in RequestType /\ RequestInv(requests[r])
      /\ requests[r].step = "prompt" /\ cache' = cache
  BY DEF LookUpPrompt, SuggestionsInv, TablesInv
<1>2. CacheInv'
  BY <1>1 DEF SuggestionsInv, CacheInv
<1>3. CASE Advance(r, Failed)
  BY <1>1, <1>2, <1>3, FixedRequests, AdvanceStep
<1>4. ASSUME NEW p \in Prompts,
             Advance(r, [requests[r] EXCEPT !.prompt = p, !.step = "context"])
      PROVE  SuggestionsInv'
  <2> DEFINE req == [requests[r] EXCEPT !.prompt = p, !.step = "context"]
  <2>1. /\ req \in RequestType /\ req.step = "context" /\ req.prompt = p
        /\ req.user = requests[r].user /\ req.section = requests[r].section
        /\ req.content = requests[r].content
    BY <1>1 DEF RequestType, RequestSteps
  <2>2. Advance(r, req)
    BY <1>4
  <2> HIDE DEF req
  <2>3. RequestInv(req)
    BY <1>1, <2>1 DEF RequestInv
  <2>4. QED
    BY <1>1, <1>2, <2>1, <2>2, <2>3, AdvanceStep
<1>5. QED
  BY <1>3, <1>4 DEF LookUpPrompt

LEMMA ReadContextStep ==
  ASSUME SuggestionsInv, NEW r \in Requests, ReadContext(r)
  PROVE  SuggestionsInv'
<1> DEFINE titles == IF requests[r].prompt \in Contextual /\ Exists(requests[r].section)
                     THEN sections[requests[r].section].titles ELSE Nothing
           req == [requests[r] EXCEPT !.titles = titles, !.step = "cache"]
<1>1. /\ requests[r] \in RequestType /\ RequestInv(requests[r])
      /\ requests[r].step = "context" /\ cache' = cache /\ Advance(r, req)
  BY DEF ReadContext, SuggestionsInv, TablesInv
<1>2. CacheInv'
  BY <1>1 DEF SuggestionsInv, CacheInv
<1>3. titles \in Titles \cup {Nothing}
  BY <1>1 DEF SuggestionsInv, TablesInv, RequestInv
<1> HIDE DEF titles
<1>4. /\ req \in RequestType /\ req.step = "cache" /\ req.prompt = requests[r].prompt
      /\ req.user = requests[r].user /\ req.section = requests[r].section
      /\ req.content = requests[r].content
  BY <1>1, <1>3 DEF RequestType, RequestSteps
<1> HIDE DEF req
<1>5. RequestInv(req)
  BY <1>1, <1>4 DEF RequestInv
<1>6. QED
  BY <1>1, <1>2, <1>4, <1>5, AdvanceStep

\* The request has the text for its input, from the cache or from the model.
LEMMA TextStep ==
  ASSUME SuggestionsInv, NEW r \in Requests,
         requests[r].step \in {"cache", "gateway"},
         Advance(r, [requests[r] EXCEPT !.text = TextFor(requests[r]), !.step = "insert"]),
         CacheInv'
  PROVE  SuggestionsInv'
<1> DEFINE req == [requests[r] EXCEPT !.text = TextFor(requests[r]), !.step = "insert"]
<1>1. requests[r] \in RequestType /\ RequestInv(requests[r])
  BY DEF SuggestionsInv, TablesInv
<1>2. TextFor(requests[r]) \in Texts
  BY <1>1, TextType DEF RequestInv
<1>3. /\ req \in RequestType /\ req.step = "insert" /\ req.prompt = requests[r].prompt
      /\ req.user = requests[r].user /\ req.section = requests[r].section
      /\ req.content = requests[r].content /\ req.titles = requests[r].titles
      /\ req.text = TextFor(requests[r])
  BY <1>1, <1>2 DEF RequestType, RequestSteps
<1> HIDE DEF req
<1>4. TextFor(req) = TextFor(requests[r])
  BY <1>3, SameText
<1>5. RequestInv(req)
  BY <1>1, <1>3, <1>4 DEF RequestInv
<1>6. QED
  BY <1>3, <1>5, AdvanceStep DEF req

LEMMA CacheHitStep ==
  ASSUME SuggestionsInv, NEW r \in Requests, CacheHit(r)
  PROVE  SuggestionsInv'
<1>1. cache[CacheKey(requests[r])] = TextFor(requests[r])
  BY CachedText DEF CacheHit, SuggestionsInv
<1>2. CacheInv'
  BY DEF CacheHit, SuggestionsInv, CacheInv
<1>3. QED
  BY <1>1, <1>2, TextStep DEF CacheHit

LEMMA GeneratedStep ==
  ASSUME SuggestionsInv, NEW r \in Requests, Generated(r)
  PROVE  SuggestionsInv'
<1> DEFINE req == requests[r]
           key == CacheKey(req)
<1>1. CacheInv'
  <2>1. CASE cache' = cache
    BY <2>1 DEF SuggestionsInv, CacheInv
  <2>2. CASE cache' = [k \in DOMAIN cache \cup {key} |->
                         IF k = key THEN TextFor(req) ELSE cache[k]]
    <3>1. /\ DOMAIN cache' = DOMAIN cache \cup {key} /\ cache'[key] = TextFor(req)
          /\ \A k \in DOMAIN cache : k # key => cache'[k] = cache[k]
      BY <2>2
    <3>2. TextFor(req) = [user |-> key[1], prompt |-> key[2], shown |-> key[3],
                          titles |-> key[4]]
      BY DEF CacheKey, TextFor
    <3> HIDE DEF key
    <3>3. QED
      BY <3>1, <3>2 DEF SuggestionsInv, CacheInv
  <2>3. QED
    BY <2>1, <2>2 DEF Generated
<1>2. QED
  BY <1>1, TextStep DEF Generated

LEMMA MissStep ==
  ASSUME SuggestionsInv, NEW r \in Requests, CacheMiss(r) \/ NotGenerated(r)
  PROVE  SuggestionsInv'
<1>1. /\ requests[r] \in RequestType /\ RequestInv(requests[r])
      /\ requests[r].step \in {"cache", "gateway"} /\ cache' = cache
  BY DEF CacheMiss, NotGenerated, SuggestionsInv, TablesInv
<1>2. CacheInv'
  BY <1>1 DEF SuggestionsInv, CacheInv
<1>3. CASE NotGenerated(r)
  BY <1>1, <1>2, <1>3, FixedRequests, AdvanceStep DEF NotGenerated
<1>4. CASE CacheMiss(r)
  <2> DEFINE req == [requests[r] EXCEPT !.step = "gateway"]
  <2>1. /\ req \in RequestType /\ req.step = "gateway" /\ req.prompt = requests[r].prompt
        /\ req.user = requests[r].user /\ req.section = requests[r].section
        /\ req.content = requests[r].content
    BY <1>1 DEF RequestType, RequestSteps
  <2>2. Advance(r, req)
    BY <1>4 DEF CacheMiss
  <2> HIDE DEF req
  <2>3. RequestInv(req)
    BY <1>1, <2>1 DEF RequestInv
  <2>4. QED
    BY <1>1, <1>2, <2>1, <2>2, <2>3, AdvanceStep
<1>5. QED
  BY <1>3, <1>4

\* A row is inserted for a request that had none, and that no review names.
LEMMA InsertStep ==
  ASSUME SuggestionsInv, NEW r \in Requests, Insert(r)
  PROVE  SuggestionsInv'
<1> DEFINE req == requests[r]
           row == [section |-> req.section, user |-> req.user, original |-> req.content,
                   prompt |-> req.prompt, titles |-> req.titles, text |-> req.text,
                   status |-> "pending"]
<1>1. req \in RequestType /\ RequestInv(req) /\ req.step = "insert"
  BY DEF Insert, SuggestionsInv, TablesInv
<1>2. CacheInv'
  BY DEF Insert, SuggestionsInv, CacheInv
<1>3. CASE ~Exists(req.section)
  <2>1. Advance(r, Failed)
    BY <1>3 DEF Insert, Advance
  <2>2. QED
    BY <1>1, <1>2, <2>1, FixedRequests, AdvanceStep
<1>4. CASE Exists(req.section)
  <2>1. /\ requests' = [requests EXCEPT ![r] = Done] /\ rows' = [rows EXCEPT ![r] = row]
        /\ UNCHANGED <<sections, reviews, events, audit>>
    BY <1>4 DEF Insert, Silent
  <2>2. req.text = TextFor(req) /\ TextFor(req) \in Texts
    BY <1>1, TextType DEF RequestInv
  <2>3. /\ row \in RowType
        /\ row.text = [user |-> row.user, prompt |-> row.prompt,
                       shown |-> Prepare(row.original), titles |-> row.titles]
    BY <1>1, <2>2 DEF RowType, RequestInv, RequestType, TextFor
  <2> HIDE DEF row
  <2>4. /\ requests' \in [Requests -> RequestType] /\ requests'[r] = Done
        /\ \A q \in Requests \ {r} : requests'[q] = requests[q]
    BY <2>1, FixedRequests DEF SuggestionsInv, TablesInv
  <2>5. /\ rows' = [q \in Requests |-> rows'[q]] /\ rows'[r] = row
        /\ \A q \in Requests \ {r} : rows'[q] = rows[q]
    BY <2>1 DEF SuggestionsInv, TablesInv
  <2>6. TablesInv'
    BY <2>1, <2>4, <2>5 DEF SuggestionsInv, TablesInv, Exists
  <2>7. \A q \in Requests : RequestInv(requests[q])'
    <3>1. \A q \in Requests : RequestInv(requests'[q])
      BY <2>4, FixedRequests DEF SuggestionsInv
    <3>2. QED
      BY <3>1 DEF RequestInv, TextFor, Prepare
  <2>8. \A q \in Requests : RowInv(q)'
    BY <2>3, <2>4, <2>5, FixedRequests DEF SuggestionsInv, RowInv
  <2>9. \A v \in Reviewers : ReviewInv(v)'
    <3> SUFFICES ASSUME NEW v \in Reviewers PROVE ReviewInv(v)'
      OBVIOUS
    <3>1. ReviewInv(v) /\ reviews'[v] = reviews[v]
      BY <2>1 DEF SuggestionsInv
    <3>2. reviews[v].step \in {"own", "mark", "reviewed"} =>
            /\ rows'[reviews[v].row] = rows[reviews[v].row]
            /\ requests'[reviews[v].row] = requests[reviews[v].row]
      BY <1>1, <2>4, <2>5, <3>1 DEF ReviewInv
    <3>3. QED
      BY <3>1, <3>2 DEF ReviewInv
  <2>10. OneDecides' /\ EventsInv'
    BY <2>1 DEF SuggestionsInv, OneDecides, EventsInv, Told
  <2>11. QED
    BY <1>2, <2>6, <2>7, <2>8, <2>9, <2>10 DEF SuggestionsInv
<1>5. QED
  BY <1>3, <1>4

-----------------------------------------------------------------------------
(* Reviews. *)

LEMMA ReviewSet ==
  ASSUME TablesInv, NEW v \in Reviewers, NEW record,
         reviews' = [reviews EXCEPT ![v] = record]
  PROVE  /\ reviews' = [w \in Reviewers |-> reviews'[w]] /\ reviews'[v] = record
         /\ \A w \in Reviewers \ {v} : reviews'[w] = reviews[w]
BY DEF TablesInv

\* A step of one review that decides nothing.
LEMMA UndecidedStep ==
  ASSUME SuggestionsInv, NEW v \in Reviewers, NEW record,
         reviews' = [reviews EXCEPT ![v] = record],
         reviews[v].step # "reviewed", record.step # "reviewed", ReviewInv(v)',
         UNCHANGED <<sections, requests, cache, rows, events, audit>>
  PROVE  SuggestionsInv'
<1>1. /\ reviews' = [w \in Reviewers |-> reviews'[w]] /\ reviews'[v] = record
      /\ \A w \in Reviewers \ {v} : reviews'[w] = reviews[w]
  BY ReviewSet DEF SuggestionsInv
<1>2. TablesInv' /\ CacheInv'
  BY <1>1 DEF SuggestionsInv, TablesInv, CacheInv, Exists
<1>3. \A r \in Requests : RequestInv(requests[r])' /\ RowInv(r)'
  BY DEF SuggestionsInv, RequestInv, RowInv, TextFor, Prepare
<1>4. \A w \in Reviewers : ReviewInv(w)'
  BY <1>1 DEF SuggestionsInv, ReviewInv
<1>5. OneDecides' /\ EventsInv'
  BY <1>1 DEF SuggestionsInv, OneDecides, EventsInv, Told
<1>6. QED
  BY <1>2, <1>3, <1>4, <1>5 DEF SuggestionsInv

LEMMA BeginReviewStep ==
  ASSUME SuggestionsInv, NEW v \in Reviewers, BeginReview(v)
  PROVE  SuggestionsInv'
<1>0. PICK r \in Requests, u \in Users, d \in {"accepted", "rejected"} :
        /\ reviews[v].step = "idle"
        /\ rows[r] # Nothing
        /\ reviews' = [reviews EXCEPT ![v] =
             [step |-> "own", row |-> r, user |-> u, decision |-> d,
              section |-> rows[r].section, pending |-> rows[r].status = "pending"]]
        /\ UNCHANGED <<sections, requests, cache, rows, consent, edits>> /\ Silent
  BY Zenon DEF BeginReview
<1>1. /\ reviews[v].step = "idle" /\ rows[r] # Nothing /\ d \in Decisions
      /\ UNCHANGED <<sections, requests, cache, rows, events, audit>>
  BY <1>0 DEF Silent, Decisions
<1> DEFINE record == [step |-> "own", row |-> r, user |-> u, decision |-> d,
                      section |-> rows[r].section,
                      pending |-> rows[r].status = "pending"]
<1>2. /\ record.step = "own" /\ record.row = r /\ record.decision = d
      /\ record.section = rows[r].section
  OBVIOUS
<1>3. reviews' = [reviews EXCEPT ![v] = record]
  BY <1>0
<1> HIDE DEF record
<1>4. reviews'[v] = record
  BY <1>3, ReviewSet DEF SuggestionsInv
<1>5. rows[r].section \in Sections /\ requests[r].step = "done"
  <2>1. RowInv(r)
    BY DEF SuggestionsInv
  <2>2. QED
    BY <1>1, <2>1 DEF RowInv, RowType
<1>6. ReviewInv(v)'
  BY <1>1, <1>2, <1>4, <1>5 DEF ReviewInv
<1>7. QED
  BY <1>1, <1>2, <1>3, <1>6, UndecidedStep

LEMMA CheckReviewStep ==
  ASSUME SuggestionsInv, NEW v \in Reviewers, CheckReview(v)
  PROVE  SuggestionsInv'
<1> DEFINE w == reviews[v]
<1>1. /\ w.step = "own" /\ ReviewInv(v)
      /\ UNCHANGED <<sections, requests, cache, rows, events, audit>>
      /\ reviews' = [reviews EXCEPT ![v] =
           IF Exists(w.section) /\ Owner[w.section] = w.user /\ w.pending
           THEN [step |-> "mark", row |-> w.row, user |-> w.user, decision |-> w.decision]
           ELSE [step |-> "refused"]]
  BY DEF CheckReview, SuggestionsInv, Silent
<1>2. CASE Exists(w.section) /\ Owner[w.section] = w.user /\ w.pending
  <2> DEFINE record == [step |-> "mark", row |-> w.row, user |-> w.user,
                        decision |-> w.decision]
  <2>1. /\ record.step = "mark" /\ record.row = w.row /\ record.user = w.user
        /\ record.decision = w.decision
        /\ DOMAIN record = {"step", "row", "user", "decision"}
    OBVIOUS
  <2>2. reviews' = [reviews EXCEPT ![v] = record]
    BY <1>1, <1>2
  <2> HIDE DEF record
  <2>3. reviews'[v] = record
    BY <2>2, ReviewSet DEF SuggestionsInv
  <2>4. ReviewInv(v)'
    BY <1>1, <1>2, <2>1, <2>3 DEF ReviewInv
  <2>5. QED
    BY <1>1, <2>1, <2>2, <2>4, UndecidedStep
<1>3. CASE ~(Exists(w.section) /\ Owner[w.section] = w.user /\ w.pending)
  <2> DEFINE record == [step |-> "refused"]
  <2>1. record.step = "refused"
    OBVIOUS
  <2>2. reviews' = [reviews EXCEPT ![v] = record]
    BY <1>1, <1>3
  <2> HIDE DEF record
  <2>3. reviews'[v] = record
    BY <2>2, ReviewSet DEF SuggestionsInv
  <2>4. ReviewInv(v)'
    BY <2>1, <2>3 DEF ReviewInv
  <2>5. QED
    BY <1>1, <2>1, <2>2, <2>4, UndecidedStep
<1>4. QED
  BY <1>2, <1>3

\* The conditional update: of the reviews of a row one can find it pending.
LEMMA MarkStep ==
  ASSUME SuggestionsInv, NEW v \in Reviewers, Mark(v)
  PROVE  SuggestionsInv'
<1> DEFINE w == reviews[v]
           before == rows[w.row]
           after == MarkReviewed(before, w.decision)
<1>1. /\ w.step = "mark" /\ ReviewInv(v) /\ w.row \in Requests
      /\ w.decision \in Decisions
      /\ UNCHANGED <<sections, requests, cache>>
      /\ rows' = [rows EXCEPT ![w.row] = after]
  BY DEF Mark, SuggestionsInv, ReviewInv
<1>2. /\ rows' = [r \in Requests |-> rows'[r]] /\ rows'[w.row] = after
      /\ \A r \in Requests \ {w.row} : rows'[r] = rows[r]
  BY <1>1 DEF SuggestionsInv, TablesInv
<1>3. CASE after = before
  <2> DEFINE record == [step |-> "refused"]
  <2>1. record.step = "refused"
    OBVIOUS
  <2>2. /\ reviews' = [reviews EXCEPT ![v] = record]
        /\ UNCHANGED <<events, audit>>
    BY <1>3 DEF Mark, Silent
  <2> HIDE DEF record
  <2>3. rows' = rows
    BY <1>1, <1>3 DEF SuggestionsInv, TablesInv
  <2>4. reviews'[v] = record
    BY <2>2, ReviewSet DEF SuggestionsInv
  <2>5. ReviewInv(v)'
    BY <2>1, <2>4 DEF ReviewInv
  <2>6. QED
    BY <1>1, <2>1, <2>2, <2>3, <2>5, UndecidedStep
<1>4. CASE after # before
  <2>1. before # Nothing /\ before.status = "pending"
        /\ after = [before EXCEPT !.status = w.decision]
    BY <1>4 DEF MarkReviewed
  <2>2. /\ before \in RowType /\ requests[w.row].step = "done"
        /\ before.text = [user |-> before.user, prompt |-> before.prompt,
                          shown |-> Prepare(before.original), titles |-> before.titles]
    BY <1>1, <2>1 DEF SuggestionsInv, RowInv
  <2>3. /\ after \in RowType /\ after.status = w.decision /\ after.section = before.section
        /\ after.user = before.user /\ after.prompt = before.prompt
        /\ after.original = before.original /\ after.titles = before.titles
        /\ after.text = before.text
    BY <1>1, <2>1, <2>2 DEF RowType
  <2> DEFINE record == [w EXCEPT !.step = "reviewed"]
             event == [name |-> "suggestion.reviewed", user |-> w.user,
                       payload |-> [suggestion |-> w.row, decision |-> w.decision]]
  <2>4. /\ reviews' = [reviews EXCEPT ![v] = record]
        /\ events' = events \cup {event} /\ audit' = audit
    BY <1>4 DEF Mark, Emit
  <2>5. /\ record.step = "reviewed" /\ record.row = w.row /\ record.user = w.user
        /\ record.decision = w.decision
        /\ DOMAIN record = {"step", "row", "user", "decision"}
    BY <1>1 DEF ReviewInv
  <2>6. /\ event.user = w.user /\ event.payload.suggestion = w.row
        /\ event.payload.decision = w.decision
    OBVIOUS
  <2> HIDE DEF record, event, after
  <2>7. /\ reviews' = [x \in Reviewers |-> reviews'[x]] /\ reviews'[v] = record
        /\ \A x \in Reviewers \ {v} : reviews'[x] = reviews[x]
    BY <2>4, ReviewSet DEF SuggestionsInv
  <2>8. TablesInv' /\ CacheInv'
    BY <1>1, <1>2, <2>7 DEF SuggestionsInv, TablesInv, CacheInv, Exists
  <2>9. \A r \in Requests : RequestInv(requests[r])'
    BY <1>1 DEF SuggestionsInv, RequestInv, TextFor, Prepare
  <2>10. \A r \in Requests : RowInv(r)'
    BY <1>1, <1>2, <2>2, <2>3 DEF SuggestionsInv, RowInv, Prepare
  <2>11. \A x \in Reviewers \ {v} :
           reviews[x].step = "reviewed" => reviews[x].row # w.row
    BY <1>1, <2>1 DEF SuggestionsInv, ReviewInv, Decisions
  <2>12. \A x \in Reviewers : ReviewInv(x)'
    <3>1. ReviewInv(v)'
      BY <1>1, <1>2, <2>1, <2>2, <2>3, <2>5, <2>7 DEF ReviewInv
    <3>2. ASSUME NEW x \in Reviewers \ {v} PROVE ReviewInv(x)'
      <4>1. ReviewInv(x) /\ reviews'[x] = reviews[x]
        BY <2>7 DEF SuggestionsInv
      <4>2. CASE reviews[x].row # w.row
        BY <1>1, <1>2, <4>1, <4>2 DEF ReviewInv
      <4>3. CASE reviews[x].row = w.row
        BY <1>1, <1>2, <2>1, <2>3, <2>11, <4>1, <4>3 DEF ReviewInv
      <4>4. QED
        BY <4>2, <4>3
    <3>3. QED
      BY <3>1, <3>2
  <2>13. OneDecides'
    BY <2>5, <2>7, <2>11 DEF SuggestionsInv, OneDecides
  <2>14. EventsInv'
    <3>1. ASSUME NEW u, NEW payload, Told(u, payload)
          PROVE  \E x \in Reviewers :
                   /\ reviews'[x].step = "reviewed" /\ reviews'[x].user = u
                   /\ reviews'[x].row = payload.suggestion
                   /\ reviews'[x].decision = payload.decision
      <4>1. PICK x \in Reviewers :
              /\ reviews[x].step = "reviewed" /\ reviews[x].user = u
              /\ reviews[x].row = payload.suggestion
              /\ reviews[x].decision = payload.decision
        BY <3>1 DEF Told
      <4>2. reviews'[x] = reviews[x]
        BY <1>1, <2>7, <4>1
      <4>3. QED
        BY <4>1, <4>2
    <3>2. \E x \in Reviewers :
            /\ reviews'[x].step = "reviewed" /\ reviews'[x].user = event.user
            /\ reviews'[x].row = event.payload.suggestion
            /\ reviews'[x].decision = event.payload.decision
      BY <2>5, <2>6, <2>7
    <3>3. ASSUME NEW e \in events', e.name = "suggestion.reviewed"
          PROVE  Told(e.user, e.payload)'
      <4>1. CASE e = event
        BY <3>2, <4>1 DEF Told
      <4>2. CASE e \in events
        <5>1. Told(e.user, e.payload)
          BY <3>3, <4>2 DEF SuggestionsInv, EventsInv
        <5>2. QED
          BY <3>1, <5>1 DEF Told
      <4>3. QED
        BY <2>4, <4>1, <4>2
    <3>4. ASSUME NEW entry \in audit', entry.action = "suggestion.reviewed"
          PROVE  Told(entry.user, entry.metadata)'
      <4>1. Told(entry.user, entry.metadata)
        BY <2>4, <3>4 DEF SuggestionsInv, EventsInv
      <4>2. QED
        BY <3>1, <4>1 DEF Told
    <3>5. QED
      BY <3>3, <3>4 DEF EventsInv
  <2>15. QED
    BY <2>8, <2>9, <2>10, <2>12, <2>13, <2>14 DEF SuggestionsInv
<1>5. QED
  BY <1>3, <1>4

-----------------------------------------------------------------------------
(* Everything else. *)

\* A step that leaves requests, reviews and the cache alone, and may delete
\* rows.
LEMMA QuietStep ==
  ASSUME SuggestionsInv, UNCHANGED <<requests, reviews>>, CacheInv', EventsInv',
         sections' = [s \in Sections |-> sections'[s]],
         \A s \in Sections : sections'[s] # Nothing =>
           sections'[s] \in [content : Contents, titles : Titles],
         rows' = [r \in Requests |-> rows'[r]],
         \A r \in Requests : rows'[r] = Nothing \/ rows'[r] = rows[r]
  PROVE  SuggestionsInv'
<1>1. TablesInv'
  BY DEF SuggestionsInv, TablesInv, Exists
<1>2. \A r \in Requests : RequestInv(requests[r])' /\ RowInv(r)'
  BY DEF SuggestionsInv, RequestInv, RowInv, TextFor, Prepare
<1>3. ASSUME NEW v \in Reviewers PROVE ReviewInv(v)'
  <2>1. ReviewInv(v)
    BY DEF SuggestionsInv
  <2>2. QED
    BY <2>1 DEF ReviewInv
<1>4. OneDecides'
  BY DEF SuggestionsInv, OneDecides
<1>5. QED
  BY <1>1, <1>2, <1>3, <1>4 DEF SuggestionsInv

\* ... and the sections and rows too.
LEMMA StillStep ==
  ASSUME SuggestionsInv, UNCHANGED <<requests, reviews, sections, rows>>, CacheInv',
         EventsInv'
  PROVE  SuggestionsInv'
BY QuietStep DEF SuggestionsInv, TablesInv, Exists

LEMMA ConsentStep ==
  ASSUME SuggestionsInv, NEW u \in Users, AcceptAiConsent(u) \/ WithdrawAiConsent(u)
  PROVE  SuggestionsInv'
<1> DEFINE accepted == [name |-> "ai.consent_accepted", user |-> u,
                        payload |-> [version |-> Notice]]
           withdrawn == [name |-> "ai.consent_withdrawn", user |-> u, payload |-> <<>>]
<1>1. PICK event \in {accepted, withdrawn} : events' = events \cup {event}
  BY DEF AcceptAiConsent, WithdrawAiConsent, Emit
<1>2. event.name # "suggestion.reviewed"
  BY <1>1
<1>3. UNCHANGED <<requests, reviews, sections, rows, cache, audit>>
  BY DEF AcceptAiConsent, WithdrawAiConsent, Emit
<1> HIDE DEF accepted, withdrawn
<1>4. CacheInv' /\ EventsInv'
  BY <1>1, <1>2, <1>3 DEF SuggestionsInv, CacheInv, EventsInv, Told
<1>5. QED
  BY <1>3, <1>4, StillStep

LEMMA ChangeStep ==
  ASSUME SuggestionsInv, NEW s \in Sections, Change(s)
  PROVE  SuggestionsInv'
<1>1. UNCHANGED <<requests, reviews, cache, events, audit>>
  BY DEF Change, Silent
<1>2. CacheInv' /\ EventsInv'
  BY <1>1 DEF SuggestionsInv, CacheInv, EventsInv, Told
<1>3. PICK new \in [content : Contents, titles : Titles] \cup {Nothing} :
        sections' = [sections EXCEPT ![s] = new]
  BY DEF Change
<1>4. /\ sections' = [z \in Sections |-> sections'[z]]
      /\ \A z \in Sections : sections'[z] # Nothing =>
           sections'[z] \in [content : Contents, titles : Titles]
  BY <1>3 DEF SuggestionsInv, TablesInv, Exists
<1>5. /\ rows' = [r \in Requests |-> rows'[r]]
      /\ \A r \in Requests : rows'[r] = Nothing \/ rows'[r] = rows[r]
  BY DEF Change, SuggestionsInv, TablesInv
<1>6. QED
  BY <1>1, <1>2, <1>4, <1>5, QuietStep

LEMMA EvictStep ==
  ASSUME SuggestionsInv, Evict
  PROVE  SuggestionsInv'
<1>1. UNCHANGED <<requests, reviews, sections, rows, events, audit>>
  BY DEF Evict, Silent
<1>2. CacheInv' /\ EventsInv'
  BY <1>1 DEF Evict, SuggestionsInv, CacheInv, EventsInv, Told
<1>3. QED
  BY <1>1, <1>2, StillStep

\* The listener stores what the event says.
LEMMA ListenStep ==
  ASSUME SuggestionsInv, Listen
  PROVE  SuggestionsInv'
<1>1. PICK event \in events : Record(event) \/ Lose(event)
  BY DEF Listen
<1>2. UNCHANGED <<requests, reviews, sections, rows, cache>>
  BY DEF Listen
<1>3. events' \subseteq events /\ audit' \subseteq audit \cup {EntryOf(event)}
  BY <1>1 DEF Record, Lose, Save
<1>4. /\ EntryOf(event).action = event.name /\ EntryOf(event).user = event.user
      /\ EntryOf(event).metadata = event.payload
  BY DEF EntryOf
<1>5. EventsInv'
  <2>1. \A e \in events' : e.name = "suggestion.reviewed" => Told(e.user, e.payload)
    BY <1>3 DEF SuggestionsInv, EventsInv
  <2>2. \A entry \in audit' :
          entry.action = "suggestion.reviewed" => Told(entry.user, entry.metadata)
    BY <1>3, <1>4 DEF SuggestionsInv, EventsInv
  <2>3. QED
    BY <1>2, <2>1, <2>2 DEF EventsInv, Told
<1>6. CacheInv'
  BY <1>2 DEF SuggestionsInv, CacheInv
<1>7. QED
  BY <1>2, <1>5, <1>6, StillStep

-----------------------------------------------------------------------------
(* The theorems. *)

LEMMA SuggestionsInit == Init => SuggestionsInv
<1> SUFFICES ASSUME Init PROVE SuggestionsInv
  OBVIOUS
<1> DEFINE content == CHOOSE c \in Contents : TRUE
           titles == CHOOSE t \in Titles : TRUE
<1>1. content \in Contents /\ titles \in Titles
  <2>1. Contents # {}
    <3>1. PICK shown \in Shown, secret \in Secrets : TRUE
      BY SuggestionAssumption
    <3>2. [shown |-> shown, secret |-> secret] \in Contents
      BY DEF Contents
    <3>3. QED
      BY <3>2
  <2>2. Titles # {}
    BY SuggestionAssumption
  <2>3. QED
    BY <2>1, <2>2
<1>2. sections = [s \in Sections |-> [content |-> content, titles |-> titles]]
  BY DEF Init
<1> HIDE DEF content, titles
<1>3. /\ requests = [r \in Requests |-> Idle] /\ cache = <<>>
      /\ rows = [r \in Requests |-> Nothing]
      /\ reviews = [v \in Reviewers |-> [step |-> "idle"]]
      /\ events = {} /\ audit = {}
  BY DEF Init
<1>4. TablesInv
  BY <1>1, <1>2, <1>3, FixedRequests DEF TablesInv
<1>5. CacheInv
  BY <1>3 DEF CacheInv
<1>6. \A r \in Requests : RequestInv(requests[r]) /\ RowInv(r)
  BY <1>3, FixedRequests DEF RowInv
<1>7. (\A v \in Reviewers : ReviewInv(v)) /\ OneDecides
  <2>1. \A v \in Reviewers : reviews[v].step = "idle"
    BY <1>3
  <2>2. QED
    BY <2>1 DEF ReviewInv, OneDecides
<1>8. EventsInv
  BY <1>3 DEF EventsInv
<1>9. QED
  BY <1>4, <1>5, <1>6, <1>7, <1>8 DEF SuggestionsInv

LEMMA SuggestionsNext == SuggestionsInv /\ [Next]_vars => SuggestionsInv'
<1> SUFFICES ASSUME SuggestionsInv, [Next]_vars PROVE SuggestionsInv'
  OBVIOUS
<1>1. CASE UNCHANGED vars
  <2>1. CacheInv' /\ EventsInv'
    BY <1>1 DEF vars, SuggestionsInv, CacheInv, EventsInv, Told
  <2>2. QED
    BY <1>1, <2>1, StillStep DEF vars
<1>2. ASSUME NEW r \in Requests,
             \/ Ask(r) \/ LookUpPrompt(r) \/ ReadContext(r) \/ CacheHit(r)
             \/ CacheMiss(r) \/ Generated(r) \/ NotGenerated(r) \/ Insert(r)
      PROVE  SuggestionsInv'
  BY <1>2, AskStep, LookUpPromptStep, ReadContextStep, CacheHitStep, MissStep,
     GeneratedStep, InsertStep
<1>3. ASSUME NEW v \in Reviewers, BeginReview(v) \/ CheckReview(v) \/ Mark(v)
      PROVE  SuggestionsInv'
  BY <1>3, BeginReviewStep, CheckReviewStep, MarkStep
<1>4. QED
  BY <1>1, <1>2, <1>3, ConsentStep, ChangeStep, EvictStep, ListenStep DEF Next

LEMMA SuggestionsInvariance == Spec => []SuggestionsInv
BY SuggestionsInit, SuggestionsNext, PTL DEF Spec

\* Whatever edits, deletions, cache hits and concurrent requests there are, a
\* stored suggestion was written for the user, the prompt and the text its row
\* names (GenerateSuggestionUseCase.execute, suggestionCacheKey).
THEOREM SuggestionsFitTheirRows == Spec => []StoredForItsInput
<1>1. SuggestionsInv => StoredForItsInput
  <2> SUFFICES ASSUME SuggestionsInv PROVE StoredForItsInput
    OBVIOUS
  <2>1. ASSUME NEW r \in Requests, requests[r].step = "insert"
        PROVE  requests[r].text # Nothing
    <3>1. requests[r] \in RequestType /\ RequestInv(requests[r])
      BY DEF SuggestionsInv, TablesInv
    <3>2. TextFor(requests[r]) \in Texts
      BY <2>1, <3>1, TextType DEF RequestInv
    <3>3. QED
      BY <2>1, <3>1, <3>2, TextAssumption DEF RequestInv
  <2>2. \A r \in Requests :
          /\ requests[r].step \in RequestSteps
          /\ rows[r] # Nothing => rows[r].status \in Decisions \cup {"pending"}
    BY DEF SuggestionsInv, TablesInv, RequestType, RowInv, RowType
  <2>3. \A v \in Reviewers :
          reviews[v].step \in {"idle", "own", "mark", "reviewed", "refused"}
    BY DEF SuggestionsInv, ReviewInv
  <2>4. TypeOK
    BY <2>1, <2>2, <2>3 DEF SuggestionsInv, TablesInv, TypeOK, RequestSteps, Decisions
  <2>5. QED
    BY <2>4 DEF SuggestionsInv, RowInv, StoredForItsInput
<1>2. QED
  BY <1>1, SuggestionsInvariance, PTL

\* Of any number of concurrent reviews of a suggestion one at most succeeds,
\* its decision is the row's, and the audit log tells of nothing else
\* (markReviewed's WHERE status = 'pending').
THEOREM OneReviewDecides == Spec => []DecisionStands
<1>1. SuggestionsInv => DecisionStands
  <2> SUFFICES ASSUME SuggestionsInv PROVE DecisionStands
    OBVIOUS
  <2>1. ASSUME NEW v \in Reviewers, reviews[v].step = "reviewed"
        PROVE  /\ rows[reviews[v].row] # Nothing =>
                    /\ rows[reviews[v].row].status = reviews[v].decision
                    /\ reviews[v].user = Owner[rows[reviews[v].row].section]
               /\ \A w \in Reviewers \ {v} :
                    reviews[w].step = "reviewed" => reviews[w].row # reviews[v].row
    BY <2>1 DEF SuggestionsInv, ReviewInv, OneDecides
  <2>2. ASSUME NEW entry \in audit, entry.action = "suggestion.reviewed"
        PROVE  \E v \in Reviewers :
                 /\ reviews[v].step = "reviewed" /\ reviews[v].user = entry.user
                 /\ reviews[v].row = entry.metadata.suggestion
                 /\ reviews[v].decision = entry.metadata.decision
    BY <2>2 DEF SuggestionsInv, EventsInv, Told
  <2>3. QED
    BY <2>1, <2>2 DEF DecisionStands
<1>2. QED
  BY <1>1, SuggestionsInvariance, PTL
=============================================================================
