--------------------------- MODULE AiSuggestions ---------------------------
(***************************************************************************)
(* AI suggestions for the sections of documents: generating one            *)
(* (generate-suggestion.use-case.ts), with the response cache in front of  *)
(* the provider, and accepting or rejecting it                             *)
(* (review-suggestion.use-case.ts).  Of the gateway only what it promises  *)
(* is used: a call ends, with a reply or with a typed error (AiGateway).   *)
(*                                                                         *)
(* A section's text is a pair: what the model is shown, and what redaction *)
(* takes out of it.  A generated text is known by what the model was shown *)
(* when it wrote it.  The controller's guards are passed once: consent to  *)
(* the AI notice may be withdrawn while a request runs.  (That the caller  *)
(* is signed in and verified is the subject of Accounts.)                  *)
(***************************************************************************)
EXTENDS Naturals, AuditLog

CONSTANTS
  Users,      \* the users
  Requests,   \* the requests for a suggestion
  Sections,   \* the sections
  Owner,      \* the user who owns each section's document
  Shown,      \* texts as the model sees them
  Secrets,    \* what redaction removes
  Titles,     \* titles of the document and of the neighbouring sections
  Prompts,    \* prompts of user-invocable features, one per type and version
  Contextual, \* those whose templates use the light context
  Reviewers,  \* concurrent reviews
  Notices,    \* versions of the AI notice
  Notice,     \* AI_NOTICE_VERSION, the current one
  Nothing,    \* no value: a row, a text or a section that does not exist
  MaxEdits    \* bound: changes to sections and consents

ASSUME SuggestionAssumption ==
  /\ Owner \in [Sections -> Users]
  /\ Contextual \subseteq Prompts
  /\ Notice \in Notices
  /\ MaxEdits \in Nat
  /\ Shown # {} /\ Secrets # {} /\ Titles # {}

VARIABLES
  sections,  \* content and neighbouring titles of each section, or Nothing
  requests,  \* the requests under way
  cache,     \* Redis: texts by cache key
  rows,      \* ai_suggestions, one per request that stored one
  reviews,   \* the reviews under way
  consent,   \* the notice version each user consented to, or Nothing
  edits      \* changes to sections and consents so far

vars == <<sections, requests, cache, rows, reviews, consent, edits,
          events, audit>>

Contents == [shown : Shown, secret : Secrets]

\* Generated texts, each known by what it was written for.
Texts == [user : Users, prompt : Prompts, shown : Shown, titles : Titles \cup {Nothing}]

ASSUME TextAssumption == Nothing \notin Texts

\* prepareUntrustedText: the secrets are replaced, the rest stays.
Prepare(content) == content.shown

\* A cache key that leaves out who asks: users share answers.
Bug_CacheKey(req) ==
  <<req.prompt, Prepare(req.content), req.titles>>

\* suggestionCacheKey: everything the answer depends on, and the user.
CacheKey(req) ==
  <<req.user, req.prompt, Prepare(req.content), req.titles>>

\* What a generated text is known by.
TextFor(req) ==
  [user |-> req.user, prompt |-> req.prompt,
   shown |-> Prepare(req.content), titles |-> req.titles]

Idle ==
  [step |-> "idle", user |-> Nothing, section |-> Nothing,
   content |-> Nothing, prompt |-> Nothing, titles |-> Nothing,
   text |-> Nothing]

\* A request that was answered, with success or with an HTTP error.
Done == [Idle EXCEPT !.step = "done"]
Failed == [Idle EXCEPT !.step = "failed"]

\* Every section starts with the same text: which one does not matter, that
\* two users may hold the same does.
Init ==
  /\ sections = [s \in Sections |->
       [content |-> CHOOSE c \in Contents : TRUE,
        titles |-> CHOOSE t \in Titles : TRUE]]
  /\ requests = [r \in Requests |-> Idle]
  /\ cache = <<>>
  /\ rows = [r \in Requests |-> Nothing]
  /\ reviews = [v \in Reviewers |-> [step |-> "idle"]]
  /\ consent \in [Users -> Notices \cup {Nothing}]
  /\ edits = 0
  /\ events = {} /\ audit = {}

Exists(s) == sections[s] # Nothing

\* hasCurrentAiConsent, asked by AiConsentGuard.
Consents(u) == consent[u] = Notice

\* Request r moves on to a step; nothing else of the suggestions changes.
Advance(r, req) ==
  /\ requests' = [requests EXCEPT ![r] = req]
  /\ UNCHANGED <<sections, rows, reviews, consent, edits>> /\ Silent

\* POST /sections/:id/suggestions: the caller has consented (403 else), the
\* section is read and must be the caller's (assertSectionOwnedByUser, 404).
Ask(r) ==
  \E u \in Users, s \in Sections :
    /\ requests[r].step = "idle"
    /\ Advance(r, IF Consents(u) /\ Exists(s) /\ Owner[s] = u
                  THEN [Idle EXCEPT !.step = "prompt", !.user = u,
                                    !.section = s,
                                    !.content = sections[s].content]
                  ELSE Failed)
    /\ UNCHANGED cache

\* The active prompt; a text that is too long, no user-invocable prompt or no
\* provider key end the request.
LookUpPrompt(r) ==
  /\ requests[r].step = "prompt"
  /\ \/ \E p \in Prompts :
          Advance(r, [requests[r] EXCEPT !.prompt = p, !.step = "context"])
     \/ Advance(r, Failed)
  /\ UNCHANGED cache

\* lightContext, then rendering.  The titles are read after the content, and
\* only for a prompt that uses them; a section deleted since has none.  The
\* document and its sections are two queries, and here one: what they return is
\* only ever used together.
ReadContext(r) ==
  LET req == requests[r]
      titles == IF req.prompt \in Contextual /\ Exists(req.section)
                THEN sections[req.section].titles ELSE Nothing
  IN /\ req.step = "context"
     /\ Advance(r, [req EXCEPT !.titles = titles, !.step = "cache"])
     /\ UNCHANGED cache

\* A hit that still passes assertValidOutput is the answer.
CacheHit(r) ==
  LET req == requests[r] IN
  /\ req.step = "cache"
  /\ CacheKey(req) \in DOMAIN cache
  /\ Advance(r, [req EXCEPT !.text = cache[CacheKey(req)], !.step = "insert"])
  /\ UNCHANGED cache

\* A miss, an entry that no longer passes, or a Redis failure: the provider is
\* called with the templates rendered for this request.
CacheMiss(r) ==
  /\ requests[r].step = "cache"
  /\ Advance(r, [requests[r] EXCEPT !.step = "gateway"])
  /\ UNCHANGED cache

\* The gateway answered with JSON of the right shape and the text passed
\* assertValidOutput: it is cached, unless Redis fails, and goes on.
Generated(r) ==
  LET req == requests[r] IN
  /\ req.step = "gateway"
  /\ cache' \in {cache, [k \in DOMAIN cache \cup {CacheKey(req)} |->
                       IF k = CacheKey(req) THEN TextFor(req) ELSE cache[k]]}
  /\ Advance(r, [req EXCEPT !.text = TextFor(req), !.step = "insert"])

\* Every error of the gateway, and a reply of another shape or one that is
\* empty, too long or echoes the system prompt, is an HTTP error
\* (mapGenerationError).
NotGenerated(r) ==
  /\ requests[r].step = "gateway"
  /\ Advance(r, Failed)
  /\ UNCHANGED cache

\* The row is inserted; its foreign key refuses a section deleted meanwhile.
Insert(r) ==
  LET req == requests[r] IN
  /\ req.step = "insert"
  /\ requests' = [requests EXCEPT
       ![r] = IF Exists(req.section) THEN Done ELSE Failed]
  /\ rows' = IF Exists(req.section)
             THEN [rows EXCEPT ![r] =
                     [section |-> req.section, user |-> req.user,
                      original |-> req.content, prompt |-> req.prompt,
                      titles |-> req.titles, text |-> req.text,
                      status |-> "pending"]]
             ELSE rows
  /\ UNCHANGED <<sections, cache, reviews, consent, edits>> /\ Silent

\* PATCH /suggestions/:id: the row as it is now.
BeginReview(v) ==
  \E r \in Requests, u \in Users, d \in {"accepted", "rejected"} :
    /\ reviews[v].step = "idle"
    /\ rows[r] # Nothing
    /\ reviews' = [reviews EXCEPT ![v] =
         [step |-> "own", row |-> r, user |-> u, decision |-> d,
          section |-> rows[r].section, pending |-> rows[r].status = "pending"]]
    /\ UNCHANGED <<sections, requests, cache, rows, consent, edits>> /\ Silent

\* The section is the caller's (404 else) and the row was pending (409 else).
CheckReview(v) ==
  LET w == reviews[v] IN
  /\ w.step = "own"
  /\ reviews' = [reviews EXCEPT
       ![v] = IF Exists(w.section) /\ Owner[w.section] = w.user /\ w.pending
              THEN [step |-> "mark", row |-> w.row, user |-> w.user,
                    decision |-> w.decision]
              ELSE [step |-> "refused"]]
  /\ UNCHANGED <<sections, requests, cache, rows, consent, edits>> /\ Silent

\* The row is updated whatever its status: the check made before is relied on.
Bug_MarkReviewed(row, decision) ==
  IF row = Nothing THEN row ELSE [row EXCEPT !.status = decision]

\* markReviewed: UPDATE ... WHERE status = 'pending'.
MarkReviewed(row, decision) ==
  IF row = Nothing \/ row.status # "pending"
  THEN row
  ELSE [row EXCEPT !.status = decision]

\* The conditional update decides; losing it is a 409, winning it emits the
\* event and answers with the row.
Mark(v) ==
  LET w == reviews[v]
      after == MarkReviewed(rows[w.row], w.decision)
  IN /\ w.step = "mark"
     /\ rows' = [rows EXCEPT ![w.row] = after]
     /\ \/ /\ after # rows[w.row]
           /\ reviews' = [reviews EXCEPT ![v].step = "reviewed"]
           /\ Emit([name |-> "suggestion.reviewed", user |-> w.user,
                    payload |-> [suggestion |-> w.row,
                                 decision |-> w.decision]])
        \/ /\ after = rows[w.row]
           /\ reviews' = [reviews EXCEPT ![v] = [step |-> "refused"]]
           /\ Silent
     /\ UNCHANGED <<sections, requests, cache, consent, edits>>

\* POST /users/me/ai-consent with the current version; another one is a 409
\* and changes nothing.
AcceptAiConsent(u) ==
  /\ edits < MaxEdits
  /\ consent' = [consent EXCEPT ![u] = Notice]
  /\ edits' = edits + 1
  /\ Emit([name |-> "ai.consent_accepted", user |-> u,
           payload |-> [version |-> Notice]])
  /\ UNCHANGED <<sections, requests, cache, rows, reviews>>

\* DELETE /users/me/ai-consent, as often as one likes.
WithdrawAiConsent(u) ==
  /\ edits < MaxEdits
  /\ consent' = [consent EXCEPT ![u] = Nothing]
  /\ edits' = edits + 1
  /\ Emit([name |-> "ai.consent_withdrawn", user |-> u, payload |-> <<>>])
  /\ UNCHANGED <<sections, requests, cache, rows, reviews>>

\* The user edits the text, or titles around it, or deletes the section, and
\* the suggestions of a deleted section go with it.
Change(s) ==
  /\ edits < MaxEdits
  /\ Exists(s)
  /\ edits' = edits + 1
  /\ \/ /\ \E c \in Contents, t \in Titles :
             sections' = [sections EXCEPT ![s] = [content |-> c, titles |-> t]]
        /\ UNCHANGED rows
     \/ /\ sections' = [sections EXCEPT ![s] = Nothing]
        /\ rows' = [r \in Requests |->
             IF rows[r] # Nothing /\ rows[r].section = s THEN Nothing ELSE rows[r]]
  /\ UNCHANGED <<requests, cache, reviews, consent>> /\ Silent

\* An entry of the cache reaches its TTL.
Evict ==
  \E key \in DOMAIN cache :
    /\ cache' = [k \in DOMAIN cache \ {key} |-> cache[k]]
    /\ UNCHANGED <<sections, requests, rows, reviews, consent, edits>>
    /\ Silent

\* AuditListener, some time after the event.
Listen ==
  /\ \E event \in events : Record(event) \/ Lose(event)
  /\ UNCHANGED <<sections, requests, cache, rows, reviews, consent, edits>>

Next ==
  \/ \E r \in Requests :
       \/ Ask(r) \/ LookUpPrompt(r) \/ ReadContext(r) \/ CacheHit(r)
       \/ CacheMiss(r) \/ Generated(r) \/ NotGenerated(r) \/ Insert(r)
  \/ \E v \in Reviewers : BeginReview(v) \/ CheckReview(v) \/ Mark(v)
  \/ \E s \in Sections : Change(s)
  \/ \E u \in Users : AcceptAiConsent(u) \/ WithdrawAiConsent(u)
  \/ Evict
  \/ Listen

Spec == Init /\ [][Next]_vars

-----------------------------------------------------------------------------

\* Types, as far as they are not plain from the actions: sections, steps of
\* requests and reviews, status of a row.
TypeOK ==
  /\ \A s \in Sections : Exists(s) =>
       sections[s] \in [content : Contents, titles : Titles]
  /\ \A r \in Requests :
       /\ requests[r].step \in
            {"idle", "prompt", "context", "cache", "gateway", "insert",
             "done", "failed"}
       /\ requests[r].step = "insert" => requests[r].text # Nothing
       /\ rows[r] # Nothing =>
            rows[r].status \in {"pending", "accepted", "rejected"}
  /\ \A v \in Reviewers :
       reviews[v].step \in {"idle", "own", "mark", "reviewed", "refused"}

\* In a well-typed state, a stored suggestion was written for what its row
\* says: for that user, under that prompt version, from the redacted form of
\* exactly the text kept as original and the titles read for this request,
\* whether it came from the model or from an earlier request's cache entry,
\* and however the section was edited while the request ran
\* (GenerateSuggestionUseCase.execute, suggestionCacheKey).
StoredForItsInput ==
  /\ TypeOK
  /\ \A r \in Requests : rows[r] # Nothing =>
       rows[r].text = [user |-> rows[r].user, prompt |-> rows[r].prompt,
                       shown |-> Prepare(rows[r].original),
                       titles |-> rows[r].titles]

\* A review that was answered with success decided the suggestion, and is the
\* only one that did: its decision is the row's for as long as the row exists,
\* and the audit log tells of no other, nor of one by anybody but the owner of
\* the section (ReviewSuggestionUseCase, markReviewed, AuditListener).
DecisionStands ==
  /\ \A v \in Reviewers : reviews[v].step = "reviewed" =>
       LET row == rows[reviews[v].row] IN
       /\ row # Nothing => row.status = reviews[v].decision
       /\ \A w \in Reviewers \ {v} :
            reviews[w].step = "reviewed" => reviews[w].row # reviews[v].row
  /\ \A entry \in audit : entry.action = "suggestion.reviewed" =>
       LET told == entry.metadata
           row == rows[told.suggestion]
       IN /\ row # Nothing =>
               /\ row.status = told.decision
               /\ entry.user = Owner[row.section]
          /\ \E v \in Reviewers :
               /\ reviews[v].step = "reviewed"
               /\ reviews[v].row = told.suggestion
               /\ reviews[v].decision = told.decision
=============================================================================
