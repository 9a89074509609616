------------------------------- MODULE Leads -------------------------------
(***************************************************************************)
(* Lead scoring: onboarding answers, paywall signals and connector status  *)
(* are facts about a user; every change of one is followed by a            *)
(* recalculation that reads them all and stores a score, unless a run that *)
(* started later has stored one (recalculate-lead-score.use-case.ts).      *)
(* Administrators read the scores as a paged list and as statistics.       *)
(*                                                                         *)
(* The clock counts ticks; due dates are ticks too, and Near and Far stand *)
(* for three and six calendar months.  Several requests may start within   *)
(* one tick, as they may within one millisecond.                           *)
(***************************************************************************)
EXTENDS Integers, FiniteSets, Sequences

CONSTANTS
  Users,     \* the users, none of them disabled; numbers, as ids are ordered
  Admins,    \* those with the admin role: never leads
  Runs,      \* requests and event handlers, one operation each
  Forms,     \* onboarding answers: persona, trello, due, optIn
  Near, Far, \* due within three, within six months
  MaxLimit,  \* MAX_LEADS_LIMIT
  MaxPage,   \* MAX_LEADS_PAGE
  MaxTime,   \* bound: the last tick
  None       \* no profile, no score

ASSUME LeadAssumption ==
  /\ Admins \subseteq Users /\ Users \subseteq Int /\ IsFiniteSet(Users)
  /\ Near \in Nat /\ Far \in Nat /\ Near <= Far /\ MaxTime \in Nat
  /\ MaxLimit \in Nat \ {0} /\ MaxPage \in Nat \ {0}
  /\ \A form \in Forms :
       form.trello \in BOOLEAN /\ form.due \in Int /\ form.optIn \in BOOLEAN

VARIABLES
  profiles,   \* onboarding_profiles: the stored answers, or None
  connected,  \* whether a user has an active connector
  paywall,    \* lead_signals: occurrences of the paywall signal
  scores,     \* lead_scores, or None
  runs,       \* the operations under way
  lastChange, \* history: when a scored fact of the user last changed
  failed,     \* history: users for whom a recalculation failed
  now         \* the clock

vars == <<profiles, connected, paywall, scores, runs, lastChange, failed, now>>
facts == <<profiles, connected, paywall, lastChange>>

Init ==
  /\ profiles = [u \in Users |-> None]
  /\ connected = [u \in Users |-> FALSE]
  /\ paywall = [u \in Users |-> 0]
  /\ scores = [u \in Users |-> None]
  /\ runs = [r \in Runs |-> [step |-> "idle"]]
  /\ lastChange = [u \in Users |-> 0]
  /\ failed = {}
  /\ now = 0

-----------------------------------------------------------------------------
(* The score: computeLeadScore. *)

DuePoints(due, today) ==
  CASE due < today -> 0
    [] due >= today /\ due < today + Near -> 3
    [] due >= today + Near /\ due <= today + Far -> 2
    [] OTHER -> 0

PersonaPoints(persona) ==
  CASE persona = "apprentice" -> 2 [] persona = "intern" -> 1 [] OTHER -> 0

ProfilePoints(profile, today) ==
  IF profile = None THEN 0
  ELSE DuePoints(profile.due, today) + PersonaPoints(profile.persona)
       + (IF profile.trello THEN 2 ELSE 0)

ComputeLeadScore(profile, active, signals, today) ==
  ProfilePoints(profile, today)
    + (IF active THEN 3 ELSE 0) + (IF signals > 0 THEN 3 ELSE 0)

Tiers == {"hot", "warm", "cold"}

TierForScore(score) ==
  IF score >= 8 THEN "hot" ELSE IF score >= 4 THEN "warm" ELSE "cold"

\* A row of onboarding_profiles: the answers, and since when the consent stands.
Profiles ==
  [persona : {form.persona : form \in Forms}, trello : BOOLEAN,
   due : {form.due : form \in Forms}, optIn : BOOLEAN, since : 0..now]

\* A row of lead_scores.
Scores ==
  {s \in [score : 0..13, tier : Tiers, at : 0..now] : s.tier = TierForScore(s.score)}

ASSUME NoneAssumption ==
  /\ None \notin [score : Nat, tier : Tiers, at : Nat]
  /\ None \notin Int /\ None \notin BOOLEAN /\ None \notin Tiers
  /\ None \notin [persona : {form.persona : form \in Forms}, trello : BOOLEAN,
                  due : Int, optIn : BOOLEAN, since : Nat]

-----------------------------------------------------------------------------
(* Operations. *)

\* Run r is about to recalculate the score of u.
Recalculate(r, u) == runs' = [runs EXCEPT ![r] = [step |-> "start", user |-> u]]

Touched(u) == lastChange' = [lastChange EXCEPT ![u] = now]

\* The stored due date may be kept, any other must not be before yesterday.
DueDateAccepted(existing, due) ==
  (existing # None /\ existing.due = due) \/ due + 1 >= now

\* PUT /onboarding/me, after its read of the stored answers.
Submit(r) ==
  \E u \in Users, form \in Forms :
    /\ runs[r].step = "idle"
    /\ DueDateAccepted(profiles[u], form.due)
    /\ runs' = [runs EXCEPT ![r] =
         [step |-> "upsert", user |-> u, form |-> form, at |-> now]]
    /\ UNCHANGED <<facts, scores, failed, now>>

\* The upsert: every answer is replaced; the consent's date moves only with the
\* first answers or with the choice.
Upsert(r) ==
  LET x == runs[r]
      old == profiles[x.user]
      since == IF old = None \/ old.optIn # x.form.optIn THEN x.at ELSE old.since
  IN /\ x.step = "upsert"
     /\ profiles' = [profiles EXCEPT ![x.user] =
          [persona |-> x.form.persona, trello |-> x.form.trello,
           due |-> x.form.due, optIn |-> x.form.optIn, since |-> since]]
     /\ Touched(x.user)
     /\ Recalculate(r, x.user)
     /\ UNCHANGED <<connected, paywall, scores, failed, now>>

\* PUT /onboarding/me/consent: 409 without a profile; no recalculation.
UpdateConsent(r) ==
  \E u \in Users, optIn \in BOOLEAN :
    /\ runs[r].step = "idle"
    /\ profiles[u] # None
    /\ profiles' = [profiles EXCEPT
         ![u].optIn = optIn,
         ![u].since = IF profiles[u].optIn # optIn THEN now ELSE @]
    /\ runs' = [runs EXCEPT ![r] = [step |-> "done"]]
    /\ UNCHANGED <<connected, paywall, lastChange, scores, failed, now>>

\* POST /lead-signals: an administrator's call stores nothing.
RecordLeadSignal(r) ==
  \E u \in Users :
    /\ runs[r].step = "idle"
    /\ IF u \in Admins
       THEN runs' = [runs EXCEPT ![r] = [step |-> "done"]] /\ UNCHANGED facts
       ELSE /\ paywall' = [paywall EXCEPT ![u] = @ + 1]
            /\ Touched(u)
            /\ Recalculate(r, u)
            /\ UNCHANGED <<profiles, connected>>
    /\ UNCHANGED <<scores, failed, now>>

\* A connector becomes active or stops being so; its event reaches the listener.
ConnectorChanges(r) ==
  \E u \in Users :
    /\ runs[r].step = "idle"
    /\ connected' = [connected EXCEPT ![u] = ~@]
    /\ Touched(u)
    /\ Recalculate(r, u)
    /\ UNCHANGED <<profiles, paywall, scores, failed, now>>

\* RecalculateLeadScoreUseCase.execute: computedAt is taken before the reads.
Start(r) ==
  /\ runs[r].step = "start"
  /\ runs' = [runs EXCEPT ![r] =
       [step |-> "read", user |-> runs[r].user, at |-> now, got |-> <<>>]]
  /\ UNCHANGED <<facts, scores, failed, now>>

\* The three reads run in parallel, in any order.
Read(r) ==
  \E what \in {"profile", "active", "signals"} :
    LET x == runs[r] IN
    /\ x.step = "read"
    /\ what \notin DOMAIN x.got
    /\ runs' = [runs EXCEPT ![r].got =
         [w \in DOMAIN x.got \cup {what} |->
            IF w \in DOMAIN x.got THEN x.got[w]
            ELSE CASE what = "profile" -> profiles[x.user]
                   [] what = "active" -> connected[x.user]
                   [] what = "signals" -> paywall[x.user]]]
    /\ UNCHANGED <<facts, scores, failed, now>>

\* Whoever saves last wins.
Bug_Newer(stored, at) == TRUE

\* The WHERE of saveIfNewer's conflict branch.
Newer(stored, at) == stored = None \/ stored.at <= at

\* saveIfNewer.
Save(r) ==
  LET x == runs[r]
      points == ComputeLeadScore(x.got.profile, x.got.active, x.got.signals, x.at)
  IN /\ x.step = "read"
     /\ DOMAIN x.got = {"profile", "active", "signals"}
     /\ scores' = IF Newer(scores[x.user], x.at)
                  THEN [scores EXCEPT ![x.user] =
                          [score |-> points, tier |-> TierForScore(points),
                           at |-> x.at]]
                  ELSE scores
     /\ runs' = [runs EXCEPT ![r] = [step |-> "done"]]
     /\ UNCHANGED <<facts, failed, now>>

\* A read or the write fails: the listener swallows it, a request answers 500.
\* The change of the fact stands.
Fail(r) ==
  /\ runs[r].step \in {"start", "read"}
  /\ failed' = failed \cup {runs[r].user}
  /\ runs' = [runs EXCEPT ![r] = [step |-> "done"]]
  /\ UNCHANGED <<facts, scores, now>>

Tick ==
  /\ now < MaxTime
  /\ now' = now + 1
  /\ UNCHANGED <<facts, scores, runs, failed>>

Next ==
  \/ \E r \in Runs :
       \/ Submit(r) \/ Upsert(r) \/ UpdateConsent(r) \/ RecordLeadSignal(r)
       \/ ConnectorChanges(r) \/ Start(r) \/ Read(r) \/ Save(r) \/ Fail(r)
  \/ Tick

Spec == Init /\ [][Next]_vars

-----------------------------------------------------------------------------
(* What administrators see. *)

\* suggestedAction: nothing without consent, else by tier.
SuggestedAction(tier, optIn) ==
  IF ~optIn THEN "no_outreach"
  ELSE CASE tier = "hot" -> "interview_and_pro_offer"
         [] tier = "warm" -> "scheduled_emails"
         [] tier = "cold" -> "newsletter"

\* The rows of the leads query: users who are not administrators; a missing
\* score reads as 0 and cold.
LeadRow(u) ==
  LET tier == IF scores[u] = None THEN "cold" ELSE scores[u].tier
      optIn == profiles[u] # None /\ profiles[u].optIn
  IN [user |-> u,
      score |-> IF scores[u] = None THEN 0 ELSE scores[u].score,
      tier |-> tier,
      onboarded |-> profiles[u] # None,
      optIn |-> optIn,
      connected |-> connected[u],
      paywall |-> paywall[u] > 0,
      due |-> IF profiles[u] = None THEN None ELSE profiles[u].due,
      action |-> SuggestedAction(tier, optIn)]

LeadRows == {LeadRow(u) : u \in Users \ Admins}

\* ORDER BY score, due dates not yet passed first, the soonest first, then id.
Ahead(a, b) ==
  \/ a.score > b.score
  \/ a.score = b.score /\ a.due # None /\ b.due = None
  \/ /\ a.score = b.score /\ a.due # None /\ b.due # None
     /\ \/ a.due >= now /\ b.due < now
        \/ (a.due >= now <=> b.due >= now) /\ a.due < b.due
        \/ a.due = b.due /\ a.user < b.user
  \/ a.score = b.score /\ a.due = None /\ b.due = None /\ a.user < b.user

\* The query's WHERE: a criterion that is not given selects everything.
Matches(filter, row) ==
  /\ filter.tier # None => row.tier = filter.tier
  /\ filter.onboarded # None => row.onboarded = filter.onboarded
  /\ filter.optIn # None => row.optIn = filter.optIn

Clamp(value, min, max) == IF value < min THEN min ELSE IF value > max THEN max ELSE value

\* The rows, in that order.
Ordered(rows) ==
  LET n == Cardinality(rows) IN
  CHOOSE list \in [1 .. n -> rows] : \A j, k \in 1 .. n : j < k => Ahead(list[j], list[k])

\* Pages counted from 0.
Bug_ListLeads(filter, page, limit) ==
  LET all == Ordered({row \in LeadRows : Matches(filter, row)})
      skip == page * limit
  IN [items |-> SubSeq(all, skip + 1,
                       IF skip + limit < Len(all) THEN skip + limit ELSE Len(all)),
      total |-> Len(all)]

\* One page of the list, page and limit clamped, and the size of the whole: two
\* queries, here of one state.
ListLeads(filter, page, limit) ==
  LET size == Clamp(limit, 1, MaxLimit)
      skip == (Clamp(page, 1, MaxPage) - 1) * size
      all == Ordered({row \in LeadRows : Matches(filter, row)})
  IN [items |-> SubSeq(all, skip + 1,
                       IF skip + size < Len(all) THEN skip + size ELSE Len(all)),
      total |-> Len(all)]

\* The detail of one lead: 404 for everyone who is not a lead.
GetLead(u) ==
  LET found == {row \in LeadRows : row.user = u} IN
  IF found = {} THEN None
  ELSE [lead |-> CHOOSE row \in found : TRUE, onboarding |-> profiles[u],
        connected |-> connected[u], signals |-> paywall[u]]

\* computeLeadStats: leads counted by tier, suggested action and answer.
LeadStats ==
  [total |-> Cardinality(LeadRows),
   tiers |-> [t \in Tiers |-> Cardinality({row \in LeadRows : row.tier = t})],
   noOutreach |-> Cardinality({row \in LeadRows : row.action = "no_outreach"}),
   completed |-> Cardinality({row \in LeadRows : row.onboarded}),
   notStarted |-> Cardinality({row \in LeadRows : ~row.onboarded}),
   optIn |-> Cardinality({row \in LeadRows : row.optIn}),
   connected |-> Cardinality({row \in LeadRows : row.connected}),
   paywall |-> Cardinality({row \in LeadRows : row.paywall})]

-----------------------------------------------------------------------------

\* Types: a stored score carries the tier of its points and a past time.
TypeOK ==
  /\ paywall \in [Users -> Nat] /\ connected \in [Users -> BOOLEAN]
  /\ \A u \in Users :
       /\ scores[u] # None => scores[u] \in Scores
       /\ profiles[u] # None => profiles[u] \in Profiles
  /\ now \in 0..MaxTime

\* In a well-typed state, when every recalculation for a user has ended and
\* none failed, the score is that of the facts as they are, whatever the order
\* in which overlapping runs read and stored: it was computed no earlier than
\* the last change, and if it was computed later than that it counts every
\* fact (saveIfNewer, computedAt taken before the reads).
ScoreCatchesUp ==
  /\ TypeOK
  /\ \A u \in Users :
       /\ u \notin failed
       /\ \A r \in Runs : runs[r].step \in {"idle", "done"}
       /\ profiles[u] # None \/ connected[u] \/ paywall[u] > 0
       => /\ scores[u] # None
          /\ scores[u].at >= lastChange[u]
          /\ scores[u].at > lastChange[u] =>
               scores[u].score = ComputeLeadScore(profiles[u], connected[u],
                                                  paywall[u], scores[u].at)

\* The filters an administrator tries: none, or one criterion.
Unfiltered == [tier |-> None, onboarded |-> None, optIn |-> None]
Filters ==
  {Unfiltered} \cup {[Unfiltered EXCEPT !.tier = t] : t \in Tiers}
    \cup {[Unfiltered EXCEPT !.onboarded = b] : b \in BOOLEAN}
    \cup {[Unfiltered EXCEPT !.optIn = b] : b \in BOOLEAN}

\* What the pages of the list show, taken one after the other in one state:
\* page by page, from the top.
Shown(filter, limit) ==
  UNION {LET items == ListLeads(filter, n, limit).items IN
           {[page |-> n, place |-> k, row |-> items[k]] : k \in DOMAIN items} :
         n \in 1 .. MaxPage}

\* Whatever the size of a page, the pages show every lead the filter selects
\* once and nobody else, as long as there are pages enough, better scores first;
\* a page past either end is the first or the last (LeadReadTypeOrmRepository.list).
PagesRight(filter, limit) ==
  LET shown == Shown(filter, limit)
      selected == {row \in LeadRows : Matches(filter, row)}
      Page(n) == ListLeads(filter, n, limit)
  IN /\ Page(1).total = Cardinality(selected)
     /\ Page(0) = Page(1) /\ Page(MaxPage + 1) = Page(MaxPage)
     /\ Cardinality(selected) <= MaxPage * limit => {x.row : x \in shown} = selected
     /\ \A x \in shown : x.row \in selected /\ x.place <= limit
     /\ \A x, y \in shown :
          x.page < y.page \/ (x.page = y.page /\ x.place < y.place) =>
            x.row.user # y.row.user /\ x.row.score >= y.row.score

\* The pages are right for every filter and size; nobody who has not agreed is
\* suggested for outreach, a lead's detail is that of the list, nobody else has
\* one, and the statistics count what the filtered lists show
\* (LeadReadTypeOrmRepository.list, suggestedAction, computeLeadStats).
PagesCoverLeads ==
  LET Total(filter) == ListLeads(filter, 1, 1).total IN
  /\ \A filter \in Filters, limit \in 1 .. MaxLimit : PagesRight(filter, limit)
  /\ \A row \in LeadRows :
       /\ row = GetLead(row.user).lead
       /\ row.action # "no_outreach" =>
            profiles[row.user] # None /\ profiles[row.user].optIn
  /\ Total(Unfiltered) = Cardinality(Users \ Admins)
  /\ \A u \in Admins : GetLead(u) = None
  /\ \A t \in Tiers : LeadStats.tiers[t] = Total([Unfiltered EXCEPT !.tier = t])
  /\ LeadStats.optIn = Total([Unfiltered EXCEPT !.optIn = TRUE])
  /\ LeadStats.noOutreach + LeadStats.optIn = LeadStats.total
  /\ LeadStats.notStarted = Total([Unfiltered EXCEPT !.onboarded = FALSE])
=============================================================================
