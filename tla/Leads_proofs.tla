----------------------------- MODULE Leads_proofs -----------------------------
(***************************************************************************)
(* The score catches up, for any users, forms, clock and any number of     *)
(* recalculations that overlap; and the pages of the list cover the leads, *)
(* for any filter, any size of a page and any number of pages.             *)
(*                                                                         *)
(* A score or a reading that was begun after the last change of a fact     *)
(* agrees with the facts as they are; one begun earlier, or within the     *)
(* same tick, promises nothing.  And unless a recalculation failed, one    *)
(* that began no earlier than the last change has stored its score or is   *)
(* still to do so: it cannot be shut out but by one that began later.      *)
(*                                                                         *)
(* The list has an order because Ahead is a strict order of the leads, in  *)
(* which the place of a row is the number of the rows ahead of it; a page  *)
(* is a stretch of that list, and the place i of the list is on the page   *)
(* (i - 1) \div limit + 1.                                                 *)
(***************************************************************************)
EXTENDS Leads, FiniteSetTheorems, SequenceTheorems, TLAPS

ProfileRows ==
  [persona : {form.persona : form \in Forms}, trello : BOOLEAN,
   due : Int, optIn : BOOLEAN, since : Nat]
ScoreRows == [score : Nat, tier : Tiers, at : Nat]

Readings == {"profile", "active", "signals"}

\* What an operation holds at each step.
RunInv(r) ==
  /\ runs[r].step \in {"idle", "upsert", "start", "read", "done"}
  /\ runs[r].step = "upsert" =>
       runs[r].user \in Users /\ runs[r].form \in Forms /\ runs[r].at \in 0 .. now
  /\ runs[r].step = "start" => runs[r].user \in Users
  /\ runs[r].step = "read" =>
       /\ DOMAIN runs[r] = {"step", "user", "at", "got"}
       /\ runs[r].user \in Users /\ runs[r].at \in 0 .. now
       /\ DOMAIN runs[r].got \subseteq Readings

\* What was read has its type, and if the run began after the last change it is
\* still so, as far as it counts.
ReadInv(r) ==
  runs[r].step = "read" =>
    LET got == runs[r].got
        u == runs[r].user
    IN /\ "profile" \in DOMAIN got =>
            /\ got["profile"] # None => got["profile"] \in ProfileRows
            /\ runs[r].at > lastChange[u] =>
                 ProfilePoints(got["profile"], runs[r].at) = ProfilePoints(profiles[u], runs[r].at)
       /\ "active" \in DOMAIN got /\ runs[r].at > lastChange[u] =>
            got["active"] = connected[u]
       /\ "signals" \in DOMAIN got =>
            /\ got["signals"] \in Nat
            /\ runs[r].at > lastChange[u] => got["signals"] = paywall[u]

\* A score that was begun after the last change is that of the facts.
ScoreInv(u) ==
  scores[u] # None =>
    /\ scores[u] \in Scores
    /\ scores[u].at > lastChange[u] =>
         scores[u].score = ComputeLeadScore(profiles[u], connected[u], paywall[u],
                                            scores[u].at)

\* Some fact of the user counts.
Scored(u) == profiles[u] # None \/ connected[u] \/ paywall[u] > 0

\* Run r will store a score of u that is recent enough, if it does not fail.
Pending(r, u) ==
  \/ runs[r].step = "start" /\ runs[r].user = u
  \/ runs[r].step = "read" /\ runs[r].user = u /\ runs[r].at >= lastChange[u]

Stored(u) == scores[u] # None /\ scores[u].at >= lastChange[u]

FreshInv(u) ==
  u \notin failed /\ Scored(u) => Stored(u) \/ \E r \in Runs : Pending(r, u)

StateInv ==
  /\ now \in 0 .. MaxTime
  /\ lastChange \in [Users -> 0 .. now]
  /\ paywall \in [Users -> Nat] /\ connected \in [Users -> BOOLEAN]
  /\ DOMAIN profiles = Users /\ DOMAIN scores = Users /\ DOMAIN runs = Runs
  /\ \A u \in Users : profiles[u] # None => profiles[u] \in Profiles

LeadsInv ==
  /\ StateInv
  /\ \A r \in Runs : RunInv(r) /\ ReadInv(r)
  /\ \A u \in Users : ScoreInv(u) /\ FreshInv(u)

-----------------------------------------------------------------------------
(* The score. *)

\* Every rule gives at most its points.
LEMMA PointsBounded ==
  ASSUME NEW profile, profile # None => profile \in ProfileRows, NEW today \in Nat
  PROVE  ProfilePoints(profile, today) \in 0 .. 7
<1>1. CASE profile = None
  BY <1>1 DEF ProfilePoints
<1>2. CASE profile # None
  <2>1. profile.due \in Int /\ profile.trello \in BOOLEAN
    BY <1>2 DEF ProfileRows
  <2>2. DuePoints(profile.due, today) \in 0 .. 3
    BY <2>1, LeadAssumption DEF DuePoints
  <2>3. PersonaPoints(profile.persona) \in 0 .. 2
    BY DEF PersonaPoints
  <2>4. (IF profile.trello THEN 2 ELSE 0) \in 0 .. 2
    OBVIOUS
  <2> QED BY <1>2, <2>2, <2>3, <2>4 DEF ProfilePoints
<1> QED BY <1>1, <1>2

\* The score of any facts fits its row, with its tier.
LEMMA ScoreBounded ==
  ASSUME NEW profile, profile # None => profile \in ProfileRows,
         NEW active, NEW signals, NEW today \in Nat
  PROVE  LET points == ComputeLeadScore(profile, active, signals, today)
         IN  points \in 0 .. 13 /\ TierForScore(points) \in Tiers
<1>1. ProfilePoints(profile, today) \in 0 .. 7
  BY PointsBounded
<1>2. (IF active THEN 3 ELSE 0) \in 0 .. 3 /\ (IF signals > 0 THEN 3 ELSE 0) \in 0 .. 3
  OBVIOUS
<1> QED BY <1>1, <1>2 DEF ComputeLeadScore, TierForScore, Tiers

\* Stored profiles are rows.
LEMMA ProfilesAreRows ==
  ASSUME StateInv
  PROVE  Profiles \subseteq ProfileRows
<1>1. 0 .. now \subseteq Nat /\ {form.due : form \in Forms} \subseteq Int
  BY LeadAssumption DEF StateInv
<1> QED BY <1>1 DEF Profiles, ProfileRows

-----------------------------------------------------------------------------
(* The steps of the operations. *)

LEMMA InitHolds == Init => LeadsInv
<1> SUFFICES ASSUME Init PROVE LeadsInv
  OBVIOUS
<1>1. StateInv
  BY LeadAssumption DEF Init, StateInv
<1>2. \A r \in Runs : RunInv(r) /\ ReadInv(r)
  BY DEF Init, RunInv, ReadInv
<1>3. \A u \in Users : ScoreInv(u) /\ FreshInv(u)
  BY DEF Init, ScoreInv, FreshInv, Scored
<1> QED BY <1>1, <1>2, <1>3 DEF LeadsInv

\* An operation moves on and changes nothing but its own state, giving up no
\* score it was to store.
LEMMA RunMoves ==
  ASSUME LeadsInv, NEW r \in Runs, NEW x, runs' = [runs EXCEPT ![r] = x],
         UNCHANGED <<facts, scores, failed, now>>,
         RunInv(r)', ReadInv(r)',
         \A u \in Users : Pending(r, u) => Pending(r, u)'
  PROVE  LeadsInv'
<1>1. \A q \in Runs : q # r => runs'[q] = runs[q]
  BY DEF LeadsInv, StateInv
<1>2. StateInv'
  BY DEF LeadsInv, StateInv, facts, Profiles
<1>3. ASSUME NEW q \in Runs, q # r PROVE RunInv(q)' /\ ReadInv(q)'
  BY <1>1, <1>3 DEF LeadsInv, RunInv, ReadInv, facts
<1>4. ASSUME NEW u \in Users PROVE ScoreInv(u)' /\ FreshInv(u)'
  <2>1. ScoreInv(u)'
    BY DEF LeadsInv, ScoreInv, facts, Scores
  <2>2. ASSUME NEW q \in Runs, Pending(q, u) PROVE Pending(q, u)'
    BY <1>1, <2>2 DEF Pending, facts
  <2>3. FreshInv(u)'
    BY <2>2 DEF LeadsInv, FreshInv, Scored, Stored, facts
  <2> QED BY <2>1, <2>3
<1> QED BY <1>2, <1>3, <1>4 DEF LeadsInv

LEMMA SubmitHolds == ASSUME LeadsInv, NEW r \in Runs, Submit(r) PROVE LeadsInv'
<1>1. PICK u \in Users, form \in Forms :
        /\ runs[r].step = "idle"
        /\ runs' = [runs EXCEPT ![r] =
             [step |-> "upsert", user |-> u, form |-> form, at |-> now]]
        /\ UNCHANGED <<facts, scores, failed, now>>
  BY DEF Submit
<1>2. runs'[r] = [step |-> "upsert", user |-> u, form |-> form, at |-> now]
  BY <1>1 DEF LeadsInv, StateInv
<1>3. RunInv(r)' /\ ReadInv(r)'
  BY <1>1, <1>2 DEF RunInv, ReadInv, LeadsInv, StateInv
<1>4. \A v \in Users : ~Pending(r, v)
  BY <1>1 DEF Pending
<1> QED BY <1>1, <1>3, <1>4, RunMoves

LEMMA StartHolds == ASSUME LeadsInv, NEW r \in Runs, Start(r) PROVE LeadsInv'
<1> DEFINE x == [step |-> "read", user |-> runs[r].user, at |-> now, got |-> <<>>]
<1>1. /\ runs[r].step = "start" /\ runs' = [runs EXCEPT ![r] = x]
      /\ UNCHANGED <<facts, scores, failed, now>>
  BY DEF Start
<1>2. runs'[r] = x /\ runs[r].user \in Users
  BY <1>1 DEF LeadsInv, StateInv, RunInv
<1>3. DOMAIN x.got = {} /\ DOMAIN x = {"step", "user", "at", "got"}
  OBVIOUS
<1>4. RunInv(r)' /\ ReadInv(r)'
  BY <1>1, <1>2, <1>3 DEF RunInv, ReadInv, LeadsInv, StateInv
<1>5. \A v \in Users : Pending(r, v) => Pending(r, v)'
  BY <1>1, <1>2 DEF Pending, LeadsInv, StateInv, facts
<1> QED BY <1>1, <1>4, <1>5, RunMoves

\* A fact that is read is the fact as it is.
LEMMA ReadHolds == ASSUME LeadsInv, NEW r \in Runs, Read(r) PROVE LeadsInv'
<1>1. PICK what \in Readings :
        LET x == runs[r] IN
        /\ x.step = "read"
        /\ what \notin DOMAIN x.got
        /\ runs' = [runs EXCEPT ![r].got =
             [w \in DOMAIN x.got \cup {what} |->
                IF w \in DOMAIN x.got THEN x.got[w]
                ELSE CASE what = "profile" -> profiles[x.user]
                       [] what = "active" -> connected[x.user]
                       [] what = "signals" -> paywall[x.user]]]
        /\ UNCHANGED <<facts, scores, failed, now>>
  BY DEF Read, Readings
<1> DEFINE got == [w \in DOMAIN runs[r].got \cup {what} |->
                     IF w \in DOMAIN runs[r].got THEN runs[r].got[w]
                     ELSE CASE what = "profile" -> profiles[runs[r].user]
                            [] what = "active" -> connected[runs[r].user]
                            [] what = "signals" -> paywall[runs[r].user]]
           x == [runs[r] EXCEPT !.got = got]
<1>2. runs' = [runs EXCEPT ![r] = x] /\ UNCHANGED <<facts, scores, failed, now>>
  BY <1>1
<1>3. RunInv(r) /\ ReadInv(r) /\ runs[r].step = "read" /\ what \notin DOMAIN runs[r].got
  BY <1>1 DEF LeadsInv
<1>4. /\ runs[r].user \in Users /\ runs[r].at \in 0 .. now
      /\ DOMAIN runs[r] = {"step", "user", "at", "got"}
      /\ DOMAIN runs[r].got \subseteq Readings
  BY <1>3 DEF RunInv
<1>5. /\ x.step = "read" /\ x.user = runs[r].user /\ x.at = runs[r].at /\ x.got = got
      /\ DOMAIN x = {"step", "user", "at", "got"}
  BY <1>3, <1>4
<1>6. /\ DOMAIN got = DOMAIN runs[r].got \cup {what}
      /\ \A w \in DOMAIN runs[r].got : got[w] = runs[r].got[w]
      /\ what = "profile" => got[what] = profiles[runs[r].user]
      /\ what = "active" => got[what] = connected[runs[r].user]
      /\ what = "signals" => got[what] = paywall[runs[r].user]
  BY <1>3
<1>7. runs'[r] = x
  BY <1>2 DEF LeadsInv, StateInv
<1> HIDE DEF x, got
<1>8. RunInv(r)'
  BY <1>2, <1>4, <1>5, <1>6, <1>7 DEF RunInv
<1>9. ReadInv(r)'
  <2>1. /\ profiles' = profiles /\ connected' = connected /\ paywall' = paywall
        /\ lastChange' = lastChange
    BY <1>2 DEF facts
  <2>2. profiles[runs[r].user] # None => profiles[runs[r].user] \in ProfileRows
    BY <1>4, ProfilesAreRows DEF LeadsInv, StateInv
  <2>3. paywall[runs[r].user] \in Nat
    BY <1>4 DEF LeadsInv, StateInv
  <2>4. "profile" \in DOMAIN got =>
          /\ got["profile"] # None => got["profile"] \in ProfileRows
          /\ runs[r].at > lastChange[runs[r].user] =>
               ProfilePoints(got["profile"], runs[r].at)
                 = ProfilePoints(profiles[runs[r].user], runs[r].at)
    <3>1. CASE what = "profile"
      BY <1>6, <2>2, <3>1
    <3>2. CASE what # "profile"
      BY <1>3, <1>6, <3>2 DEF ReadInv
    <3> QED BY <3>1, <3>2
  <2>5. "active" \in DOMAIN got /\ runs[r].at > lastChange[runs[r].user] =>
          got["active"] = connected[runs[r].user]
    <3>1. CASE what = "active"
      BY <1>6, <3>1
    <3>2. CASE what # "active"
      BY <1>3, <1>6, <3>2 DEF ReadInv
    <3> QED BY <3>1, <3>2
  <2>6. "signals" \in DOMAIN got =>
          /\ got["signals"] \in Nat
          /\ runs[r].at > lastChange[runs[r].user] =>
               got["signals"] = paywall[runs[r].user]
    <3>1. CASE what = "signals"
      BY <1>6, <2>3, <3>1
    <3>2. CASE what # "signals"
      BY <1>3, <1>6, <3>2 DEF ReadInv
    <3> QED BY <3>1, <3>2
  <2> QED BY <1>5, <1>7, <2>1, <2>4, <2>5, <2>6 DEF ReadInv
<1>10. \A v \in Users : Pending(r, v) => Pending(r, v)'
  BY <1>2, <1>3, <1>5, <1>7 DEF Pending, facts
<1> QED BY <1>2, <1>8, <1>9, <1>10, RunMoves

\* A fact of u changes and a recalculation is due: of the scores and readings
\* of u none was begun later than this, those of the others are not concerned.
LEMMA FactChanges ==
  ASSUME LeadsInv, NEW r \in Runs, NEW u \in Users,
         runs[r].step \in {"idle", "upsert"}, Recalculate(r, u), Touched(u),
         UNCHANGED <<scores, failed, now>>,
         paywall' \in [Users -> Nat], connected' \in [Users -> BOOLEAN],
         DOMAIN profiles' = Users,
         \A v \in Users : profiles'[v] # None => profiles'[v] \in Profiles,
         \A v \in Users : v # u =>
           /\ profiles'[v] = profiles[v] /\ connected'[v] = connected[v]
           /\ paywall'[v] = paywall[v]
  PROVE  LeadsInv'
<1>1. /\ runs' = [runs EXCEPT ![r] = [step |-> "start", user |-> u]]
      /\ lastChange' = [lastChange EXCEPT ![u] = now]
  BY DEF Recalculate, Touched
<1>2. /\ runs'[r] = [step |-> "start", user |-> u] /\ DOMAIN runs' = Runs
      /\ \A q \in Runs : q # r => runs'[q] = runs[q]
  BY <1>1 DEF LeadsInv, StateInv
<1>3. /\ lastChange'[u] = now /\ lastChange' \in [Users -> 0 .. now]
      /\ \A v \in Users : v # u => lastChange'[v] = lastChange[v]
  BY <1>1, LeadAssumption DEF LeadsInv, StateInv
<1>4. StateInv'
  BY <1>2, <1>3 DEF LeadsInv, StateInv, Profiles
<1>5. ASSUME NEW q \in Runs PROVE RunInv(q)' /\ ReadInv(q)'
  <2>1. CASE q = r
    BY <1>2, <2>1 DEF RunInv, ReadInv
  <2>2. CASE q # r
    <3>1. RunInv(q) /\ ReadInv(q) /\ runs'[q] = runs[q] /\ now \in Nat
      BY <1>2, <2>2, LeadAssumption DEF LeadsInv, StateInv
    <3>2. RunInv(q)'
      BY <3>1 DEF RunInv
    <3>3. CASE runs[q].step = "read" /\ runs[q].user = u
      <4>1. ~(runs[q].at > lastChange'[u])
        BY <1>3, <3>1, <3>3 DEF RunInv
      <4> QED BY <3>1, <3>2, <3>3, <4>1 DEF ReadInv
    <3>4. CASE runs[q].step = "read" /\ runs[q].user # u
      <4>1. runs[q].user \in Users
        BY <3>1, <3>4 DEF RunInv
      <4> QED BY <1>3, <3>1, <3>2, <3>4, <4>1 DEF ReadInv
    <3>5. CASE runs[q].step # "read"
      BY <3>1, <3>2, <3>5 DEF ReadInv
    <3> QED BY <3>3, <3>4, <3>5
  <2> QED BY <2>1, <2>2
<1>6. ASSUME NEW v \in Users PROVE ScoreInv(v)'
  <2>1. ScoreInv(v) /\ now \in Nat
    BY LeadAssumption DEF LeadsInv, StateInv
  <2>2. CASE v = u
    <3>1. scores[u] # None => scores[u] \in Scores /\ ~(scores[u].at > lastChange'[u])
      BY <1>3, <2>1, <2>2 DEF ScoreInv, Scores
    <3> QED BY <2>2, <3>1 DEF ScoreInv, Scores
  <2>3. CASE v # u
    BY <1>3, <2>1, <2>3 DEF ScoreInv, Scores
  <2> QED BY <2>2, <2>3
<1>7. ASSUME NEW v \in Users PROVE FreshInv(v)'
  <2>1. CASE v = u
    <3>1. Pending(r, u)'
      BY <1>2 DEF Pending
    <3> QED BY <2>1, <3>1 DEF FreshInv
  <2>2. CASE v # u
    <3>1. FreshInv(v)
      BY DEF LeadsInv
    <3>2. Scored(v)' => Scored(v)
      BY <2>2 DEF Scored
    <3>3. Stored(v) => Stored(v)'
      BY <1>3, <2>2 DEF Stored
    <3>4. ASSUME NEW q \in Runs, Pending(q, v) PROVE Pending(q, v)'
      <4>1. q # r
        BY <3>4 DEF Pending
      <4> QED BY <1>2, <1>3, <2>2, <3>4, <4>1 DEF Pending
    <3> QED BY <3>1, <3>2, <3>3, <3>4 DEF FreshInv
  <2> QED BY <2>1, <2>2
<1> QED BY <1>4, <1>5, <1>6, <1>7 DEF LeadsInv

LEMMA UpsertHolds == ASSUME LeadsInv, NEW r \in Runs, Upsert(r) PROVE LeadsInv'
<1> DEFINE x == runs[r]
           old == profiles[x.user]
           since == IF old = None \/ old.optIn # x.form.optIn THEN x.at ELSE old.since
           new == [persona |-> x.form.persona, trello |-> x.form.trello,
                   due |-> x.form.due, optIn |-> x.form.optIn, since |-> since]
<1>1. /\ x.step = "upsert"
      /\ profiles' = [profiles EXCEPT ![x.user] = new]
      /\ Touched(x.user) /\ Recalculate(r, x.user)
      /\ UNCHANGED <<connected, paywall, scores, failed, now>>
  BY DEF Upsert
<1>2. x.user \in Users /\ x.form \in Forms /\ x.at \in 0 .. now
  BY <1>1 DEF LeadsInv, RunInv
<1>3. old # None => old \in Profiles
  BY <1>2 DEF LeadsInv, StateInv
<1>4. since \in 0 .. now
  BY <1>2, <1>3 DEF Profiles
<1>5. new \in Profiles
  <2>1. /\ x.form.persona \in {form.persona : form \in Forms}
        /\ x.form.due \in {form.due : form \in Forms}
        /\ x.form.trello \in BOOLEAN /\ x.form.optIn \in BOOLEAN
    BY <1>2, LeadAssumption
  <2> HIDE DEF since
  <2> QED BY <1>4, <2>1 DEF Profiles
<1> HIDE DEF new
<1>6. /\ DOMAIN profiles' = Users
      /\ \A v \in Users : profiles'[v] # None => profiles'[v] \in Profiles
      /\ \A v \in Users : v # x.user => profiles'[v] = profiles[v]
  BY <1>1, <1>5 DEF LeadsInv, StateInv
<1>7. paywall' \in [Users -> Nat] /\ connected' \in [Users -> BOOLEAN]
  BY <1>1 DEF LeadsInv, StateInv
<1> QED BY <1>1, <1>2, <1>6, <1>7, FactChanges

LEMMA RecordLeadSignalHolds ==
  ASSUME LeadsInv, NEW r \in Runs, RecordLeadSignal(r) PROVE LeadsInv'
<1>1. PICK u \in Users :
        /\ runs[r].step = "idle"
        /\ IF u \in Admins
           THEN runs' = [runs EXCEPT ![r] = [step |-> "done"]] /\ UNCHANGED facts
           ELSE /\ paywall' = [paywall EXCEPT ![u] = @ + 1]
                /\ Touched(u)
                /\ Recalculate(r, u)
                /\ UNCHANGED <<profiles, connected>>
        /\ UNCHANGED <<scores, failed, now>>
  BY DEF RecordLeadSignal
<1>2. CASE u \in Admins
  <2>1. runs' = [runs EXCEPT ![r] = [step |-> "done"]] /\ runs'[r] = [step |-> "done"]
    BY <1>1, <1>2 DEF LeadsInv, StateInv
  <2>2. RunInv(r)' /\ ReadInv(r)'
    BY <2>1 DEF RunInv, ReadInv
  <2>3. \A v \in Users : ~Pending(r, v)
    BY <1>1 DEF Pending
  <2> QED BY <1>1, <1>2, <2>1, <2>2, <2>3, RunMoves
<1>3. CASE u \notin Admins
  <2>1. /\ paywall' = [paywall EXCEPT ![u] = @ + 1]
        /\ Touched(u) /\ Recalculate(r, u)
        /\ UNCHANGED <<profiles, connected, scores, failed, now>>
    BY <1>1, <1>3
  <2>2. /\ paywall' \in [Users -> Nat] /\ connected' \in [Users -> BOOLEAN]
        /\ DOMAIN profiles' = Users
        /\ \A v \in Users : profiles'[v] # None => profiles'[v] \in Profiles
        /\ \A v \in Users : v # u => paywall'[v] = paywall[v]
    BY <2>1 DEF LeadsInv, StateInv
  <2> QED BY <1>1, <2>1, <2>2, FactChanges
<1> QED BY <1>2, <1>3

LEMMA ConnectorChangesHolds ==
  ASSUME LeadsInv, NEW r \in Runs, ConnectorChanges(r) PROVE LeadsInv'
<1>1. PICK u \in Users :
        /\ runs[r].step = "idle"
        /\ connected' = [connected EXCEPT ![u] = ~@]
        /\ Touched(u)
        /\ Recalculate(r, u)
        /\ UNCHANGED <<profiles, paywall, scores, failed, now>>
  BY DEF ConnectorChanges
<1>2. /\ paywall' \in [Users -> Nat] /\ connected' \in [Users -> BOOLEAN]
      /\ DOMAIN profiles' = Users
      /\ \A v \in Users : profiles'[v] # None => profiles'[v] \in Profiles
      /\ \A v \in Users : v # u => connected'[v] = connected[v]
  BY <1>1 DEF LeadsInv, StateInv
<1> QED BY <1>1, <1>2, FactChanges

\* The consent does not count.
LEMMA UpdateConsentHolds ==
  ASSUME LeadsInv, NEW r \in Runs, UpdateConsent(r) PROVE LeadsInv'
<1>1. PICK u \in Users, optIn \in BOOLEAN :
        /\ runs[r].step = "idle"
        /\ profiles[u] # None
        /\ profiles' = [profiles EXCEPT
             ![u].optIn = optIn,
             ![u].since = IF profiles[u].optIn # optIn THEN now ELSE @]
        /\ runs' = [runs EXCEPT ![r] = [step |-> "done"]]
        /\ UNCHANGED <<connected, paywall, lastChange, scores, failed, now>>
  BY DEF UpdateConsent
<1>2. profiles[u] \in Profiles /\ DOMAIN profiles = Users /\ now \in 0 .. now
  BY <1>1 DEF LeadsInv, StateInv
<1>3. /\ profiles'[u] \in Profiles
      /\ profiles'[u].due = profiles[u].due /\ profiles'[u].persona = profiles[u].persona
      /\ profiles'[u].trello = profiles[u].trello
      /\ \A v \in Users : v # u => profiles'[v] = profiles[v]
      /\ DOMAIN profiles' = Users
  BY <1>1, <1>2 DEF Profiles
<1>4. profiles'[u] # None
  BY <1>3, ProfilesAreRows, NoneAssumption DEF ProfileRows, LeadsInv
<1>5. ASSUME NEW v \in Users, NEW today
      PROVE  ProfilePoints(profiles'[v], today) = ProfilePoints(profiles[v], today)
  <2>1. CASE v = u
    BY <1>1, <1>3, <1>4, <2>1 DEF ProfilePoints
  <2>2. CASE v # u
    BY <1>3, <2>2
  <2> QED BY <2>1, <2>2
<1>6. \A v \in Users : profiles'[v] # None <=> profiles[v] # None
  BY <1>1, <1>3, <1>4
<1>7. /\ runs'[r] = [step |-> "done"] /\ DOMAIN runs' = Runs
      /\ \A q \in Runs : q # r => runs'[q] = runs[q]
  BY <1>1 DEF LeadsInv, StateInv
<1>8. StateInv'
  BY <1>1, <1>3, <1>7 DEF LeadsInv, StateInv, Profiles
<1>9. ASSUME NEW q \in Runs PROVE RunInv(q)' /\ ReadInv(q)'
  <2>1. CASE q = r
    BY <1>7, <2>1 DEF RunInv, ReadInv
  <2>2. CASE q # r
    <3>1. RunInv(q) /\ ReadInv(q) /\ runs'[q] = runs[q]
      BY <1>7, <2>2 DEF LeadsInv
    <3>2. RunInv(q)'
      BY <1>1, <3>1 DEF RunInv
    <3>3. runs[q].step = "read" => runs[q].user \in Users
      BY <3>1 DEF RunInv
    <3> QED BY <1>1, <1>5, <3>1, <3>2, <3>3 DEF ReadInv
  <2> QED BY <2>1, <2>2
<1>10. ASSUME NEW v \in Users PROVE ScoreInv(v)' /\ FreshInv(v)'
  <2>1. ScoreInv(v) /\ FreshInv(v)
    BY DEF LeadsInv
  <2>2. ScoreInv(v)'
    BY <1>1, <1>5, <2>1 DEF ScoreInv, ComputeLeadScore, Scores
  <2>3. \A q \in Runs : Pending(q, v) => Pending(q, v)'
    BY <1>1, <1>7 DEF Pending
  <2>4. FreshInv(v)'
    BY <1>1, <1>6, <2>1, <2>3 DEF FreshInv, Scored, Stored
  <2> QED BY <2>2, <2>4
<1> QED BY <1>8, <1>9, <1>10 DEF LeadsInv

\* A score is stored unless a later run has stored one: in both cases the row
\* is as recent as this run.
LEMMA SaveHolds == ASSUME LeadsInv, NEW r \in Runs, Save(r) PROVE LeadsInv'
<1> DEFINE x == runs[r]
           points == ComputeLeadScore(x.got.profile, x.got.active, x.got.signals, x.at)
           new == [score |-> points, tier |-> TierForScore(points), at |-> x.at]
<1>1. /\ x.step = "read" /\ DOMAIN x.got = Readings
      /\ scores' = IF Newer(scores[x.user], x.at)
                   THEN [scores EXCEPT ![x.user] = new] ELSE scores
      /\ runs' = [runs EXCEPT ![r] = [step |-> "done"]]
      /\ UNCHANGED <<facts, failed, now>>
  BY DEF Save, Readings
<1>2. /\ x.user \in Users /\ x.at \in 0 .. now /\ ReadInv(r) /\ now \in Nat
      /\ lastChange[x.user] \in Nat
  <2>1. x.user \in Users /\ x.at \in 0 .. now /\ ReadInv(r)
    BY <1>1 DEF LeadsInv, RunInv
  <2>2. now \in Nat /\ lastChange \in [Users -> 0 .. now]
    BY LeadAssumption DEF LeadsInv, StateInv
  <2> HIDE DEF x
  <2> QED BY <2>1, <2>2
<1>3. x.got.profile # None => x.got.profile \in ProfileRows
  BY <1>1, <1>2 DEF ReadInv, Readings
<1>4. points \in 0 .. 13 /\ TierForScore(points) \in Tiers
  BY <1>2, <1>3, ScoreBounded
<1>5. x.at > lastChange[x.user] =>
        points = ComputeLeadScore(profiles[x.user], connected[x.user], paywall[x.user], x.at)
  <2> SUFFICES ASSUME x.at > lastChange[x.user]
      PROVE  points = ComputeLeadScore(profiles[x.user], connected[x.user],
                                       paywall[x.user], x.at)
    OBVIOUS
  <2>1. /\ ProfilePoints(x.got.profile, x.at) = ProfilePoints(profiles[x.user], x.at)
        /\ x.got.active = connected[x.user] /\ x.got.signals = paywall[x.user]
    BY <1>1, <1>2 DEF ReadInv, Readings
  <2> QED BY <2>1 DEF ComputeLeadScore
<1> HIDE DEF points
<1>6. new \in Scores /\ new # None /\ new.at = x.at /\ new.score = points
  <2>1. new \in Scores
    BY <1>2, <1>4 DEF Scores
  <2>2. new \in ScoreRows
    BY <1>2, <1>4 DEF ScoreRows
  <2> QED BY <2>1, <2>2, NoneAssumption DEF ScoreRows
<1> HIDE DEF new
<1>7. /\ runs'[r] = [step |-> "done"] /\ DOMAIN runs' = Runs
      /\ \A q \in Runs : q # r => runs'[q] = runs[q]
  BY <1>1 DEF LeadsInv, StateInv
<1>8. /\ DOMAIN scores' = Users
      /\ \A v \in Users : v # x.user => scores'[v] = scores[v]
      /\ scores'[x.user] = IF Newer(scores[x.user], x.at) THEN new ELSE scores[x.user]
  BY <1>1, <1>2 DEF LeadsInv, StateInv
<1>9. StateInv'
  BY <1>1, <1>7, <1>8 DEF LeadsInv, StateInv, Profiles, facts
<1>10. ASSUME NEW q \in Runs PROVE RunInv(q)' /\ ReadInv(q)'
  <2>1. CASE q = r
    BY <1>7, <2>1 DEF RunInv, ReadInv
  <2>2. CASE q # r
    BY <1>1, <1>7, <2>2 DEF LeadsInv, RunInv, ReadInv, facts
  <2> QED BY <2>1, <2>2
<1>11. ASSUME NEW v \in Users PROVE ScoreInv(v)'
  <2>1. ScoreInv(v)
    BY DEF LeadsInv
  <2>2. CASE scores'[v] = scores[v]
    BY <1>1, <2>1, <2>2 DEF ScoreInv, Scores, facts
  <2>3. CASE v = x.user /\ scores'[v] = new
    BY <1>1, <1>5, <1>6, <2>3 DEF ScoreInv, Scores, facts
  <2> QED BY <1>8, <2>2, <2>3
<1>12. scores'[x.user] # None /\ scores'[x.user].at >= x.at
  <2>1. CASE Newer(scores[x.user], x.at)
    BY <1>2, <1>6, <1>8, <2>1
  <2>2. CASE ~Newer(scores[x.user], x.at)
    <3>1. scores[x.user] # None /\ ~(scores[x.user].at <= x.at)
      BY <2>2 DEF Newer
    <3>2. scores[x.user].at \in Nat
      BY <1>2, <3>1 DEF LeadsInv, ScoreInv, Scores
    <3> QED BY <1>2, <1>8, <2>2, <3>1, <3>2
  <2> QED BY <2>1, <2>2
<1>13. ASSUME scores[x.user] # None PROVE scores'[x.user].at >= scores[x.user].at
  <2>1. scores[x.user].at \in Nat
    BY <1>2, <1>13 DEF LeadsInv, ScoreInv, Scores
  <2> QED BY <1>2, <1>6, <1>8, <1>13, <2>1 DEF Newer
<1>14. scores'[x.user].at \in Nat
  BY <1>2, <1>11, <1>12, <1>1 DEF ScoreInv, Scores
<1>15. ASSUME NEW v \in Users PROVE FreshInv(v)'
  <2>1. FreshInv(v) /\ (Scored(v)' => Scored(v)) /\ failed' = failed
    BY <1>1 DEF LeadsInv, Scored, facts
  <2>2. ASSUME Stored(v) PROVE Stored(v)'
    <3>1. CASE v = x.user
      <4>1. scores[v].at \in Nat /\ scores[v].at >= lastChange[v]
        BY <1>2, <2>2 DEF LeadsInv, ScoreInv, Scores, Stored
      <4> QED BY <1>1, <1>2, <1>12, <1>13, <1>14, <2>2, <3>1, <4>1 DEF Stored, facts
    <3>2. CASE v # x.user
      BY <1>1, <1>8, <2>2, <3>2 DEF Stored, facts
    <3> QED BY <3>1, <3>2
  <2>3. ASSUME NEW q \in Runs, Pending(q, v) PROVE Pending(q, v)' \/ Stored(v)'
    <3>1. CASE q = r
      <4>1. v = x.user /\ x.at >= lastChange[v]
        BY <1>1, <2>3, <3>1 DEF Pending
      <4> QED BY <1>1, <1>2, <1>12, <1>14, <4>1 DEF Stored, facts
    <3>2. CASE q # r
      BY <1>1, <1>7, <2>3, <3>2 DEF Pending, facts
    <3> QED BY <3>1, <3>2
  <2> QED BY <2>1, <2>2, <2>3 DEF FreshInv
<1> QED BY <1>9, <1>10, <1>11, <1>15 DEF LeadsInv

\* A run that fails leaves its user marked; the others do not wait for it.
LEMMA FailHolds == ASSUME LeadsInv, NEW r \in Runs, Fail(r) PROVE LeadsInv'
<1>1. /\ runs[r].step \in {"start", "read"}
      /\ failed' = failed \cup {runs[r].user}
      /\ runs' = [runs EXCEPT ![r] = [step |-> "done"]]
      /\ UNCHANGED <<facts, scores, now>>
  BY DEF Fail
<1>2. /\ runs'[r] = [step |-> "done"] /\ DOMAIN runs' = Runs
      /\ \A q \in Runs : q # r => runs'[q] = runs[q]
  BY <1>1 DEF LeadsInv, StateInv
<1>3. StateInv'
  BY <1>1, <1>2 DEF LeadsInv, StateInv, Profiles, facts
<1>4. ASSUME NEW q \in Runs PROVE RunInv(q)' /\ ReadInv(q)'
  <2>1. CASE q = r
    BY <1>2, <2>1 DEF RunInv, ReadInv
  <2>2. CASE q # r
    BY <1>1, <1>2, <2>2 DEF LeadsInv, RunInv, ReadInv, facts
  <2> QED BY <2>1, <2>2
<1>5. ASSUME NEW v \in Users PROVE ScoreInv(v)' /\ FreshInv(v)'
  <2>1. ScoreInv(v)'
    BY <1>1 DEF LeadsInv, ScoreInv, Scores, facts
  <2>2. ASSUME NEW q \in Runs, Pending(q, v), v # runs[r].user PROVE Pending(q, v)'
    BY <1>1, <1>2, <2>2 DEF Pending, facts
  <2>3. FreshInv(v)'
    BY <1>1, <2>2 DEF LeadsInv, FreshInv, Scored, Stored, facts
  <2> QED BY <2>1, <2>3
<1> QED BY <1>3, <1>4, <1>5 DEF LeadsInv

LEMMA TickHolds == ASSUME LeadsInv, Tick PROVE LeadsInv'
<1>1. /\ now < MaxTime /\ now' = now + 1
      /\ UNCHANGED <<facts, scores, runs, failed>>
  BY DEF Tick
<1>2. /\ now \in Nat /\ now' \in 0 .. MaxTime /\ now' \in Nat
      /\ \A n \in 0 .. now : n \in 0 .. now'
  BY <1>1, LeadAssumption DEF LeadsInv, StateInv
<1>3. Profiles \subseteq Profiles' /\ Scores \subseteq Scores'
  BY <1>2 DEF Profiles, Scores
<1>4. StateInv'
  <2>1. lastChange' \in [Users -> 0 .. now']
    BY <1>1, <1>2 DEF LeadsInv, StateInv, facts
  <2> QED BY <1>1, <1>2, <1>3, <2>1 DEF LeadsInv, StateInv, facts
<1>5. ASSUME NEW q \in Runs PROVE RunInv(q)' /\ ReadInv(q)'
  <2>1. RunInv(q)'
    BY <1>1, <1>2 DEF LeadsInv, RunInv
  <2>2. ReadInv(q)'
    BY <1>1 DEF LeadsInv, ReadInv, facts
  <2> QED BY <2>1, <2>2
<1>6. ASSUME NEW v \in Users PROVE ScoreInv(v)' /\ FreshInv(v)'
  <2>1. ScoreInv(v)'
    BY <1>1, <1>3 DEF LeadsInv, ScoreInv, facts
  <2>2. \A q \in Runs : Pending(q, v)' <=> Pending(q, v)
    BY <1>1 DEF Pending, facts
  <2>3. FreshInv(v)'
    BY <1>1, <2>2 DEF LeadsInv, FreshInv, Scored, Stored, facts
  <2> QED BY <2>1, <2>3
<1> QED BY <1>4, <1>5, <1>6 DEF LeadsInv

LEMMA StepHolds == ASSUME LeadsInv, [Next]_vars PROVE LeadsInv'
<1>1. ASSUME NEW r \in Runs,
             \/ Submit(r) \/ Upsert(r) \/ UpdateConsent(r) \/ RecordLeadSignal(r)
             \/ ConnectorChanges(r) \/ Start(r) \/ Read(r) \/ Save(r) \/ Fail(r)
      PROVE  LeadsInv'
  BY <1>1, SubmitHolds, UpsertHolds, UpdateConsentHolds, RecordLeadSignalHolds,
     ConnectorChangesHolds, StartHolds, ReadHolds, SaveHolds, FailHolds
<1>2. CASE Tick
  BY <1>2, TickHolds
<1>3. CASE UNCHANGED vars
  <2>1. /\ UNCHANGED <<facts, scores, failed, now>> /\ runs' = runs
    BY <1>3 DEF vars, facts
  <2>2. StateInv'
    BY <2>1 DEF LeadsInv, StateInv, facts, Profiles
  <2>3. \A q \in Runs : RunInv(q)' /\ ReadInv(q)'
    BY <2>1 DEF LeadsInv, RunInv, ReadInv, facts
  <2>4. \A q \in Runs, v \in Users : Pending(q, v)' <=> Pending(q, v)
    BY <2>1 DEF Pending, facts
  <2>5. \A v \in Users : ScoreInv(v)' /\ FreshInv(v)'
    BY <2>1, <2>4 DEF LeadsInv, ScoreInv, FreshInv, Scored, Stored, facts, Scores
  <2> QED BY <2>2, <2>3, <2>5 DEF LeadsInv
<1> QED BY <1>1, <1>2, <1>3 DEF Next

-----------------------------------------------------------------------------
(* The rows and their order. *)

\* The row of a user has its types, and suggests outreach to those who agreed only.
LEMMA LeadRowFacts ==
  ASSUME LeadsInv, NEW u \in Users
  PROVE  /\ LeadRow(u).user = u /\ LeadRow(u).user \in Int
         /\ LeadRow(u).score \in Int
         /\ LeadRow(u).due = None \/ LeadRow(u).due \in Int
         /\ LeadRow(u).tier \in Tiers
         /\ LeadRow(u).onboarded \in BOOLEAN /\ LeadRow(u).optIn \in BOOLEAN
         /\ LeadRow(u).optIn <=> profiles[u] # None /\ profiles[u].optIn
         /\ LeadRow(u).action # "no_outreach" <=> LeadRow(u).optIn
<1>1. StateInv /\ ScoreInv(u)
  BY DEF LeadsInv
<1>2. scores[u] # None => scores[u].score \in Int /\ scores[u].tier \in Tiers
  BY <1>1 DEF ScoreInv, Scores
<1>3. profiles[u] # None => profiles[u].due \in Int /\ profiles[u].optIn \in BOOLEAN
  <2>1. profiles[u] # None => profiles[u] \in ProfileRows
    BY <1>1, ProfilesAreRows DEF StateInv
  <2> QED BY <2>1 DEF ProfileRows
<1>4. u \in Int
  BY LeadAssumption
<1> DEFINE tier == IF scores[u] = None THEN "cold" ELSE scores[u].tier
           optIn == profiles[u] # None /\ profiles[u].optIn
<1>5. tier \in Tiers /\ optIn \in BOOLEAN
  BY <1>2, <1>3 DEF Tiers
<1>6. /\ LeadRow(u).user = u
      /\ LeadRow(u).score = IF scores[u] = None THEN 0 ELSE scores[u].score
      /\ LeadRow(u).due = IF profiles[u] = None THEN None ELSE profiles[u].due
      /\ LeadRow(u).tier = tier /\ LeadRow(u).optIn = optIn
      /\ LeadRow(u).onboarded = (profiles[u] # None)
      /\ LeadRow(u).action = SuggestedAction(tier, optIn)
  BY DEF LeadRow
<1>7. SuggestedAction(tier, optIn) # "no_outreach" <=> optIn
  <2> HIDE DEF tier, optIn
  <2> QED BY <1>5 DEF SuggestedAction, Tiers
<1>8. LeadRow(u).score \in Int /\ (LeadRow(u).due = None \/ LeadRow(u).due \in Int)
  BY <1>2, <1>3, <1>6
<1>9. (LeadRow(u).action # "no_outreach") <=> LeadRow(u).optIn
  <2> HIDE DEF tier, optIn
  <2> QED BY <1>6, <1>7
<1>10. LeadRow(u).onboarded \in BOOLEAN /\ LeadRow(u).optIn \in BOOLEAN
  BY <1>5, <1>6
<1> QED BY <1>4, <1>5, <1>6, <1>8, <1>9, <1>10

\* The leads are the users who are not administrators, a row each.
LEMMA LeadRowsFacts ==
  ASSUME LeadsInv
  PROVE  /\ IsFiniteSet(LeadRows) /\ Cardinality(LeadRows) = Cardinality(Users \ Admins)
         /\ \A row \in LeadRows :
              row.user \in Users \ Admins /\ row = LeadRow(row.user)
<1> DEFINE f == [u \in Users \ Admins |-> LeadRow(u)]
<1>1. \A row \in LeadRows : row.user \in Users \ Admins /\ row = LeadRow(row.user)
  BY LeadRowFacts DEF LeadRows
<1>2. IsFiniteSet(Users \ Admins)
  BY LeadAssumption, FS_Subset
<1>3. f \in Surjection(Users \ Admins, LeadRows)
  BY DEF Surjection, LeadRows
<1>4. f \in Injection(Users \ Admins, LeadRows)
  <2>1. ASSUME NEW u \in Users \ Admins, NEW v \in Users \ Admins, f[u] = f[v]
        PROVE  u = v
    BY <2>1, LeadRowFacts
  <2>2. f \in [Users \ Admins -> LeadRows]
    BY DEF LeadRows
  <2> HIDE DEF f
  <2> QED BY <2>1, <2>2 DEF Injection, IsInjective
<1> HIDE DEF f
<1> QED BY <1>1, <1>2, <1>3, <1>4, FS_Surjection

\* The order of the list is a strict order of the leads, better scores first.
LEMMA AheadFacts ==
  ASSUME LeadsInv, NEW a \in LeadRows, NEW b \in LeadRows
  PROVE  /\ ~Ahead(a, a)
         /\ a # b => Ahead(a, b) \/ Ahead(b, a)
         /\ Ahead(a, b) => a.score >= b.score
         /\ \A c \in LeadRows : Ahead(a, b) /\ Ahead(b, c) => Ahead(a, c)
<1>1. ASSUME NEW row \in LeadRows
      PROVE  /\ row.user \in Int /\ row.score \in Int
             /\ row.due = None \/ row.due \in Int
  BY LeadRowsFacts, LeadRowFacts
<1>2. a.user = b.user => a = b
  BY LeadRowsFacts
<1>3. now \in Int /\ None \notin Int
  BY NoneAssumption, LeadAssumption DEF LeadsInv, StateInv
<1>4. ~Ahead(a, a)
  BY <1>1, <1>3 DEF Ahead
<1>5. a # b => Ahead(a, b) \/ Ahead(b, a)
  BY <1>1, <1>2, <1>3 DEF Ahead
<1>6. Ahead(a, b) => a.score >= b.score
  BY <1>1 DEF Ahead
<1>7. ASSUME NEW c \in LeadRows, Ahead(a, b), Ahead(b, c) PROVE Ahead(a, c)
  BY <1>1, <1>3, <1>7 DEF Ahead
<1> QED BY <1>4, <1>5, <1>6, <1>7

\* A row's place in the order is the number of those ahead of it.
LEMMA OrderExists ==
  ASSUME LeadsInv, NEW rows \in SUBSET LeadRows
  PROVE  /\ Cardinality(rows) \in Nat
         /\ \E list \in [1 .. Cardinality(rows) -> rows] :
              \A j, k \in 1 .. Cardinality(rows) : j < k => Ahead(list[j], list[k])
<1> DEFINE n == Cardinality(rows)
           Above(a) == {b \in rows : Ahead(b, a)}
           place == [a \in rows |-> Cardinality(Above(a)) + 1]
<1>1. IsFiniteSet(rows) /\ n \in Nat
  BY LeadRowsFacts, FS_Subset, FS_CardinalityType
<1>2. ASSUME NEW a \in rows
      PROVE  /\ IsFiniteSet(Above(a)) /\ Cardinality(Above(a)) \in Nat
             /\ Cardinality(Above(a)) <= n - 1
  <2>1. Above(a) \in SUBSET (rows \ {a})
    BY AheadFacts
  <2>2. IsFiniteSet(rows \ {a}) /\ Cardinality(rows \ {a}) = n - 1
    BY <1>1, FS_RemoveElement
  <2> HIDE DEF Above, n
  <2> QED BY <2>1, <2>2, FS_Subset, FS_CardinalityType
<1>3. ASSUME NEW a \in rows, NEW b \in rows, Ahead(a, b)
      PROVE  Cardinality(Above(a)) < Cardinality(Above(b))
  <2>1. Above(a) \in SUBSET (Above(b) \ {a}) /\ a \in Above(b)
    BY <1>3, AheadFacts
  <2>2. /\ IsFiniteSet(Above(b) \ {a})
        /\ Cardinality(Above(b) \ {a}) = Cardinality(Above(b)) - 1
    <3> HIDE DEF Above
    <3> QED BY <1>2, <2>1, FS_RemoveElement
  <2> HIDE DEF Above
  <2>3. Cardinality(Above(a)) <= Cardinality(Above(b) \ {a})
    BY <2>1, <2>2, FS_Subset
  <2> QED BY <1>2, <2>2, <2>3
<1>4. place \in [rows -> 1 .. n] /\ \A a \in rows : place[a] = Cardinality(Above(a)) + 1
  <2> HIDE DEF Above, n
  <2> QED BY <1>1, <1>2
<1> HIDE DEF place, Above
<1>5. ASSUME NEW a \in rows, NEW b \in rows, Ahead(a, b) PROVE place[a] < place[b]
  BY <1>2, <1>3, <1>4, <1>5
<1>6. ASSUME NEW a \in rows, NEW b \in rows, place[a] = place[b] PROVE a = b
  <2>1. place[a] \in Int
    BY <1>1, <1>4
  <2>2. ~(place[a] < place[b]) /\ ~(place[b] < place[a])
    BY <1>6, <2>1
  <2> QED BY <1>5, <2>2, AheadFacts
<1>7. place \in Surjection(rows, 1 .. n)
  <2>1. place \in Injection(rows, 1 .. n)
    BY <1>4, <1>6 DEF Injection, IsInjective
  <2>2. IsFiniteSet(1 .. n) /\ Cardinality(1 .. n) = n
    BY <1>1, FS_Interval
  <2> QED BY <2>1, <2>2, FS_Injection
<1> DEFINE list == [k \in 1 .. n |-> CHOOSE a \in rows : place[a] = k]
<1>8. ASSUME NEW k \in 1 .. n PROVE list[k] \in rows /\ place[list[k]] = k
  BY <1>7 DEF Surjection
<1>9. list \in [1 .. n -> rows]
  BY <1>8
<1> HIDE DEF list
<1>10. ASSUME NEW j \in 1 .. n, NEW k \in 1 .. n, j < k PROVE Ahead(list[j], list[k])
  <2>1. list[j] # list[k]
    BY <1>8, <1>10
  <2>2. ~Ahead(list[k], list[j])
    BY <1>1, <1>5, <1>8, <1>10
  <2> QED BY <1>8, <2>1, <2>2, AheadFacts
<1> QED BY <1>1, <1>9, <1>10

\* The list has all rows, each once, in the order.
LEMMA OrderedFacts ==
  ASSUME LeadsInv, NEW rows \in SUBSET LeadRows, NEW n, n = Cardinality(rows),
         NEW list, list = Ordered(rows)
  PROVE  /\ n \in Nat /\ list \in Seq(rows) /\ Len(list) = n
         /\ \A j, k \in 1 .. n : j < k => Ahead(list[j], list[k])
         /\ \A row \in rows : \E k \in 1 .. n : list[k] = row
<1>1. n \in Nat /\ IsFiniteSet(rows)
  BY OrderExists, LeadRowsFacts, FS_Subset
<1>2. /\ list \in [1 .. n -> rows]
      /\ \A j, k \in 1 .. n : j < k => Ahead(list[j], list[k])
  <2> DEFINE Right(s) == \A j, k \in 1 .. n : j < k => Ahead(s[j], s[k])
  <2>1. \E s \in [1 .. n -> rows] : Right(s)
    BY OrderExists
  <2>2. list = CHOOSE s \in [1 .. n -> rows] : Right(s)
    BY DEF Ordered
  <2>3. list \in [1 .. n -> rows] /\ Right(list)
    <3> HIDE DEF Right
    <3> QED BY <2>1, <2>2
  <2> QED BY <2>3
<1>3. list \in Injection(1 .. n, rows)
  <2>1. ASSUME NEW j \in 1 .. n, NEW k \in 1 .. n, j < k PROVE list[j] # list[k]
    BY <1>2, <2>1, AheadFacts
  <2>2. \A j, k \in 1 .. n : list[j] = list[k] => j = k
    BY <1>1, <2>1
  <2> QED BY <1>2, <2>2 DEF Injection, IsInjective
<1>4. list \in Surjection(1 .. n, rows)
  <2>1. Cardinality(1 .. n) = n
    BY <1>1, FS_Interval
  <2> QED BY <1>1, <1>3, <2>1, FS_Injection
<1> QED BY <1>1, <1>2, <1>4 DEF Surjection

-----------------------------------------------------------------------------
(* The pages. *)

\* The rows a filter selects.
Selected(filter) == {row \in LeadRows : Matches(filter, row)}

\* The items are the stretch of a list, of some size at most, behind those skipped.
IsStretch(items, all, skip, size) ==
  /\ \A k : k \in DOMAIN items <=> k \in 1 .. size /\ skip + k <= Len(all)
  /\ \A k \in DOMAIN items : items[k] = all[skip + k]

\* A page is a stretch of the list.
LEMMA StretchFacts ==
  ASSUME NEW S, NEW all \in Seq(S), NEW skip \in Nat, NEW size \in Nat,
         NEW items, items = SubSeq(all, skip + 1,
                              IF skip + size < Len(all) THEN skip + size ELSE Len(all))
  PROVE  IsStretch(items, all, skip, size)
<1> DEFINE last == IF skip + size < Len(all) THEN skip + size ELSE Len(all)
<1>1. last \in Int /\ Len(all) \in Nat /\ last <= Len(all) /\ last <= skip + size
      /\ (last = skip + size \/ last = Len(all))
  OBVIOUS
<1>2. items = SubSeq(all, skip + 1, last)
  OBVIOUS
<1> HIDE DEF last
<1>3. \A i \in skip + 1 .. last : all[i] \in S
  BY <1>1
<1>4. /\ items \in Seq(S)
      /\ Len(items) = IF skip + 1 <= last THEN last - (skip + 1) + 1 ELSE 0
      /\ \A i \in 1 .. last - (skip + 1) + 1 : items[i] = all[skip + 1 + i - 1]
  BY <1>1, <1>2, <1>3, SubSeqProperties
<1>5. DOMAIN items = 1 .. Len(items)
  BY <1>4
<1>6. ASSUME NEW k \in Int
      PROVE  k \in 1 .. Len(items) <=> k \in 1 .. size /\ skip + k <= Len(all)
  BY <1>1, <1>4
<1>7. ASSUME NEW k \in DOMAIN items PROVE items[k] = all[skip + k]
  <2>1. k \in Int /\ k \in 1 .. last - (skip + 1) + 1 /\ skip + 1 + k - 1 = skip + k
    BY <1>1, <1>4, <1>5
  <2> QED BY <1>4, <2>1
<1>8. \A k : k \in DOMAIN items <=> k \in 1 .. size /\ skip + k <= Len(all)
  BY <1>5, <1>6
<1> QED BY <1>7, <1>8 DEF IsStretch

\* Pages of one size follow each other and leave nothing out.
LEMMA PageNumbers ==
  ASSUME NEW limit \in Nat \ {0}
  PROVE  /\ \A p \in Nat \ {0} : (p - 1) * limit \in Nat
         /\ \A p, q \in Nat \ {0} : p < q => (p - 1) * limit + limit <= (q - 1) * limit
         /\ \A i, pages \in Nat : i \in 1 .. pages * limit =>
              \E p \in 1 .. pages, k \in 1 .. limit : i = (p - 1) * limit + k
<1>1. ASSUME NEW p \in Nat \ {0} PROVE (p - 1) * limit \in Nat
  OBVIOUS
<1>2. ASSUME NEW p \in Nat \ {0}, NEW q \in Nat \ {0}, p < q
      PROVE  (p - 1) * limit + limit <= (q - 1) * limit
  BY <1>2
<1>3. ASSUME NEW i \in Nat, NEW pages \in Nat, i \in 1 .. pages * limit
      PROVE  \E p \in 1 .. pages, k \in 1 .. limit : i = (p - 1) * limit + k
  <2> DEFINE q == (i - 1) \div limit
  <2>1. q \in Nat /\ q * limit \in Int /\ q * limit <= i - 1 /\ i - 1 < q * limit + limit
    BY <1>3
  <2> HIDE DEF q
  <2>2. q < pages
    <3>1. CASE pages <= q
      <4>1. pages * limit <= q * limit
        BY <2>1, <3>1
      <4> QED BY <1>3, <2>1, <4>1
    <3> QED BY <2>1, <3>1
  <2> DEFINE before == q * limit
             k == i - before
  <2>3. before \in Int /\ before <= i - 1 /\ i - 1 < before + limit
    BY <2>1
  <2> DEFINE page == q + 1
  <2>4. before = (page - 1) * limit
    <3>1. page - 1 = q
      BY <2>1
    <3> QED BY <3>1
  <2>5. page \in 1 .. pages
    BY <1>3, <2>1, <2>2
  <2> HIDE DEF before, page
  <2>6. k \in 1 .. limit /\ i = before + k
    BY <1>3, <2>3
  <2> HIDE DEF k
  <2> DEFINE Is(p, j) == i = (p - 1) * limit + j
  <2>7. Is(page, k)
    BY <2>4, <2>6
  <2>8. \E p \in 1 .. pages, j \in 1 .. limit : Is(p, j)
    <3> HIDE DEF Is
    <3> QED BY <2>5, <2>6, <2>7
  <2> QED BY <2>8
<1> QED BY <1>1, <1>2, <1>3

\* What page p of the list holds.
LEMMA PageFacts ==
  ASSUME LeadsInv, NEW filter, NEW limit \in 1 .. MaxLimit, NEW p \in 1 .. MaxPage,
         NEW n, n = Cardinality(Selected(filter)),
         NEW list, list = Ordered(Selected(filter)),
         NEW items, items = ListLeads(filter, p, limit).items
  PROVE  /\ ListLeads(filter, p, limit).total = n
         /\ (p - 1) * limit \in Nat
         /\ \A k : k \in DOMAIN items <=> k \in 1 .. limit /\ (p - 1) * limit + k <= n
         /\ \A k \in DOMAIN items : items[k] = list[(p - 1) * limit + k]
<1>1. Clamp(limit, 1, MaxLimit) = limit /\ Clamp(p, 1, MaxPage) = p
  BY LeadAssumption DEF Clamp
<1>2. n \in Nat /\ list \in Seq(Selected(filter)) /\ Len(list) = n
  BY OrderedFacts DEF Selected
<1>3. limit \in Nat \ {0} /\ p \in Nat \ {0}
  BY LeadAssumption
<1> DEFINE skip == (p - 1) * limit
<1>4. skip \in Nat
  BY <1>3, PageNumbers
<1> DEFINE Page(before, size) ==
      [items |-> SubSeq(list, before + 1,
                        IF before + size < Len(list) THEN before + size ELSE Len(list)),
       total |-> Len(list)]
<1>5. ListLeads(filter, p, limit) = Page(skip, limit)
  <2>1. ListLeads(filter, p, limit) =
          Page((Clamp(p, 1, MaxPage) - 1) * Clamp(limit, 1, MaxLimit), Clamp(limit, 1, MaxLimit))
    BY DEF ListLeads, Selected
  <2> HIDE DEF Page
  <2> QED BY <1>1, <2>1
<1>6. /\ items = SubSeq(list, skip + 1,
                        IF skip + limit < Len(list) THEN skip + limit ELSE Len(list))
      /\ ListLeads(filter, p, limit).total = Len(list)
  <2>1. /\ Page(skip, limit).total = Len(list)
        /\ Page(skip, limit).items =
             SubSeq(list, skip + 1,
                    IF skip + limit < Len(list) THEN skip + limit ELSE Len(list))
    OBVIOUS
  <2> HIDE DEF Page, skip
  <2> QED BY <1>5, <2>1
<1> HIDE DEF skip
<1>7. IsStretch(items, list, skip, limit)
  <2>1. limit \in Nat /\ list \in Seq(Selected(filter))
    BY <1>2, <1>3
  <2> QED BY <1>4, <1>6, <2>1, StretchFacts
<1> QED BY <1>2, <1>4, <1>6, <1>7 DEF skip, IsStretch

\* The row at a place of a page.
Entry(list, limit, p, k) == [page |-> p, place |-> k, row |-> list[(p - 1) * limit + k]]

\* What the pages show is the list as far as they reach.
LEMMA ShownFacts ==
  ASSUME LeadsInv, NEW filter, NEW limit \in 1 .. MaxLimit,
         NEW n, n = Cardinality(Selected(filter)),
         NEW list, list = Ordered(Selected(filter))
  PROVE  /\ \A x \in Shown(filter, limit) :
              \E p \in 1 .. MaxPage, k \in 1 .. limit :
                (p - 1) * limit + k <= n /\ x = Entry(list, limit, p, k)
         /\ \A p \in 1 .. MaxPage, k \in 1 .. limit :
              (p - 1) * limit + k <= n => Entry(list, limit, p, k) \in Shown(filter, limit)
<1> DEFINE Items(p) == ListLeads(filter, p, limit).items
           Held(p) == {[page |-> p, place |-> k, row |-> Items(p)[k]] : k \in DOMAIN Items(p)}
<1>1. Shown(filter, limit) = UNION {Held(p) : p \in 1 .. MaxPage}
  BY DEF Shown
<1>2. ASSUME NEW p \in 1 .. MaxPage
      PROVE  /\ \A k : k \in DOMAIN Items(p) <=> k \in 1 .. limit /\ (p - 1) * limit + k <= n
             /\ \A k \in DOMAIN Items(p) : Items(p)[k] = list[(p - 1) * limit + k]
  <2> DEFINE items == Items(p)
  <2>1. items = ListLeads(filter, p, limit).items
    OBVIOUS
  <2> HIDE DEF items
  <2>2. /\ \A k : k \in DOMAIN items <=> k \in 1 .. limit /\ (p - 1) * limit + k <= n
        /\ \A k \in DOMAIN items : items[k] = list[(p - 1) * limit + k]
    BY <2>1, PageFacts
  <2> QED BY <2>2 DEF items
<1>3. ASSUME NEW p \in 1 .. MaxPage
      PROVE  \A x : x \in Held(p) <=>
               \E k \in 1 .. limit :
                 (p - 1) * limit + k <= n /\ x = Entry(list, limit, p, k)
  <2> HIDE DEF Items
  <2>1. \A x : x \in Held(p) <=>
          \E k \in DOMAIN Items(p) : x = [page |-> p, place |-> k, row |-> Items(p)[k]]
    OBVIOUS
  <2>2. \A k \in DOMAIN Items(p) :
          [page |-> p, place |-> k, row |-> Items(p)[k]] = Entry(list, limit, p, k)
    BY <1>2 DEF Entry
  <2> HIDE DEF Held
  <2>3. ASSUME NEW x
        PROVE  x \in Held(p) <=>
               \E k \in 1 .. limit :
                 (p - 1) * limit + k <= n /\ x = Entry(list, limit, p, k)
    BY ONLY <1>2, <2>1, <2>2
  <2> QED BY <2>3
<1> HIDE DEF Held
<1>4. ASSUME NEW x \in Shown(filter, limit)
      PROVE  \E p \in 1 .. MaxPage, k \in 1 .. limit :
               (p - 1) * limit + k <= n /\ x = Entry(list, limit, p, k)
  <2>1. PICK p \in 1 .. MaxPage : x \in Held(p)
    BY <1>1
  <2>2. PICK k \in 1 .. limit : (p - 1) * limit + k <= n /\ x = Entry(list, limit, p, k)
    BY <1>3, <2>1
  <2> QED BY <2>2
<1>5. ASSUME NEW p \in 1 .. MaxPage, NEW k \in 1 .. limit, (p - 1) * limit + k <= n
      PROVE  Entry(list, limit, p, k) \in Shown(filter, limit)
  <2>1. Entry(list, limit, p, k) \in Held(p)
    BY <1>3, <1>5
  <2> QED BY <1>1, <2>1
<1> QED BY <1>4, <1>5

\* Two rows of the list differ in their users, and the later has no better score.
LEMMA ListFacts ==
  ASSUME LeadsInv, NEW filter, NEW n, n = Cardinality(Selected(filter)),
         NEW list, list = Ordered(Selected(filter))
  PROVE  /\ n \in Nat
         /\ \A i \in 1 .. n : list[i] \in Selected(filter)
         /\ \A row \in Selected(filter) : \E i \in 1 .. n : list[i] = row
         /\ \A i, j \in 1 .. n : i < j =>
              list[i].user # list[j].user /\ list[i].score >= list[j].score
<1>1. Selected(filter) \in SUBSET LeadRows
  BY DEF Selected
<1>2. /\ n \in Nat /\ list \in Seq(Selected(filter)) /\ Len(list) = n
      /\ \A i, j \in 1 .. n : i < j => Ahead(list[i], list[j])
      /\ \A row \in Selected(filter) : \E i \in 1 .. n : list[i] = row
  BY <1>1, OrderedFacts
<1>3. \A i \in 1 .. n : list[i] \in Selected(filter)
  BY <1>2
<1>4. ASSUME NEW i \in 1 .. n, NEW j \in 1 .. n, i < j
      PROVE  list[i].user # list[j].user /\ list[i].score >= list[j].score
  <2>1. list[i] \in LeadRows /\ list[j] \in LeadRows /\ Ahead(list[i], list[j])
    BY <1>1, <1>2, <1>3, <1>4
  <2>2. list[i] # list[j] /\ list[i].score >= list[j].score
    BY <2>1, AheadFacts
  <2> QED BY <2>1, <2>2, LeadRowsFacts
<1> QED BY <1>2, <1>3, <1>4

\* The pages of the list are right for one filter and one size.
LEMMA PagesAreRight ==
  ASSUME LeadsInv, NEW filter, NEW limit \in 1 .. MaxLimit
  PROVE  PagesRight(filter, limit)
<1> DEFINE n == Cardinality(Selected(filter))
           list == Ordered(Selected(filter))
           shown == Shown(filter, limit)
           At(p, k) == (p - 1) * limit + k
<1>1. /\ n \in Nat
      /\ \A i \in 1 .. n : list[i] \in Selected(filter)
      /\ \A row \in Selected(filter) : \E i \in 1 .. n : list[i] = row
      /\ \A i, j \in 1 .. n : i < j =>
           list[i].user # list[j].user /\ list[i].score >= list[j].score
  BY ListFacts
<1>2. limit \in Nat \ {0} /\ MaxPage \in Nat \ {0}
  BY LeadAssumption
<1>3. ListLeads(filter, 1, limit).total = n
  <2> DEFINE items == ListLeads(filter, 1, limit).items
  <2>1. n = Cardinality(Selected(filter)) /\ list = Ordered(Selected(filter)) /\ 1 \in 1 .. MaxPage
    BY <1>2
  <2> HIDE DEF items, n, list
  <2> QED BY <2>1, PageFacts
<1>4. /\ ListLeads(filter, 0, limit) = ListLeads(filter, 1, limit)
      /\ ListLeads(filter, MaxPage + 1, limit) = ListLeads(filter, MaxPage, limit)
  <2>1. /\ Clamp(0, 1, MaxPage) = Clamp(1, 1, MaxPage)
        /\ Clamp(MaxPage + 1, 1, MaxPage) = Clamp(MaxPage, 1, MaxPage)
    BY <1>2 DEF Clamp
  <2> QED BY <2>1 DEF ListLeads
<1>5. /\ \A x \in shown :
           \E p \in 1 .. MaxPage, k \in 1 .. limit :
             At(p, k) <= n /\ x = Entry(list, limit, p, k)
      /\ \A p \in 1 .. MaxPage, k \in 1 .. limit :
           At(p, k) <= n => Entry(list, limit, p, k) \in shown
  BY ShownFacts
<1>6. ASSUME NEW p \in 1 .. MaxPage, NEW k \in 1 .. limit
      PROVE  /\ At(p, k) \in Nat \ {0}
             /\ Entry(list, limit, p, k).page = p /\ Entry(list, limit, p, k).place = k
             /\ Entry(list, limit, p, k).row = list[At(p, k)]
  <2>1. (p - 1) * limit \in Nat
    BY <1>2, PageNumbers
  <2>2. At(p, k) \in Nat \ {0}
    BY <1>2, <2>1
  <2> HIDE DEF list
  <2> QED BY <2>2 DEF Entry
<1>7. ASSUME NEW p \in 1 .. MaxPage, NEW k \in 1 .. limit,
             NEW q \in 1 .. MaxPage, NEW j \in 1 .. limit, p < q \/ (p = q /\ k < j)
      PROVE  At(p, k) < At(q, j)
  <2>1. CASE p < q
    <3> DEFINE a == (p - 1) * limit
               b == (q - 1) * limit
    <3>1. a \in Nat /\ b \in Nat /\ a + limit <= b
      BY <1>2, <2>1, PageNumbers
    <3> HIDE DEF a, b
    <3>2. a + k < b + j
      BY <1>2, <3>1
    <3> QED BY <3>2 DEF a, b
  <2>2. CASE p = q /\ k < j
    <3> DEFINE a == (p - 1) * limit
    <3>1. a \in Nat
      BY <1>2, PageNumbers
    <3> HIDE DEF a
    <3>2. a + k < a + j
      BY <1>2, <2>2, <3>1
    <3> QED BY <2>2, <3>2 DEF a
  <2> QED BY <1>7, <2>1, <2>2
<1>8. ASSUME NEW i \in 1 .. n, n <= MaxPage * limit
      PROVE  \E p \in 1 .. MaxPage, k \in 1 .. limit : i = At(p, k)
  <2>1. MaxPage * limit \in Int
    BY <1>2
  <2>2. i \in 1 .. MaxPage * limit
    <3> HIDE DEF n
    <3> QED BY <1>1, <1>8, <2>1
  <2>3. \A j, pages \in Nat : j \in 1 .. pages * limit =>
          \E p \in 1 .. pages, k \in 1 .. limit : j = At(p, k)
    BY <1>2, PageNumbers
  <2> HIDE DEF At, n
  <2>4. i \in Nat
    BY <1>1
  <2> QED BY <1>2, <2>2, <2>3, <2>4
<1> HIDE DEF n, list, shown, At
<1>9. ASSUME NEW x \in shown PROVE x.row \in Selected(filter) /\ x.place <= limit
  <2>1. PICK p \in 1 .. MaxPage, k \in 1 .. limit :
          At(p, k) <= n /\ x = Entry(list, limit, p, k)
    BY <1>5
  <2>2. At(p, k) \in 1 .. n
    BY <1>1, <1>6, <2>1
  <2> QED BY <1>1, <1>2, <1>6, <2>1, <2>2
<1>10. ASSUME n <= MaxPage * limit PROVE {x.row : x \in shown} = Selected(filter)
  <2>1. ASSUME NEW row \in Selected(filter) PROVE \E x \in shown : x.row = row
    <3>1. PICK i \in 1 .. n : list[i] = row
      BY <1>1
    <3>2. PICK p \in 1 .. MaxPage, k \in 1 .. limit : i = At(p, k)
      BY <1>8, <1>10
    <3>3. At(p, k) <= n
      BY <1>1, <3>2
    <3> QED BY <1>5, <1>6, <3>1, <3>2, <3>3
  <2> QED BY <1>9, <2>1
<1>11. ASSUME NEW x \in shown, NEW y \in shown,
              x.page < y.page \/ (x.page = y.page /\ x.place < y.place)
       PROVE  x.row.user # y.row.user /\ x.row.score >= y.row.score
  <2>1. PICK p \in 1 .. MaxPage, k \in 1 .. limit :
          At(p, k) <= n /\ x = Entry(list, limit, p, k)
    BY <1>5
  <2>2. PICK q \in 1 .. MaxPage, j \in 1 .. limit :
          At(q, j) <= n /\ y = Entry(list, limit, q, j)
    BY <1>5
  <2>3. p < q \/ (p = q /\ k < j)
    BY <1>6, <1>11, <2>1, <2>2
  <2>4. At(p, k) \in 1 .. n /\ At(q, j) \in 1 .. n /\ At(p, k) < At(q, j)
    BY <1>1, <1>6, <1>7, <2>1, <2>2, <2>3
  <2>5. x.row = list[At(p, k)] /\ y.row = list[At(q, j)]
    BY <1>6, <2>1, <2>2
  <2> QED BY <1>1, <2>4, <2>5
<1> QED BY <1>3, <1>4, <1>9, <1>10, <1>11 DEF PagesRight, Selected, n, shown

-----------------------------------------------------------------------------
(* The details and the statistics. *)

\* The length of the list a filter selects, on any page of it.
LEMMA Totals ==
  ASSUME LeadsInv, NEW filter
  PROVE  ListLeads(filter, 1, 1).total = Cardinality(Selected(filter))
<1>1. ListLeads(filter, 1, 1).total = Len(Ordered(Selected(filter)))
  BY DEF ListLeads, Selected
<1>2. Selected(filter) \in SUBSET LeadRows
  BY DEF Selected
<1> QED BY <1>1, <1>2, OrderedFacts

\* One criterion selects the rows that meet it; without one every row is.
LEMMA FilterFacts ==
  /\ Selected(Unfiltered) = LeadRows
  /\ \A t \in Tiers :
       Selected([Unfiltered EXCEPT !.tier = t]) = {row \in LeadRows : row.tier = t}
  /\ \A b \in BOOLEAN :
       /\ Selected([Unfiltered EXCEPT !.onboarded = b]) = {row \in LeadRows : row.onboarded = b}
       /\ Selected([Unfiltered EXCEPT !.optIn = b]) = {row \in LeadRows : row.optIn = b}
<1>1. ASSUME NEW t, NEW a, NEW b, NEW filter,
             filter = [tier |-> t, onboarded |-> a, optIn |-> b]
      PROVE  Selected(filter) =
               {row \in LeadRows : /\ t # None => row.tier = t
                                   /\ a # None => row.onboarded = a
                                   /\ b # None => row.optIn = b}
  BY <1>1 DEF Selected, Matches
<1>2. /\ Unfiltered = [tier |-> None, onboarded |-> None, optIn |-> None]
      /\ \A t : [Unfiltered EXCEPT !.tier = t] = [tier |-> t, onboarded |-> None, optIn |-> None]
      /\ \A b : [Unfiltered EXCEPT !.onboarded = b] = [tier |-> None, onboarded |-> b, optIn |-> None]
      /\ \A b : [Unfiltered EXCEPT !.optIn = b] = [tier |-> None, onboarded |-> None, optIn |-> b]
  BY DEF Unfiltered
<1>3. Selected(Unfiltered) = LeadRows
  <2>1. Selected(Unfiltered) =
          {row \in LeadRows : /\ None # None => row.tier = None
                              /\ None # None => row.onboarded = None
                              /\ None # None => row.optIn = None}
    BY <1>1, <1>2
  <2> QED BY <2>1
<1>4. ASSUME NEW t \in Tiers
      PROVE  Selected([Unfiltered EXCEPT !.tier = t]) = {row \in LeadRows : row.tier = t}
  <2>1. t # None
    BY NoneAssumption
  <2>2. Selected([Unfiltered EXCEPT !.tier = t]) =
          {row \in LeadRows : /\ t # None => row.tier = t
                              /\ None # None => row.onboarded = None
                              /\ None # None => row.optIn = None}
    BY <1>1, <1>2
  <2> QED BY <2>1, <2>2
<1>5. ASSUME NEW b \in BOOLEAN
      PROVE  /\ Selected([Unfiltered EXCEPT !.onboarded = b])
                  = {row \in LeadRows : row.onboarded = b}
             /\ Selected([Unfiltered EXCEPT !.optIn = b]) = {row \in LeadRows : row.optIn = b}
  <2>1. b # None
    BY NoneAssumption
  <2>2. Selected([Unfiltered EXCEPT !.onboarded = b]) =
          {row \in LeadRows : /\ None # None => row.tier = None
                              /\ b # None => row.onboarded = b
                              /\ None # None => row.optIn = None}
    BY <1>1, <1>2
  <2>3. Selected([Unfiltered EXCEPT !.optIn = b]) =
          {row \in LeadRows : /\ None # None => row.tier = None
                              /\ None # None => row.onboarded = None
                              /\ b # None => row.optIn = b}
    BY <1>1, <1>2
  <2> QED BY <2>1, <2>2, <2>3
<1> QED BY <1>3, <1>4, <1>5

\* The detail of a lead has the row of the list; nobody else has one.
LEMMA DetailFacts ==
  ASSUME LeadsInv
  PROVE  /\ \A row \in LeadRows : GetLead(row.user).lead = row
         /\ \A u \in Admins : GetLead(u) = None
<1>1. ASSUME NEW row \in LeadRows PROVE GetLead(row.user).lead = row
  <2> DEFINE found == {r \in LeadRows : r.user = row.user}
  <2>1. found = {row}
    BY LeadRowsFacts
  <2>2. found # {} /\ (CHOOSE r \in found : TRUE) = row
    BY <2>1
  <2>3. GetLead(row.user) =
          IF found = {} THEN None
          ELSE [lead |-> CHOOSE r \in found : TRUE, onboarding |-> profiles[row.user],
                connected |-> connected[row.user], signals |-> paywall[row.user]]
    BY DEF GetLead
  <2> HIDE DEF found
  <2> QED BY <2>2, <2>3
<1>2. ASSUME NEW u \in Admins PROVE GetLead(u) = None
  <2>1. {r \in LeadRows : r.user = u} = {}
    BY LeadRowsFacts
  <2> QED BY <2>1 DEF GetLead
<1> QED BY <1>1, <1>2

\* Every lead is counted once: as one who agreed to be contacted, or as one not
\* to be.
LEMMA OutreachFacts ==
  ASSUME LeadsInv
  PROVE  Cardinality({row \in LeadRows : row.action = "no_outreach"})
           + Cardinality({row \in LeadRows : row.optIn}) = Cardinality(LeadRows)
<1> DEFINE left == {row \in LeadRows : row.action = "no_outreach"}
           asked == {row \in LeadRows : row.optIn}
<1>1. ASSUME NEW row \in LeadRows PROVE row.action # "no_outreach" <=> row.optIn
  BY LeadRowsFacts, LeadRowFacts
<1>2. left \cup asked = LeadRows /\ left \cap asked = {}
  BY <1>1
<1>3. IsFiniteSet(left) /\ IsFiniteSet(asked)
  BY LeadRowsFacts, FS_Subset
<1> HIDE DEF left, asked
<1>4. Cardinality(left) \in Nat /\ Cardinality(asked) \in Nat /\ Cardinality({}) = 0
  BY <1>3, FS_CardinalityType, FS_EmptySet
<1>5. Cardinality(left \cup asked) =
        Cardinality(left) + Cardinality(asked) - Cardinality(left \cap asked)
  BY <1>3, FS_Union
<1> DEFINE a == Cardinality(left)
           b == Cardinality(asked)
<1>6. Cardinality(LeadRows) = a + b - 0
  BY <1>2, <1>4, <1>5
<1>7. a \in Nat /\ b \in Nat
  BY <1>4
<1> HIDE DEF a, b
<1>8. a + b = Cardinality(LeadRows)
  BY <1>6, <1>7
<1> QED BY <1>8 DEF left, asked, a, b

\* The pages cover the leads wherever the invariant holds.
LEMMA PagesCover == LeadsInv => PagesCoverLeads
<1> SUFFICES ASSUME LeadsInv PROVE PagesCoverLeads
  OBVIOUS
<1> DEFINE Total(filter) == ListLeads(filter, 1, 1).total
<1>1. \A filter \in Filters, limit \in 1 .. MaxLimit : PagesRight(filter, limit)
  BY PagesAreRight
<1>2. ASSUME NEW row \in LeadRows
      PROVE  /\ row = GetLead(row.user).lead
             /\ row.action # "no_outreach" =>
                  profiles[row.user] # None /\ profiles[row.user].optIn
  BY DetailFacts, LeadRowsFacts, LeadRowFacts
<1>3. \A filter : Total(filter) = Cardinality(Selected(filter))
  BY Totals
<1>4. LeadStats.total = Cardinality(LeadRows)
      /\ LeadStats.tiers = [t \in Tiers |-> Cardinality({row \in LeadRows : row.tier = t})]
      /\ LeadStats.noOutreach = Cardinality({row \in LeadRows : row.action = "no_outreach"})
      /\ LeadStats.optIn = Cardinality({row \in LeadRows : row.optIn})
      /\ LeadStats.notStarted = Cardinality({row \in LeadRows : ~row.onboarded})
  BY DEF LeadStats
<1> HIDE DEF Total
<1>5. Total(Unfiltered) = Cardinality(Users \ Admins)
  BY <1>3, FilterFacts, LeadRowsFacts
<1>6. \A t \in Tiers : LeadStats.tiers[t] = Total([Unfiltered EXCEPT !.tier = t])
  BY <1>3, <1>4, FilterFacts
<1>7. /\ {row \in LeadRows : row.optIn = TRUE} = {row \in LeadRows : row.optIn}
      /\ {row \in LeadRows : row.onboarded = FALSE} = {row \in LeadRows : ~row.onboarded}
  BY LeadRowsFacts, LeadRowFacts
<1>8. LeadStats.optIn = Total([Unfiltered EXCEPT !.optIn = TRUE])
  BY <1>3, <1>4, <1>7, FilterFacts
<1>9. LeadStats.notStarted = Total([Unfiltered EXCEPT !.onboarded = FALSE])
  BY <1>3, <1>4, <1>7, FilterFacts
<1>10. LeadStats.noOutreach + LeadStats.optIn = LeadStats.total
  BY <1>4, OutreachFacts
<1> QED BY <1>1, <1>2, <1>5, <1>6, <1>8, <1>9, <1>10, DetailFacts DEF PagesCoverLeads, Total

-----------------------------------------------------------------------------

\* The invariant holds in every state.
LEMMA LeadsInvHolds == Spec => []LeadsInv
<1>1. LeadsInv /\ [Next]_vars => LeadsInv'
  BY StepHolds
<1> QED BY <1>1, InitHolds, PTL DEF Spec

\* When every recalculation for a user has ended and none failed, the stored
\* score is no older than the last change of a fact, and is that of the facts
\* as they are if it was begun later than that: for any number of users and of
\* overlapping recalculations, whatever the order of their reads and of their
\* writes (RecalculateLeadScoreUseCase.execute, saveIfNewer).
THEOREM ScoresCatchUp == Spec => []ScoreCatchesUp
<1>1. LeadsInv => ScoreCatchesUp
  <2> SUFFICES ASSUME LeadsInv PROVE ScoreCatchesUp
    OBVIOUS
  <2>1. TypeOK
    BY DEF LeadsInv, StateInv, ScoreInv, TypeOK
  <2>2. ASSUME NEW u \in Users, u \notin failed,
               \A r \in Runs : runs[r].step \in {"idle", "done"}, Scored(u)
        PROVE  Stored(u)
    <3>1. \A r \in Runs : ~Pending(r, u)
      BY <2>2 DEF Pending
    <3> QED BY <2>2, <3>1 DEF LeadsInv, FreshInv
  <2> QED BY <2>1, <2>2 DEF ScoreCatchesUp, Scored, Stored, LeadsInv, ScoreInv
<1> QED BY <1>1, LeadsInvHolds, PTL

\* In every state, whatever the filter and the size of a page, the pages of the
\* list show every lead the filter selects once and nobody else, as far as the
\* pages reach, better scores first; a page past either end is the first or the
\* last; the detail of a lead is the list's, nobody who has not agreed is
\* suggested for outreach, and the statistics count what the filtered lists show
\* (LeadReadTypeOrmRepository.list, suggestedAction, computeLeadStats).
THEOREM PagesAlwaysCoverLeads == Spec => []PagesCoverLeads
BY LeadsInvHolds, PagesCover, PTL
=============================================================================
