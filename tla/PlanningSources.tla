--------------------------- MODULE PlanningSources ---------------------------
(***************************************************************************)
(* What a planning job shows the model (PlanningPipeline): the owner's     *)
(* sections are found by two queries, while the owner keeps editing;       *)
(* sections and connector chunks become candidates, ordered by group and   *)
(* admitted one by one into a budget of characters.                        *)
(*                                                                         *)
(* A text is the length it has once redacted and trimmed; the lengths of   *)
(* the header lines are arbitrary.  Relevance is left open: which sections *)
(* match the prompt, and in which order equal rows come, is chosen freely. *)
(***************************************************************************)
EXTENDS Integers, FiniteSets, Sequences, Functions

CONSTANTS
  Sections,          \* section ids
  DocumentOf,        \* the document of each section, for good
  OwnerOf,           \* the owner of each document
  User,              \* the owner of the job
  Texts,             \* section texts; nothing is left to show of a text 0
  Stored,            \* the section texts a job may find when it is submitted
  Contexts,          \* connector contexts: sequences of texts, one per chunk
  Headers,           \* lengths of a line `[S<n>] <type>: <title>', its break included
  Limit,             \* DEFAULT_SECTION_RETRIEVAL_LIMIT
  MaxChars,          \* AI_MAX_INPUT_CHARS
  MaxExcerpt,        \* MAX_EXCERPT_CHARS
  MinExcerpt,        \* MIN_EXCERPT_CHARS
  MaxEdits,          \* bound: edits while the job is prepared
  None

Documents == {DocumentOf[s] : s \in Sections}

ASSUME SourcesAssumption ==
  /\ Limit \in Nat \ {0} /\ MaxChars \in Nat \ {0}
  /\ MaxExcerpt \in Nat \ {0} /\ MinExcerpt \in Nat \ {0}
  /\ Texts \subseteq Nat /\ Headers \subseteq Nat
  /\ Stored \subseteq [Sections -> Texts]
  /\ MinExcerpt <= MaxExcerpt /\ MaxEdits \in Nat
  /\ Contexts \subseteq Seq(Nat)
  /\ None \notin Sections /\ None \notin Documents
  /\ IsFiniteSet(Sections)

VARIABLES
  sections,   \* the stored text of every section, or None
  edits,      \* edits so far
  asked,      \* the job: its binding and its connector context
  stage,      \* where the pipeline is
  retrieved,  \* the rows of the two queries
  pending,    \* positions of the candidates not yet budgeted
  sources,    \* BudgetResult.sources
  remaining,  \* characters left
  dropped     \* candidates left out

sourcesVars == <<sections, edits, asked, stage, retrieved, pending, sources,
                 remaining, dropped>>
world == <<sections, edits>>
budget == <<pending, sources, remaining, dropped>>

-----------------------------------------------------------------------------
(* Submitting: the binding. *)

\* The document is taken as given, also with a section.
Bug_ResolveBinding(document, section) == [document |-> document, section |-> section]

\* resolveAndValidateBinding: a section brings its own document.
ResolveBinding(document, section) ==
  [document |-> IF section = None THEN document ELSE DocumentOf[section],
   section |-> section]

\* The 404s: the section exists and belongs to the named document, and the
\* document is the user's.
BindingValid(document, section) ==
  LET bound == ResolveBinding(document, section).document IN
  /\ section # None => sections[section] # None /\ document \in {None, DocumentOf[section]}
  /\ bound # None => OwnerOf[bound] = User

SourcesInit ==
  /\ sections \in Stored
  /\ edits = 0
  /\ asked = None
  /\ stage = "submit"
  /\ retrieved = <<>>
  /\ pending = {} /\ sources = <<>> /\ remaining = MaxChars /\ dropped = 0

Submit ==
  \E document \in Documents \cup {None}, section \in Sections \cup {None},
     context \in Contexts :
    /\ stage = "submit"
    /\ BindingValid(document, section)
    /\ asked' = [binding |-> ResolveBinding(document, section), context |-> context]
    /\ stage' = "bound"
    /\ UNCHANGED <<world, retrieved, budget>>

-----------------------------------------------------------------------------
(* Retrieval: SectionRetrieverTypeOrm.search. *)

\* COALESCE($2, the document of section $3, if that is still there).
BoundDocument ==
  LET b == asked.binding IN
  IF b.document # None THEN b.document
  ELSE IF b.section # None /\ sections[b.section] # None
       THEN DocumentOf[b.section] ELSE None

Owned == {s \in Sections : sections[s] # None /\ OwnerOf[DocumentOf[s]] = User}

Row(s, inBound) == [section |-> s, text |-> sections[s], bound |-> inBound]

Orders(found) == Bijection(1 .. Cardinality(found), found)

\* LIMIT.
Limited(rows) == SubSeq(rows, 1, IF Len(rows) < Limit THEN Len(rows) ELSE Limit)

\* (a) The sections of the bound document: the bound one, then the matching
\* ones, then the rest.
SearchBound ==
  /\ stage = "bound"
  /\ LET found == {s \in Owned : DocumentOf[s] = BoundDocument} IN
     \E matching \in SUBSET found, order \in Orders(found) :
       /\ \A j, k \in DOMAIN order : j < k =>
            /\ order[k] # asked.binding.section
            /\ order[k] \in matching =>
                 order[j] \in matching \/ order[j] = asked.binding.section
       /\ retrieved' = Limited([k \in DOMAIN order |-> Row(order[k], TRUE)])
  /\ stage' = "other"
  /\ UNCHANGED <<world, asked, budget>>

\* (b) Matches in the user's other documents, if the limit leaves room.
SearchOther ==
  /\ stage = "other"
  /\ \E matching \in SUBSET {s \in Owned : DocumentOf[s] # BoundDocument} :
       \E order \in Orders(matching) :
         /\ Len(retrieved) < Limit \/ matching = {}
         /\ retrieved' = Limited(retrieved \o
              Limited([k \in DOMAIN order |-> Row(order[k], FALSE)]))
  /\ stage' = "budget"
  /\ UNCHANGED <<world, asked, budget>>

\* A query throws: the job goes on without sections.
RetrievalFails ==
  /\ stage \in {"bound", "other"}
  /\ retrieved' = <<>>
  /\ stage' = "budget"
  /\ UNCHANGED <<world, asked, budget>>

\* The owner edits or deletes a section meanwhile.
Edit ==
  \E s \in Sections, text \in Texts \cup {None} :
    /\ edits < MaxEdits /\ stage \in {"submit", "bound", "other"}
    /\ sections[s] # None /\ text # sections[s]
    /\ sections' = [sections EXCEPT ![s] = text]
    /\ edits' = edits + 1
    /\ UNCHANGED <<asked, stage, retrieved, budget>>

-----------------------------------------------------------------------------
(* Candidates and the budget. *)

SectionCandidate(row) ==
  [group |-> IF row.bound THEN "bound-document" ELSE "other-document",
   ref |-> row.section, text |-> row.text]

\* connectorEntries and connectorCandidates: one per chunk.
ConnectorCandidate(text) == [group |-> "connector", ref |-> None, text |-> text]

\* The sections, then the chunks.
Candidates ==
  [k \in 1 .. (Len(retrieved) + Len(asked.context)) |->
     IF k <= Len(retrieved) THEN SectionCandidate(retrieved[k])
     ELSE ConnectorCandidate(asked.context[k - Len(retrieved)])]

Rank(group) ==
  CASE group = "bound-document" -> 0 [] group = "connector" -> 1
    [] group = "other-document" -> 2

\* orderCandidates: by group, otherwise as they come.
Before(j, k) ==
  LET a == Rank(Candidates[j].group)
      b == Rank(Candidates[k].group)
  IN a < b \/ (a = b /\ j < k)

Prepare ==
  /\ stage = "budget"
  /\ pending' = DOMAIN Candidates
  /\ stage' = "admit"
  /\ UNCHANGED <<world, asked, retrieved, sources, remaining, dropped>>

\* cutAtBoundary: the lengths its result may have; an ellipsis at least.
CutAtBoundary(length, max) == IF length <= max THEN {length} ELSE 1..max

\* The separator between blocks is forgotten.
Bug_Separator(n) == 0

\* Between blocks: a blank line.
Separator(n) == IF n > 1 THEN 2 ELSE 0

AtMost(a, b) == IF a < b THEN a ELSE b

\* budgetSources, one candidate with text, as source n under a header: dropped
\* when there is no room, else admitted, cut to the room.
Budget(c, n, header) ==
  LET room == remaining - Separator(n) - header IN
  \/ /\ room < AtMost(MinExcerpt, c.text)
     /\ dropped' = dropped + 1
     /\ UNCHANGED <<sources, remaining>>
  \/ /\ room >= AtMost(MinExcerpt, c.text)
     /\ \E excerpt \in CutAtBoundary(c.text, AtMost(MaxExcerpt, room)) :
          /\ sources' = Append(sources,
               [id |-> n, group |-> c.group, ref |-> c.ref,
                header |-> header, excerpt |-> excerpt])
          /\ remaining' = room - excerpt
     /\ UNCHANGED dropped

\* The next candidate in the order.  One that is empty, or that redaction
\* empties, is skipped.
Admit ==
  \E k \in pending :
    /\ stage = "admit"
    /\ \A j \in pending \ {k} : Before(k, j)
    /\ \/ /\ Candidates[k].text = 0
          /\ UNCHANGED <<sources, remaining, dropped>>
       \/ /\ Candidates[k].text > 0
          /\ \E header \in Headers : Budget(Candidates[k], Len(sources) + 1, header)
    /\ pending' = pending \ {k}
    /\ UNCHANGED <<world, asked, stage, retrieved>>

-----------------------------------------------------------------------------
SourcesNext ==
  \/ Submit \/ SearchBound \/ SearchOther \/ RetrievalFails \/ Edit
  \/ Prepare \/ Admit

SourcesSpec == SourcesInit /\ [][SourcesNext]_sourcesVars

-----------------------------------------------------------------------------

Groups == {"bound-document", "connector", "other-document"}

\* Types.
SourcesTypes ==
  /\ sections \in [Sections -> Texts \cup {None}]
  /\ edits \in 0..MaxEdits
  /\ stage \in {"submit", "bound", "other", "budget", "admit"}
  /\ stage # "submit" =>
       asked \in [binding : [document : Documents \cup {None},
                             section : Sections \cup {None}],
                  context : Contexts]
  /\ retrieved \in Seq([section : Sections, text : Texts, bound : BOOLEAN])
  /\ Len(retrieved) <= Limit
  /\ pending \subseteq Nat
  /\ sources \in Seq([id : Nat, group : Groups, ref : Sections \cup {None},
                      header : Nat, excerpt : 1..MaxExcerpt])
  /\ remaining \in 0..MaxChars /\ dropped \in Nat

\* The characters of a text made of these blocks, blank lines included.
RenderedLength(blocks) ==
  LET length[n \in 0 .. Len(blocks)] ==
        IF n = 0 THEN 0
        ELSE length[n - 1] + (IF n = 1 THEN 0 ELSE 2)
               + blocks[n].header + blocks[n].excerpt
  IN length[Len(blocks)]

\* The candidates something is left of.
WithText == {k \in DOMAIN Candidates : Candidates[k].text > 0}

\* In a well-typed state, what was admitted is never longer than
\* AI_MAX_INPUT_CHARS, the budget left is what was not used, ids number the
\* sources without gaps, and every candidate with text is either shown or
\* counted as dropped (budgetSources).
BudgetHolds ==
  /\ SourcesTypes
  /\ RenderedLength(sources) + remaining = MaxChars
  /\ \A k \in DOMAIN sources : sources[k].id = k
  /\ stage = "admit" /\ pending = {} =>
       Len(sources) + dropped = Cardinality(WithText)

FromSections == {k \in DOMAIN sources : sources[k].group # "connector"}

\* Whatever is edited or deleted between submission and the two queries: no
\* section is shown twice, all are the job owner's, those of the bound document
\* come first, the connectors' next, and the bound section before all else
\* (search, orderCandidates, resolveAndValidateBinding).
SourcesDistinct ==
  /\ \A k \in FromSections : OwnerOf[DocumentOf[sources[k].ref]] = User
  /\ \A j, k \in FromSections : j # k => sources[j].ref # sources[k].ref
  /\ \A j, k \in DOMAIN sources : j < k =>
       /\ Rank(sources[j].group) <= Rank(sources[k].group)
       /\ k \in FromSections => sources[k].ref # asked.binding.section
=============================================================================
