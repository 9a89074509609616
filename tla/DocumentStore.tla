---------------------------- MODULE DocumentStore ----------------------------
(***************************************************************************)
(* The rows of one document in `sections', and what the statements of      *)
(* SectionTypeOrmRepository, DocumentTemplateTypeOrmRepository and         *)
(* DocumentVersionMongooseRepository do to them.                           *)
(*                                                                         *)
(* Rows are numbered in the order of their insertion, which stands for     *)
(* their uuid.  `words' stands for the content of a section: under         *)
(* SECTION_GOAL_WORD_COUNT words, or not.  `placed' says which statement   *)
(* gave the row its order.                                                 *)
(***************************************************************************)
EXTENDS Integers, FiniteSets, FiniteSetsExt, SequencesExt

Words == {"brief", "long"}
Placements == {"created", "restored", "applied", "moved"}

Contents == [order : Nat, words : Words]
Rows == [order : Nat, words : Words, placed : Placements]

\* MAX("order"), and one less than the first order when there is no row.
MaxOrder(rows) == Max({-1} \cup {rows[s].order : s \in DOMAIN rows})

\* The rows and, from `first' on, one more for every content of a sequence.
Inserted(rows, first, contents, placed) ==
  [s \in DOMAIN rows \cup first .. first + Len(contents) - 1 |->
    IF s \in DOMAIN rows THEN rows[s]
    ELSE [order |-> contents[s - first + 1].order,
          words |-> contents[s - first + 1].words, placed |-> placed]]

\* Ids are not used again.
Deleted(rows, ids) == Restrict(rows, DOMAIN rows \ ids)

\* order := index, for those of `ids' that a reorder found.
Moved(rows, order, ids) ==
  [s \in DOMAIN rows |->
    IF s \in ids
    THEN [rows[s] EXCEPT !.order = CHOOSE i \in 0 .. Len(order) - 1 : order[i + 1] = s,
                         !.placed = "moved"]
    ELSE rows[s]]

\* Two creates that read the same maximum give their rows the same order.
Tied(rows) ==
  {s \in DOMAIN rows : \E t \in DOMAIN rows \ {s} : rows[t].order = rows[s].order}

\* The ways in which a listing may place such rows: those that one transaction
\* inserted have the same created_at, so not even the order of insertion decides.
Ages(rows) == Injection(Tied(rows), Tied(rows))

\* ORDER BY "order", created_at.
Precedes(rows, age, s, t) ==
  \/ rows[s].order < rows[t].order
  \/ rows[s].order = rows[t].order /\ s # t /\ age[s] < age[t]

\* The i-th row is the one that has i - 1 before it.
Listing(rows, age) ==
  [i \in 1 .. Cardinality(DOMAIN rows) |->
    CHOOSE s \in DOMAIN rows :
      Cardinality({t \in DOMAIN rows : Precedes(rows, age, t, s)}) = i - 1]

\* The listing as it is stored in a version.
Snapshot(rows, age) ==
  [i \in 1 .. Cardinality(DOMAIN rows) |->
    LET s == Listing(rows, age)[i]
    IN  [order |-> rows[s].order, words |-> rows[s].words]]

\* `sectionIds must be exactly the set of this document's section ids'
IsListingOf(order, rows) ==
  /\ ToSet(order) = DOMAIN rows
  /\ Len(order) = Cardinality(DOMAIN rows)

\* The sections of a template as rows after the last one.
Blank(size, last) == [i \in 1 .. size |-> [order |-> last + i, words |-> "brief"]]

MaxVersion(versions) == Max({0} \cup {v.number : v \in versions})
=============================================================================
