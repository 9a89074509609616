---------------------------- MODULE Prompts_proofs ----------------------------
(***************************************************************************)
(* The properties of Prompts for any prompts, types, instances, concurrent *)
(* activations and lookups, and any TTL.                                   *)
(*                                                                         *)
(* That a type has one active prompt rests on what an activation that is   *)
(* about to commit has ruled out: it is the only one of its type (the row  *)
(* lock on its target and the unique index), and no committed row of its   *)
(* type is left that it does not deactivate.  That an activation is visible *)
(* rests on the cache generation: an answer that was read before the cache *)
(* was cleared carries an older generation than the instance's.            *)
(***************************************************************************)
EXTENDS Prompts, FiniteSetTheorems, TLAPS

Holding(a) == tx[a].step \in {"matched", "deactivated", "activated"}

\* What an activation holds at each step.
TxInv(a) ==
  /\ tx[a].step \in {"idle", "matched", "deactivated", "activated", "committed",
                     "refused", "done"}
  /\ Holding(a) => tx[a].instance \in Instances /\ tx[a].target \in table
  /\ tx[a].step = "matched" =>
       \A q \in tx[a].matched : TypeOf[q] = TypeOf[tx[a].target]
  /\ tx[a].step \in {"deactivated", "activated"} =>
       /\ DOMAIN tx[a] = {"step", "instance", "target", "off", "on"}
       /\ \A q \in tx[a].off : TypeOf[q] = TypeOf[tx[a].target]
  /\ tx[a].step = "activated" => tx[a].on = {tx[a].target} /\ Rivals(a) = {}
  /\ tx[a].step = "committed" => tx[a].instance \in Instances /\ tx[a].epoch \in 0 .. epoch

\* Of the activations of a type one at most is about to commit.
OneWriter ==
  \A a, b \in Admins : tx[a].step = "activated" /\ tx[b].step = "activated" /\ a # b
    => TypeOf[tx[a].target] # TypeOf[tx[b].target]

ActiveInv ==
  /\ active \subseteq table
  /\ \A p, q \in active : TypeOf[p] = TypeOf[q] => p = q
  /\ \A p \in Live : \E q \in active : TypeOf[q] = TypeOf[p]

TableInv ==
  /\ table \subseteq Prompts
  /\ \A p \in table \ Seeded : Acceptable(p)

\* An entry, kept or about to be, for type t.
EntryInv(entry, t) ==
  /\ entry.epoch \in 0 .. epoch /\ entry.readAt \in 0 .. now
  /\ entry.expires = entry.readAt + TTL
  /\ entry.prompt # None => TypeOf[entry.prompt] = t

CacheInv ==
  \A i \in Instances, t \in Types : cache[i][t] # None =>
    EntryInv(cache[i][t], t) /\ cache[i][t].epoch >= floor[i]

LookupInv(l) ==
  /\ lookups[l].step \in {"idle", "read", "fill", "answered"}
  /\ lookups[l].step \in {"read", "fill"} =>
       /\ lookups[l].instance \in Instances /\ lookups[l].type \in Types
       /\ lookups[l].generation \in 0 .. generation[lookups[l].instance]
       /\ lookups[l].since \in 0 .. floor[lookups[l].instance]
  /\ lookups[l].step = "fill" =>
       /\ EntryInv(lookups[l].entry, lookups[l].type)
       /\ lookups[l].entry.readAt = now
       /\ lookups[l].entry.epoch >= lookups[l].since
       /\ lookups[l].generation = generation[lookups[l].instance] =>
            lookups[l].entry.epoch >= floor[lookups[l].instance]
  /\ lookups[l].step = "answered" =>
       lookups[l].epoch >= lookups[l].since /\ lookups[l].age < TTL

Finished == {a \in Admins : tx[a].step = "done"}

CountersInv ==
  /\ epoch \in Nat /\ now \in 0 .. MaxTime
  /\ generation \in [Instances -> Nat] /\ floor \in [Instances -> Nat]
  /\ \A i \in Instances : generation[i] <= Cardinality(Finished) /\ floor[i] <= epoch

\* The variables are functions of their indices.
TablesInv ==
  /\ tx = [a \in Admins |-> tx[a]]
  /\ lookups = [l \in Lookups |-> lookups[l]]
  /\ cache = [i \in Instances |-> cache[i]]
  /\ \A i \in Instances : cache[i] = [t \in Types |-> cache[i][t]]

PromptsInv ==
  /\ TablesInv /\ CountersInv /\ TableInv /\ ActiveInv /\ OneWriter
  /\ \A a \in Admins : TxInv(a)
  /\ CacheInv
  /\ \A l \in Lookups : LookupInv(l)

-----------------------------------------------------------------------------
(* One index of a table changes. *)

LEMMA TxSet ==
  ASSUME TablesInv, NEW a \in Admins, NEW record, tx' = [tx EXCEPT ![a] = record]
  PROVE  /\ tx' = [b \in Admins |-> tx'[b]] /\ tx'[a] = record
         /\ \A b \in Admins \ {a} : tx'[b] = tx[b]
BY DEF TablesInv

LEMMA LookupSet ==
  ASSUME TablesInv, NEW l \in Lookups, NEW record, lookups' = [lookups EXCEPT ![l] = record]
  PROVE  /\ lookups' = [k \in Lookups |-> lookups'[k]] /\ lookups'[l] = record
         /\ \A k \in Lookups \ {l} : lookups'[k] = lookups[k]
BY DEF TablesInv

LEMMA FinishedIsFinite ==
  /\ IsFiniteSet(Finished) /\ Cardinality(Finished) \in Nat
  /\ Cardinality(Finished) <= Cardinality(Admins) /\ Cardinality(Admins) \in Nat
<1>1. Finished \in SUBSET Admins /\ IsFiniteSet(Admins)
  BY PromptAssumption DEF Finished
<1>2. QED
  BY <1>1, FS_Subset, FS_CardinalityType

-----------------------------------------------------------------------------
(* Steps that leave the lookups and the caches alone. *)

\* An activation that is not touched keeps what it holds: what becomes active
\* meanwhile is of another type than one about to commit.
LEMMA TxKept ==
  ASSUME NEW b \in Admins, TxInv(b), tx'[b] = tx[b], table \subseteq table',
         epoch \in Nat, epoch' \in Nat, epoch <= epoch',
         tx[b].step = "activated" =>
           \A q \in active' \ active : TypeOf[q] # TypeOf[tx[b].target]
  PROVE  TxInv(b)'
<1>1. tx[b].step = "activated" => Rivals(b)' = {}
  BY DEF TxInv, Rivals
<1>2. tx[b].step = "committed" => tx[b].epoch \in 0 .. epoch'
  BY DEF TxInv
<1>3. QED
  BY <1>1, <1>2 DEF TxInv, Holding

\* The clock and the caches stand still while commits are counted.
LEMMA CachesKept ==
  ASSUME PromptsInv, epoch' \in Nat, epoch <= epoch',
         UNCHANGED <<cache, generation, lookups, floor, now>>
  PROVE  CacheInv' /\ \A l \in Lookups : LookupInv(l)'
<1>1. epoch \in Nat /\ 0 .. epoch \subseteq 0 .. epoch'
  BY DEF PromptsInv, CountersInv
<1>2. ASSUME NEW entry, NEW t, EntryInv(entry, t)
      PROVE  /\ entry.epoch \in 0 .. epoch' /\ entry.readAt \in 0 .. now
             /\ entry.expires = entry.readAt + TTL
             /\ entry.prompt # None => TypeOf[entry.prompt] = t
  BY <1>1, <1>2 DEF EntryInv
<1>3. CacheInv'
  BY <1>2 DEF PromptsInv, CacheInv, EntryInv
<1>4. ASSUME NEW l \in Lookups
      PROVE  LookupInv(l)'
  <2>1. LookupInv(l)
    BY DEF PromptsInv
  <2>2. lookups[l].step = "fill" => EntryInv(lookups[l].entry, lookups[l].type)'
    BY <1>2, <2>1 DEF LookupInv, EntryInv
  <2>3. QED
    BY <2>1, <2>2 DEF LookupInv
<1>5. QED
  BY <1>3, <1>4

\* A step of one activation before its commit, or that ends it.
LEMMA TxStep ==
  ASSUME PromptsInv, NEW a \in Admins, NEW record, SetTx(a, record),
         UNCHANGED <<active, epoch>>,
         tx[a].step # "done", record.step # "done",
         TxInv(a)',
         record.step = "activated" =>
           \A b \in Admins \ {a} : tx[b].step = "activated" =>
             TypeOf[tx[b].target] # TypeOf[record.target]
  PROVE  PromptsInv'
<1>1. /\ tx' = [b \in Admins |-> tx'[b]] /\ tx'[a] = record
      /\ \A b \in Admins \ {a} : tx'[b] = tx[b]
  BY TxSet DEF SetTx, PromptsInv
<1>2. TablesInv'
  BY <1>1 DEF PromptsInv, TablesInv, SetTx
<1>3. Finished' = Finished
  BY <1>1 DEF Finished
<1>4. CountersInv'
  BY <1>3 DEF PromptsInv, CountersInv, SetTx
<1>5. TableInv' /\ ActiveInv'
  BY DEF PromptsInv, TableInv, ActiveInv, SetTx
<1>6. OneWriter'
  BY <1>1 DEF PromptsInv, OneWriter
<1>7. \A b \in Admins : TxInv(b)'
  BY <1>1, TxKept DEF PromptsInv, CountersInv, SetTx
<1>8. CacheInv' /\ \A l \in Lookups : LookupInv(l)'
  BY CachesKept DEF SetTx, PromptsInv, CountersInv
<1>9. QED
  BY <1>2, <1>4, <1>5, <1>6, <1>7, <1>8 DEF PromptsInv

LEMMA CreateStep ==
  ASSUME PromptsInv, NEW p \in Prompts, Create(p)
  PROVE  PromptsInv'
<1>1. table' = table \cup {p} /\ Acceptable(p)
      /\ UNCHANGED <<active, tx, cache, generation, lookups, epoch, floor, now>>
  BY DEF Create
<1>2. TableInv' /\ ActiveInv' /\ OneWriter'
  BY <1>1 DEF PromptsInv, TableInv, ActiveInv, OneWriter
<1>3. \A b \in Admins : TxInv(b)'
  BY <1>1, TxKept DEF PromptsInv, CountersInv
<1>4. CacheInv' /\ \A l \in Lookups : LookupInv(l)'
  BY <1>1, CachesKept DEF PromptsInv, CountersInv
<1>5. TablesInv' /\ CountersInv'
  BY <1>1 DEF PromptsInv, TablesInv, CountersInv, Finished
<1>6. QED
  BY <1>2, <1>3, <1>4, <1>5 DEF PromptsInv

-----------------------------------------------------------------------------
(* Activating. *)

LEMMA ActivateStep ==
  ASSUME PromptsInv, NEW a \in Admins, Activate(a)
  PROVE  PromptsInv'
<1>1. PICK i \in Instances, p \in table :
        /\ tx[a].step = "idle"
        /\ SetTx(a, [step |-> "matched", instance |-> i, target |-> p,
                     matched |-> {q \in active : TypeOf[q] = TypeOf[p]}])
        /\ UNCHANGED <<active, epoch>>
  BY DEF Activate
<1> DEFINE record == [step |-> "matched", instance |-> i, target |-> p,
                      matched |-> {q \in active : TypeOf[q] = TypeOf[p]}]
<1>2. /\ record.step = "matched" /\ record.instance = i /\ record.target = p
      /\ \A q \in record.matched : TypeOf[q] = TypeOf[p]
  OBVIOUS
<1>3. SetTx(a, record) /\ table' = table
  BY <1>1 DEF SetTx
<1> HIDE DEF record
<1>4. tx'[a] = record
  BY <1>3, TxSet DEF SetTx, PromptsInv
<1>5. TxInv(a)'
  BY <1>2, <1>3, <1>4 DEF TxInv, Holding
<1>6. QED
  BY <1>1, <1>2, <1>3, <1>5, TxStep

LEMMA DeactivateStep ==
  ASSUME PromptsInv, NEW a \in Admins, Deactivate(a)
  PROVE  PromptsInv'
<1> DEFINE record == [step |-> "deactivated", instance |-> tx[a].instance,
                      target |-> tx[a].target, off |-> tx[a].matched \cap active,
                      on |-> {}]
<1>1. /\ record.step = "deactivated" /\ record.instance = tx[a].instance
      /\ record.target = tx[a].target /\ record.off \subseteq tx[a].matched
      /\ DOMAIN record = {"step", "instance", "target", "off", "on"}
  OBVIOUS
<1>2. /\ SetTx(a, record) /\ table' = table /\ tx[a].step = "matched"
      /\ UNCHANGED <<active, epoch>>
  BY DEF Deactivate, SetTx
<1> HIDE DEF record
<1>3. tx'[a] = record
  BY <1>2, TxSet DEF SetTx, PromptsInv
<1>4. TxInv(a)'
  BY <1>1, <1>2, <1>3 DEF TxInv, Holding, PromptsInv
<1>5. QED
  BY <1>1, <1>2, <1>4, TxStep

\* A refusal or a failure leaves nothing behind.
LEMMA RefusedStep ==
  ASSUME PromptsInv, NEW a \in Admins, Conflict(a) \/ RollBack(a)
  PROVE  PromptsInv'
<1> DEFINE record == [step |-> "refused"]
<1>1. record.step = "refused"
  OBVIOUS
<1>2. /\ SetTx(a, record) /\ tx[a].step # "done"
      /\ UNCHANGED <<active, epoch>>
  BY DEF Conflict, RollBack
<1> HIDE DEF record
<1>3. tx'[a] = record
  BY <1>2, TxSet DEF SetTx, PromptsInv
<1>4. TxInv(a)'
  BY <1>1, <1>3 DEF TxInv, Holding
<1>5. QED
  BY <1>1, <1>2, <1>4, TxStep

\* The unique index and the lock on the target leave no rival.
LEMMA MakeActiveStep ==
  ASSUME PromptsInv, NEW a \in Admins, MakeActive(a)
  PROVE  PromptsInv'
<1> DEFINE record == [tx[a] EXCEPT !.step = "activated", !.on = {tx[a].target}]
<1>1. /\ SetTx(a, record) /\ tx[a].step = "deactivated" /\ Rivals(a) = {}
      /\ tx[a].target \notin LockedByOthers(a) /\ PendingRivals(a) = {}
      /\ UNCHANGED <<active, epoch>> /\ table' = table
  BY DEF MakeActive, SetTx
<1>2. TxInv(a)
  BY DEF PromptsInv
<1>3. /\ record.step = "activated" /\ record.target = tx[a].target
      /\ record.instance = tx[a].instance /\ record.off = tx[a].off
      /\ record.on = {tx[a].target} /\ DOMAIN record = DOMAIN tx[a]
  BY <1>1, <1>2 DEF TxInv
<1> HIDE DEF record
<1>4. tx'[a] = record
  BY <1>1, TxSet DEF SetTx, PromptsInv
<1>5. TxInv(a)'
  BY <1>1, <1>2, <1>3, <1>4 DEF TxInv, Holding, Rivals
<1>6. ASSUME NEW b \in Admins \ {a}, tx[b].step = "activated"
      PROVE  TypeOf[tx[b].target] # TypeOf[record.target]
  <2>1. tx[b].on = {tx[b].target}
    BY <1>6 DEF PromptsInv, TxInv
  <2>2. tx[b].target # tx[a].target
    BY <1>1, <1>6, <2>1 DEF LockedByOthers
  <2>3. QED
    BY <1>1, <1>3, <1>6, <2>1, <2>2 DEF PendingRivals
<1>7. QED
  BY <1>1, <1>3, <1>5, <1>6, TxStep

\* The type of the target has the target; no other type is touched.
LEMMA CommitStep ==
  ASSUME PromptsInv, NEW a \in Admins, Commit(a)
  PROVE  PromptsInv'
<1>1. /\ tx[a].step = "activated" /\ active' = (active \ tx[a].off) \cup tx[a].on
      /\ epoch' = epoch + 1
      /\ UNCHANGED <<table, cache, generation, lookups, floor, now>>
  BY DEF Commit, SetTx
<1>2. PICK record : /\ tx' = [tx EXCEPT ![a] = record]
                    /\ \/ record = [step |-> "committed", instance |-> tx[a].instance,
                                    epoch |-> epoch + 1]
                       \/ record = [step |-> "refused"]
  BY DEF Commit, SetTx
<1>3. /\ tx' = [b \in Admins |-> tx'[b]] /\ tx'[a] = record
      /\ \A b \in Admins \ {a} : tx'[b] = tx[b]
  BY <1>2, TxSet DEF PromptsInv
<1>4. TxInv(a) /\ epoch \in Nat
  BY DEF PromptsInv, CountersInv
<1> DEFINE target == tx[a].target
<1>5. /\ target \in table /\ tx[a].instance \in Instances /\ Rivals(a) = {}
      /\ \A q \in tx[a].off : TypeOf[q] = TypeOf[target]
      /\ active' = (active \ tx[a].off) \cup {target}
  BY <1>1, <1>4 DEF TxInv, Holding
<1>6. TxInv(a)'
  <2>1. CASE record.step = "refused"
    BY <1>3, <2>1 DEF TxInv, Holding
  <2>2. CASE record = [step |-> "committed", instance |-> tx[a].instance,
                       epoch |-> epoch + 1]
    <3>1. record.step = "committed" /\ record.instance = tx[a].instance
          /\ record.epoch = epoch'
      BY <1>1, <2>2
    <3>2. QED
      BY <1>1, <1>3, <1>4, <1>5, <3>1 DEF TxInv, Holding
  <2>3. QED
    BY <1>2, <2>1, <2>2
<1>7. record.step \in {"committed", "refused"}
  BY <1>2
<1>8. ActiveInv'
  <2>1. active' \subseteq table'
    BY <1>1, <1>5 DEF PromptsInv, ActiveInv
  <2>2. \A q \in active' : TypeOf[q] = TypeOf[target] => q = target
    BY <1>5 DEF Rivals
  <2>3. \A q \in active' : q # target => q \in active
    BY <1>5
  <2>4. \A p, q \in active' : TypeOf[p] = TypeOf[q] => p = q
    BY <2>2, <2>3 DEF PromptsInv, ActiveInv
  <2>5. ASSUME NEW p \in Live
        PROVE  \E q \in active' : TypeOf[q] = TypeOf[p]
    <3>1. PICK q \in active : TypeOf[q] = TypeOf[p]
      BY DEF PromptsInv, ActiveInv
    <3>2. CASE q \in tx[a].off
      BY <1>5, <3>1, <3>2
    <3>3. CASE q \notin tx[a].off
      BY <1>5, <3>1, <3>3
    <3>4. QED
      BY <3>2, <3>3
  <2>6. QED
    BY <2>1, <2>4, <2>5 DEF ActiveInv
<1>9. OneWriter'
  BY <1>3, <1>7 DEF PromptsInv, OneWriter
<1>10. \A b \in Admins : TxInv(b)'
  <2>1. ASSUME NEW b \in Admins \ {a}
        PROVE  TxInv(b)'
    <3>1. tx[b].step = "activated" =>
            \A q \in active' \ active : TypeOf[q] # TypeOf[tx[b].target]
      BY <1>1, <1>5 DEF PromptsInv, OneWriter
    <3>2. epoch' \in Nat /\ epoch <= epoch'
      BY <1>1, <1>4
    <3>3. QED
      BY <1>1, <1>3, <1>4, <3>1, <3>2, TxKept DEF PromptsInv
  <2>2. QED
    BY <1>6, <2>1
<1>11. CacheInv' /\ \A l \in Lookups : LookupInv(l)'
  <2>1. epoch' \in Nat /\ epoch <= epoch'
    BY <1>1, <1>4
  <2>2. QED
    BY <1>1, <2>1, CachesKept
<1>12. TablesInv' /\ TableInv'
  BY <1>1, <1>3 DEF PromptsInv, TablesInv, TableInv
<1>13. CountersInv'
  <2>1. Finished' = Finished
    BY <1>1, <1>3, <1>7 DEF Finished
  <2>2. epoch' \in Nat /\ \A n \in Nat : n <= epoch => n <= epoch'
    BY <1>1, <1>4
  <2>3. QED
    BY <1>1, <2>1, <2>2 DEF PromptsInv, CountersInv
<1>14. QED
  BY <1>8, <1>9, <1>10, <1>11, <1>12, <1>13 DEF PromptsInv

\* The cache is empty afterwards, and whatever is being read for it carries an
\* older generation.
LEMMA ClearStep ==
  ASSUME PromptsInv, NEW a \in Admins, ClearActiveCache(a)
  PROVE  PromptsInv'
<1> DEFINE i == tx[a].instance
           record == [step |-> "done"]
<1>1. /\ tx[a].step = "committed"
      /\ generation' = [generation EXCEPT ![i] = @ + 1]
      /\ cache' = [cache EXCEPT ![i] = [t \in Types |-> None]]
      /\ floor' = [floor EXCEPT ![i] = IF tx[a].epoch > @ THEN tx[a].epoch ELSE @]
      /\ tx' = [tx EXCEPT ![a] = record]
      /\ UNCHANGED <<table, active, lookups, epoch, now>>
  BY DEF ClearActiveCache
<1>2. i \in Instances /\ tx[a].epoch \in 0 .. epoch /\ epoch \in Nat
  BY <1>1 DEF PromptsInv, TxInv, CountersInv
<1>3. record.step = "done"
  OBVIOUS
<1> HIDE DEF record
<1>4. /\ tx' = [b \in Admins |-> tx'[b]] /\ tx'[a] = record
      /\ \A b \in Admins \ {a} : tx'[b] = tx[b]
  BY <1>1, TxSet DEF PromptsInv
<1>5. /\ generation' \in [Instances -> Nat] /\ floor' \in [Instances -> Nat]
      /\ generation'[i] = generation[i] + 1
      /\ floor'[i] \in floor[i] .. epoch
      /\ \A j \in Instances \ {i} : generation'[j] = generation[j] /\ floor'[j] = floor[j]
  BY <1>1, <1>2 DEF PromptsInv, CountersInv
<1>6. CountersInv'
  <2>1. Finished' = Finished \cup {a} /\ a \notin Finished
    BY <1>1, <1>3, <1>4 DEF Finished
  <2>2. Cardinality(Finished') = Cardinality(Finished) + 1 /\ Cardinality(Finished) \in Nat
    BY <2>1, FinishedIsFinite, FS_AddElement
  <2>3. \A j \in Instances : generation'[j] <= Cardinality(Finished')
    BY <1>2, <1>5, <2>2 DEF PromptsInv, CountersInv
  <2>4. \A j \in Instances : floor'[j] <= epoch'
    BY <1>1, <1>2, <1>5 DEF PromptsInv, CountersInv
  <2>5. QED
    BY <1>1, <1>5, <2>3, <2>4 DEF PromptsInv, CountersInv
<1>7. /\ cache' = [j \in Instances |-> cache'[j]]
      /\ cache'[i] = [t \in Types |-> None]
      /\ \A j \in Instances \ {i} : cache'[j] = cache[j]
  BY <1>1, <1>2 DEF PromptsInv, TablesInv
<1>8. TablesInv'
  BY <1>1, <1>4, <1>7 DEF PromptsInv, TablesInv
<1>9. CacheInv'
  BY <1>1, <1>5, <1>7 DEF PromptsInv, CacheInv, EntryInv
<1>10. ASSUME NEW l \in Lookups
       PROVE  LookupInv(l)'
  <2> DEFINE x == lookups[l]
  <2>1. LookupInv(l) /\ lookups'[l] = x
    BY <1>1 DEF PromptsInv
  <2>2. x.step \in {"read", "fill"} =>
          /\ x.generation \in 0 .. generation'[x.instance]
          /\ x.since \in 0 .. floor'[x.instance]
          /\ x.generation = generation'[x.instance] =>
               /\ x.instance # i /\ generation'[x.instance] = generation[x.instance]
               /\ floor'[x.instance] = floor[x.instance]
    <3> SUFFICES ASSUME x.step \in {"read", "fill"}
                 PROVE  /\ x.generation \in 0 .. generation'[x.instance]
                        /\ x.since \in 0 .. floor'[x.instance]
                        /\ x.generation = generation'[x.instance] =>
                             /\ x.instance # i
                             /\ generation'[x.instance] = generation[x.instance]
                             /\ floor'[x.instance] = floor[x.instance]
      OBVIOUS
    <3>1. /\ x.instance \in Instances /\ x.generation \in 0 .. generation[x.instance]
          /\ x.since \in 0 .. floor[x.instance]
      BY <2>1 DEF LookupInv
    <3>2. generation[x.instance] \in Nat /\ floor[x.instance] \in Nat
      BY <3>1 DEF PromptsInv, CountersInv
    <3>3. CASE x.instance = i
      BY <1>2, <1>5, <3>1, <3>2, <3>3
    <3>4. CASE x.instance # i
      BY <1>5, <3>1, <3>2, <3>4
    <3>5. QED
      BY <3>3, <3>4
  <2>3. x.step = "fill" => EntryInv(lookups[l].entry, lookups[l].type)'
    BY <1>1, <2>1 DEF LookupInv, EntryInv
  <2>4. QED
    BY <1>1, <2>1, <2>2, <2>3 DEF LookupInv
<1>11. \A b \in Admins : TxInv(b)'
  <2>1. TxInv(a)'
    BY <1>3, <1>4 DEF TxInv, Holding
  <2>2. \A b \in Admins \ {a} : TxInv(b)'
    BY <1>1, <1>2, <1>4, TxKept DEF PromptsInv
  <2>3. QED
    BY <2>1, <2>2
<1>12. TableInv' /\ ActiveInv' /\ OneWriter'
  BY <1>1, <1>3, <1>4 DEF PromptsInv, TableInv, ActiveInv, OneWriter
<1>13. QED
  BY <1>6, <1>8, <1>9, <1>10, <1>11, <1>12 DEF PromptsInv

-----------------------------------------------------------------------------
(* Looking up. *)

\* A step of one lookup.
LEMMA LookupStep ==
  ASSUME PromptsInv, NEW l \in Lookups, NEW record, SetLookup(l, record),
         cache' = [i \in Instances |-> cache'[i]],
         \A i \in Instances : cache'[i] = [t \in Types |-> cache'[i][t]],
         CacheInv', LookupInv(l)'
  PROVE  PromptsInv'
<1>1. /\ UNCHANGED <<table, active, tx, generation, epoch, floor, now>>
      /\ lookups' = [lookups EXCEPT ![l] = record]
  BY DEF SetLookup
<1>2. /\ lookups' = [k \in Lookups |-> lookups'[k]]
      /\ \A k \in Lookups \ {l} : lookups'[k] = lookups[k]
  BY <1>1, LookupSet DEF PromptsInv
<1>3. TablesInv' /\ CountersInv' /\ TableInv' /\ ActiveInv' /\ OneWriter'
  BY <1>1, <1>2 DEF PromptsInv, TablesInv, CountersInv, TableInv, ActiveInv, OneWriter,
                    Finished
<1>4. \A a \in Admins : TxInv(a)'
  BY <1>1 DEF PromptsInv, TxInv, Holding, Rivals
<1>5. \A k \in Lookups : LookupInv(k)'
  BY <1>1, <1>2 DEF PromptsInv, LookupInv, EntryInv
<1>6. QED
  BY <1>3, <1>4, <1>5 DEF PromptsInv

LEMMA LookStep ==
  ASSUME PromptsInv, NEW l \in Lookups, Look(l)
  PROVE  PromptsInv'
<1>1. PICK i \in Instances, t \in Types :
        SetLookup(l, IF Fresh(cache[i][t])
                     THEN Answer(cache[i][t], floor[i])
                     ELSE [step |-> "read", instance |-> i, type |-> t,
                           generation |-> generation[i], since |-> floor[i]])
  BY DEF Look
<1>2. /\ UNCHANGED <<table, active, tx, generation, epoch, floor, now>> /\ cache' = cache
  BY DEF Look, SetLookup
<1>3. /\ cache' = [j \in Instances |-> cache'[j]] /\ CacheInv'
      /\ \A j \in Instances : cache'[j] = [u \in Types |-> cache'[j][u]]
  BY <1>2 DEF PromptsInv, TablesInv, CacheInv, EntryInv
<1>4. /\ generation[i] \in Nat /\ floor[i] \in Nat /\ now \in Nat
      /\ TTL \in Nat
  BY PromptAssumption DEF PromptsInv, CountersInv
<1>5. CASE Fresh(cache[i][t])
  <2> DEFINE entry == cache[i][t]
             record == Answer(entry, floor[i])
  <2>1. /\ entry.epoch >= floor[i] /\ entry.readAt \in 0 .. now
        /\ entry.expires = entry.readAt + TTL /\ entry.expires > now
    BY <1>5 DEF Fresh, PromptsInv, CacheInv, EntryInv
  <2>2. /\ record.step = "answered" /\ record.epoch = entry.epoch
        /\ record.since = floor[i] /\ record.age = now - entry.readAt
    BY DEF Answer
  <2>3. now - entry.readAt < TTL
    BY <1>4, <2>1
  <2>4. SetLookup(l, record)
    BY <1>1, <1>5
  <2> HIDE DEF record
  <2>5. lookups'[l] = record
    BY <2>4, LookupSet DEF SetLookup, PromptsInv
  <2>6. LookupInv(l)'
    BY <2>1, <2>2, <2>3, <2>5, PromptAssumption DEF LookupInv
  <2>7. QED
    BY <1>3, <2>4, <2>6, LookupStep
<1>6. CASE ~Fresh(cache[i][t])
  <2> DEFINE record == [step |-> "read", instance |-> i, type |-> t,
                        generation |-> generation[i], since |-> floor[i]]
  <2>1. /\ record.step = "read" /\ record.instance = i /\ record.type = t
        /\ record.generation = generation[i] /\ record.since = floor[i]
    OBVIOUS
  <2>2. SetLookup(l, record)
    BY <1>1, <1>6
  <2> HIDE DEF record
  <2>3. lookups'[l] = record
    BY <2>2, LookupSet DEF SetLookup, PromptsInv
  <2>4. LookupInv(l)'
    BY <1>2, <1>4, <2>1, <2>3 DEF LookupInv
  <2>5. QED
    BY <1>3, <2>2, <2>4, LookupStep
<1>7. QED
  BY <1>5, <1>6

LEMMA ReadStep ==
  ASSUME PromptsInv, NEW l \in Lookups, Read(l)
  PROVE  PromptsInv'
<1> DEFINE x == lookups[l]
           found == {p \in active : TypeOf[p] = x.type}
           prompt == IF found = {} THEN None ELSE CHOOSE p \in found : TRUE
           entry == [prompt |-> prompt, epoch |-> epoch, readAt |-> now,
                     expires |-> now + TTL]
           record == [step |-> "fill", instance |-> x.instance, type |-> x.type,
                      generation |-> x.generation, since |-> x.since, entry |-> entry]
<1>1. SetLookup(l, record) /\ x.step = "read" /\ cache' = cache
      /\ UNCHANGED <<table, active, tx, generation, epoch, floor, now>>
  BY DEF Read, SetLookup
<1>2. prompt # None => TypeOf[prompt] = x.type
  OBVIOUS
<1> HIDE DEF prompt
<1>3. /\ entry.prompt = prompt /\ entry.epoch = epoch /\ entry.readAt = now
      /\ entry.expires = now + TTL
  OBVIOUS
<1> HIDE DEF entry
<1>4. /\ record.step = "fill" /\ record.instance = x.instance /\ record.type = x.type
      /\ record.generation = x.generation /\ record.since = x.since
      /\ record.entry = entry
  OBVIOUS
<1> HIDE DEF record
<1>5. lookups'[l] = record
  BY <1>1, LookupSet DEF SetLookup, PromptsInv
<1>6. /\ x.instance \in Instances /\ x.type \in Types
      /\ x.generation \in 0 .. generation[x.instance]
      /\ x.since \in 0 .. floor[x.instance]
  BY <1>1 DEF PromptsInv, LookupInv
<1>7. /\ floor[x.instance] \in Nat /\ floor[x.instance] <= epoch /\ epoch \in Nat
      /\ now \in Nat
  BY <1>6, PromptAssumption DEF PromptsInv, CountersInv
<1>8. EntryInv(lookups[l].entry, lookups[l].type)'
  BY <1>1, <1>2, <1>3, <1>4, <1>5, <1>7 DEF EntryInv
<1>9. epoch >= x.since
  BY <1>6, <1>7
<1>10. LookupInv(l)'
  BY <1>1, <1>3, <1>4, <1>5, <1>6, <1>7, <1>8, <1>9 DEF LookupInv
<1>11. /\ cache' = [j \in Instances |-> cache'[j]] /\ CacheInv'
       /\ \A j \in Instances : cache'[j] = [u \in Types |-> cache'[j][u]]
  BY <1>1 DEF PromptsInv, TablesInv, CacheInv, EntryInv
<1>12. QED
  BY <1>1, <1>10, <1>11, LookupStep

LEMMA FillStep ==
  ASSUME PromptsInv, NEW l \in Lookups, Fill(l)
  PROVE  PromptsInv'
<1> DEFINE x == lookups[l]
           record == Answer(x.entry, x.since)
<1>1. /\ SetLookup(l, record) /\ x.step = "fill"
      /\ cache' = IF x.generation = generation[x.instance]
                  THEN [cache EXCEPT ![x.instance][x.type] = x.entry]
                  ELSE cache
      /\ UNCHANGED <<table, active, tx, generation, epoch, floor, now>>
  BY DEF Fill, SetLookup
<1>2. LookupInv(l) /\ x.instance \in Instances /\ x.type \in Types
      /\ EntryInv(x.entry, x.type) /\ x.entry.readAt = now
      /\ x.entry.epoch >= x.since
  BY <1>1 DEF PromptsInv, LookupInv
<1>3. /\ record.step = "answered" /\ record.epoch = x.entry.epoch
      /\ record.since = x.since /\ record.age = now - x.entry.readAt
  BY DEF Answer
<1> HIDE DEF record
<1>4. lookups'[l] = record
  BY <1>1, LookupSet DEF SetLookup, PromptsInv
<1>5. LookupInv(l)'
  <2>1. now - x.entry.readAt < TTL
    BY <1>2, PromptAssumption DEF PromptsInv, CountersInv
  <2>2. QED
    BY <1>2, <1>3, <1>4, <2>1, PromptAssumption DEF LookupInv
<1>6. CASE x.generation # generation[x.instance]
  <2>1. /\ cache' = [j \in Instances |-> cache'[j]] /\ CacheInv'
        /\ \A j \in Instances : cache'[j] = [u \in Types |-> cache'[j][u]]
    BY <1>1, <1>6 DEF PromptsInv, TablesInv, CacheInv, EntryInv
  <2>2. QED
    BY <1>1, <1>5, <2>1, LookupStep
<1>7. CASE x.generation = generation[x.instance]
  <2>1. x.entry.epoch >= floor[x.instance]
    BY <1>1, <1>2, <1>7 DEF LookupInv
  <2>2. cache' = [cache EXCEPT ![x.instance] = [cache[x.instance] EXCEPT ![x.type] = x.entry]]
    BY <1>1, <1>7
  <2>3. /\ cache' = [j \in Instances |-> cache'[j]]
        /\ cache'[x.instance] = [cache[x.instance] EXCEPT ![x.type] = x.entry]
        /\ \A j \in Instances \ {x.instance} : cache'[j] = cache[j]
    BY <1>2, <2>2 DEF PromptsInv, TablesInv
  <2>4. cache[x.instance] = [u \in Types |-> cache[x.instance][u]]
    BY <1>2 DEF PromptsInv, TablesInv
  <2>5. /\ cache'[x.instance] = [u \in Types |-> cache'[x.instance][u]]
        /\ cache'[x.instance][x.type] = x.entry
        /\ \A u \in Types \ {x.type} : cache'[x.instance][u] = cache[x.instance][u]
    BY <1>2, <2>3, <2>4
  <2>6. \A j \in Instances : cache'[j] = [u \in Types |-> cache'[j][u]]
    BY <2>3, <2>5 DEF PromptsInv, TablesInv
  <2>7. CacheInv'
    <3> SUFFICES ASSUME NEW i \in Instances, NEW t \in Types, cache'[i][t] # None
                 PROVE  EntryInv(cache'[i][t], t) /\ cache'[i][t].epoch >= floor[i]
      BY <1>1 DEF CacheInv, EntryInv
    <3>1. CASE i = x.instance /\ t = x.type
      BY <1>2, <2>1, <2>5, <3>1
    <3>2. CASE ~(i = x.instance /\ t = x.type)
      BY <2>3, <2>5, <3>2 DEF PromptsInv, CacheInv
    <3>3. QED
      BY <3>1, <3>2
  <2>8. QED
    BY <1>1, <1>5, <2>3, <2>6, <2>7, LookupStep
<1>8. QED
  BY <1>6, <1>7

\* Time passes only when nothing that was read waits to be kept.
LEMMA TickStep ==
  ASSUME PromptsInv, Tick
  PROVE  PromptsInv'
<1>1. /\ now' = now + 1 /\ now < MaxTime /\ \A l \in Lookups : lookups[l].step # "fill"
      /\ UNCHANGED <<table, active, tx, cache, generation, lookups, epoch, floor>>
  BY DEF Tick
<1>2. now \in Nat /\ now' \in 0 .. MaxTime /\ 0 .. now \subseteq 0 .. now'
  BY <1>1, PromptAssumption DEF PromptsInv, CountersInv
<1>3. CacheInv'
  BY <1>1, <1>2 DEF PromptsInv, CacheInv, EntryInv
<1>4. \A l \in Lookups : LookupInv(l)'
  BY <1>1 DEF PromptsInv, LookupInv
<1>5. TablesInv' /\ TableInv' /\ ActiveInv' /\ OneWriter'
  BY <1>1 DEF PromptsInv, TablesInv, TableInv, ActiveInv, OneWriter
<1>6. CountersInv'
  BY <1>1, <1>2 DEF PromptsInv, CountersInv, Finished
<1>7. \A a \in Admins : TxInv(a)'
  BY <1>1 DEF PromptsInv, TxInv, Holding, Rivals
<1>8. QED
  BY <1>3, <1>4, <1>5, <1>6, <1>7 DEF PromptsInv

-----------------------------------------------------------------------------
(* The theorems. *)

LEMMA PromptsInit == Init => PromptsInv
<1> SUFFICES ASSUME Init PROVE PromptsInv
  OBVIOUS
<1>1. \A a \in Admins : tx[a].step = "idle"
  BY DEF Init
<1>2. \A l \in Lookups : lookups[l].step = "idle"
  BY DEF Init
<1>3. \A i \in Instances, t \in Types : cache[i][t] = None
  BY DEF Init
<1>4. TablesInv
  BY DEF Init, TablesInv
<1>5. CountersInv
  <2>1. Cardinality(Finished) \in Nat
    BY FinishedIsFinite
  <2>2. QED
    BY <2>1, PromptAssumption DEF Init, CountersInv
<1>6. TableInv /\ ActiveInv /\ OneWriter
  BY <1>1, PromptAssumption DEF Init, TableInv, ActiveInv, OneWriter
<1>7. \A a \in Admins : TxInv(a)
  BY <1>1 DEF TxInv, Holding
<1>8. CacheInv
  BY <1>3 DEF CacheInv
<1>9. \A l \in Lookups : LookupInv(l)
  BY <1>2 DEF LookupInv
<1>10. QED
  BY <1>4, <1>5, <1>6, <1>7, <1>8, <1>9 DEF PromptsInv

LEMMA PromptsNext == PromptsInv /\ [Next]_vars => PromptsInv'
<1> SUFFICES ASSUME PromptsInv, [Next]_vars PROVE PromptsInv'
  OBVIOUS
<1>1. CASE UNCHANGED vars
  <2>1. TablesInv' /\ TableInv' /\ ActiveInv' /\ OneWriter'
    BY <1>1 DEF vars, PromptsInv, TablesInv, TableInv, ActiveInv, OneWriter
  <2>2. CountersInv'
    BY <1>1 DEF vars, PromptsInv, CountersInv, Finished
  <2>3. \A a \in Admins : TxInv(a)'
    BY <1>1 DEF vars, PromptsInv, TxInv, Holding, Rivals
  <2>4. CacheInv' /\ \A l \in Lookups : LookupInv(l)'
    BY <1>1 DEF vars, PromptsInv, CacheInv, EntryInv, LookupInv
  <2>5. QED
    BY <2>1, <2>2, <2>3, <2>4 DEF PromptsInv
<1>2. QED
  BY <1>1, CreateStep, ActivateStep, DeactivateStep, RefusedStep, MakeActiveStep,
     CommitStep, ClearStep, LookStep, ReadStep, FillStep, TickStep DEF Next

LEMMA PromptsInvariance == Spec => []PromptsInv
BY PromptsInit, PromptsNext, PTL DEF Spec

\* Whatever number of activations overlap, collide or fail, a feature type that
\* had an active prompt has exactly one in every committed state (activate and
\* UQ_prompts_active_feature_type).
THEOREM OneActivePromptPerType == Spec => []ExactlyOneActive
<1>1. PromptsInv => ExactlyOneActive
  <2> SUFFICES ASSUME PromptsInv PROVE ExactlyOneActive
    OBVIOUS
  <2>1. generation \in [Instances -> 0 .. Cardinality(Admins)]
    BY FinishedIsFinite DEF PromptsInv, CountersInv
  <2>2. TypeOK
    BY <2>1 DEF PromptsInv, CountersInv, TableInv, ActiveInv, CacheInv, EntryInv, TypeOK
  <2>3. ASSUME NEW t \in Types
        PROVE  /\ Cardinality({p \in active : TypeOf[p] = t}) <= 1
               /\ (\E p \in Live : TypeOf[p] = t) =>
                    Cardinality({p \in active : TypeOf[p] = t}) = 1
    <3> DEFINE S == {p \in active : TypeOf[p] = t}
    <3>1. CASE S = {}
      <4>1. Cardinality(S) = 0
        BY <3>1, FS_EmptySet
      <4>2. ~ \E p \in Live : TypeOf[p] = t
        BY <3>1 DEF PromptsInv, ActiveInv
      <4>3. QED
        BY <4>1, <4>2
    <3>2. CASE S # {}
      <4>1. PICK p \in S : TRUE
        BY <3>2
      <4>2. S = {p}
        BY <4>1 DEF PromptsInv, ActiveInv
      <4>3. Cardinality(S) = 1
        BY <4>2, FS_Singleton
      <4>4. QED
        BY <4>3
    <3>3. QED
      BY <3>1, <3>2
  <2>4. QED
    BY <2>2, <2>3 DEF ExactlyOneActive
<1>2. QED
  BY <1>1, PromptsInvariance, PTL

\* After an instance has answered an activation its lookups return nothing
\* older, and no instance returns what it read longer ago than the TTL
\* (findActiveByFeatureType, clearActiveCache).
THEOREM ActivationsAreVisible == Spec => []ActivationVisible
<1>1. PromptsInv => ActivationVisible
  BY DEF PromptsInv, LookupInv, ActivationVisible
<1>2. QED
  BY <1>1, PromptsInvariance, PTL

\* Whatever an administrator creates renders with the variables the callers
\* have (CreatePromptUseCase).
THEOREM CreatedPromptsAlwaysRender == Spec => []CreatedPromptsRender
<1>1. ASSUME NEW p, Acceptable(p)
      PROVE  /\ SystemNames[p] \cup UserNames[p] \subseteq RenderNames(TypeOf[p])
             /\ SystemNames[p] \cap {"content", "context", "prompt"} = {}
             /\ UserNames[p] \cap {"content", "prompt"} # {}
  <2>1. CASE TypeOf[p] = "planning"
    BY <1>1, <2>1 DEF Acceptable, AllowedNames, RequiredName, RenderNames
  <2>2. CASE TypeOf[p] # "planning"
    BY <1>1, <2>2 DEF Acceptable, AllowedNames, RequiredName, RenderNames
  <2>3. QED
    BY <2>1, <2>2
<1>2. PromptsInv => CreatedPromptsRender
  BY <1>1 DEF PromptsInv, TableInv, CreatedPromptsRender
<1>3. QED
  BY <1>2, PromptsInvariance, PTL
=============================================================================
