-------------------------- MODULE SourceImport_proofs --------------------------
(***************************************************************************)
(* Any number of handles that store, import, load and audit sources        *)
(* implement the catalog; what their callers hear is true; and what is     *)
(* stored under an imported source is one acquired snapshot.               *)
(*                                                                         *)
(* CatalogInv adds to the described rows what a handle has checked before  *)
(* it may write: a dataset was validated before its transaction, and the   *)
(* geometry that properties were matched against is stored when the        *)
(* transaction of the properties probes.  It follows that a stored part is *)
(* never replaced.  So what a handle has read of a source stays true while *)
(* it reads the rest, and AnswerInv is what each pc of a handle has read   *)
(* (ReadOK) and what it may already have answered (AnswerOK).              *)
(***************************************************************************)
EXTENDS SourceImport, SequenceTheorems, WellFoundedInduction, TLAPS

-----------------------------------------------------------------------------
(* The catalog.                                                            *)


(* The statements before the transaction of store_source_feature_properties*)
(* and those from which a transaction may write.                           *)
Matched == {"existing", "existing_values", "probe"}
PropertyPc == Matched \cup {"match"}

(* Clients are records of these fields.                                    *)
Fields == {"pc", "call", "outcome", "raced", "left", "shapes", "values"}
Whole(c) == c = [field \in Fields |-> c[field]]

ClientOK(h) ==
  LET c == client[h]
  IN c.pc \in PropertyPc \cup {"transaction"} =>
       /\ c.call.source \in Source
       /\ Offered(c.call)
       /\ c.pc = "transaction" =>
            /\ c.call.op \in WriteOp \ {"store_source_feature_properties"}
            /\ Valid(c.call)
       /\ c.pc \in PropertyPc => c.call.op = "store_source_feature_properties"
       /\ c.pc \in Matched =>
            /\ stored[c.call.source]["geometry"] # Missing
            /\ DOMAIN stored[c.call.source]["geometry"] =
                 DOMAIN c.call.row["properties"]

RowsOK ==
  /\ revision \in Nat
  /\ stored = [s \in Source |-> [p \in Part |-> stored[s][p]]]
  /\ \A s \in Source : Promise!Described(stored[s])

CatalogInv ==
  /\ RowsOK
  /\ client = [h \in Handle |-> client[h]]
  /\ \A h \in Handle : Whole(client[h]) /\ ClientOK(h)

(* A decided transaction completes a described row to a described row.     *)
LEMMA MergedIsDescribed ==
  ASSUME NEW row, NEW q, row = [p \in Part |-> row[p]],
         Promise!Described(row), Offered(q), Valid(q),
         q.op \in WriteOp \ {"store_source_feature_properties"},
         Verdict(q.op, row, q.row) = "commit"
  PROVE  /\ Promise!Described(Merged(row, q.row))
         /\ Promise!Extended(Merged(row, q.row), row)
<1> DEFINE new == Merged(row, q.row)
<1>1. /\ Conflicting(row, q.row) = {}
      /\ Lacking(row, q.row) # {}
  BY DEF Verdict, Decide
<1>2. \A p \in Part : new[p] = IF row[p] = Missing /\ q.row[p] # Missing
                               THEN q.row[p] ELSE row[p]
  BY DEF Merged, Inserted, Lacking
<1>3. \A p \in Part : row[p] # Missing /\ q.row[p] # Missing => row[p] = q.row[p]
  BY <1>1 DEF Conflicting, Differs
<1>4. Promise!Extended(new, row)
  <2>1. PICK p \in Part : row[p] = Missing /\ q.row[p] # Missing
    BY <1>1 DEF Lacking
  <2>2. new # row
    BY <1>2, <2>1
  <2> QED
    BY <1>2, <2>2 DEF Promise!Extended, Promise!Parts, Part
<1>5. Promise!Described(new)
  <2>1. CASE q.op = "store_source_snapshot"
    BY <1>2, <2>1 DEF Offered, Part, Promise!Described
  <2>2. CASE q.op = "store_source_geometry"
    <3>1. row["provenance"] # Missing
      BY <2>2 DEF Verdict, SourceExists
    <3> QED
      BY <1>2, <2>2, <3>1 DEF Offered, Part, Promise!Described
  <2>3. CASE q.op = "store_source_dataset"
    <3>1. q.row["provenance"] # Missing /\ q.row["geometry"] # Missing
      BY <2>3 DEF Offered, Part
    <3>2. new["provenance"] # Missing /\ new["geometry"] = q.row["geometry"]
      BY <1>2, <1>3, <3>1 DEF Part
    <3>3. q.row["properties"] # Missing =>
            DOMAIN q.row["properties"] = DOMAIN q.row["geometry"]
      BY <2>3 DEF Valid
    <3>4. new["properties"] # Missing => DOMAIN new["properties"] = DOMAIN q.row["geometry"]
      BY <1>2, <1>3, <3>1, <3>3 DEF Part, Promise!Described
    <3> QED
      BY <3>1, <3>2, <3>4 DEF Promise!Described
  <2> QED
    BY <2>1, <2>2, <2>3 DEF WriteOp
<1> QED
  BY <1>4, <1>5

(* Properties that match the stored geometry complete it.                  *)
LEMMA MatchedIsDescribed ==
  ASSUME NEW row, NEW q, row = [p \in Part |-> row[p]],
         Promise!Described(row), Offered(q),
         q.op = "store_source_feature_properties",
         row["properties"] = Missing, row["geometry"] # Missing,
         DOMAIN row["geometry"] = DOMAIN q.row["properties"]
  PROVE  /\ Promise!Described(Merged(row, q.row))
         /\ Promise!Extended(Merged(row, q.row), row)
<1> DEFINE new == Merged(row, q.row)
<1>1. /\ q.row["properties"] # Missing
      /\ q.row["provenance"] = Missing
      /\ q.row["geometry"] = Missing
  BY DEF Offered, Part
<1>2. /\ new["properties"] = q.row["properties"]
      /\ new["geometry"] = row["geometry"]
      /\ new["provenance"] = row["provenance"]
  BY <1>1 DEF Merged, Inserted, Lacking, Part
<1> QED
  BY <1>1, <1>2 DEF Promise!Described, Promise!Extended, Promise!Parts

(* What a handle matched stays true when rows are extended.                *)
LEMMA MatchSurvives ==
  ASSUME NEW s \in Source, CatalogInv, Promise!Add(s),
         NEW h \in Handle, client'[h] = client[h]
  PROVE  ClientOK(h)'
<1>1. \A t \in Source : stored[t]["geometry"] # Missing =>
        stored'[t]["geometry"] = stored[t]["geometry"]
  BY DEF Promise!Add, Promise!Extended, Promise!Parts, CatalogInv, RowsOK
<1> QED
  BY <1>1 DEF CatalogInv, ClientOK

LEMMA IdleIsWhole == Whole(Idle)
BY DEF Whole, Fields, Idle

LEMMA CalledIsWhole ==
  ASSUME NEW q
  PROVE  /\ Whole(Called(q))
         /\ Called(q).call = q
         /\ Called(q).pc = IF Valid(q) THEN FirstStep[q.op] ELSE "done"
BY DEF Called, Whole, Fields, Idle

(* A client that begins a call is checked by the call's validation.        *)
LEMMA CalledIsOK ==
  ASSUME NEW q, q.source \in Source, Offered(q), NEW h \in Handle,
         q.op \in WriteOp \cup ReadOp,
         client = [g \in Handle |-> client[g]],
         client' = [client EXCEPT ![h] = Called(q)]
  PROVE  ClientOK(h)'
<1>1. /\ client'[h].call = q
      /\ client'[h].pc = IF Valid(q) THEN FirstStep[q.op] ELSE "done"
  BY CalledIsWhole
<1>2. CASE ~Valid(q)
  BY <1>1, <1>2 DEF ClientOK, PropertyPc, Matched
<1>3. CASE Valid(q) /\ q.op = "store_source_feature_properties"
  BY <1>1, <1>3 DEF FirstStep, ClientOK, PropertyPc, Matched, WriteOp
<1>4. CASE Valid(q) /\ q.op \in ReadOp
  BY <1>1, <1>4 DEF FirstStep, ClientOK, PropertyPc, Matched, ReadOp, WriteOp
<1>5. CASE Valid(q) /\ q.op \in WriteOp \ {"store_source_feature_properties"}
  BY <1>1, <1>5 DEF FirstStep, ClientOK, PropertyPc, Matched, WriteOp
<1> QED
  BY <1>2, <1>3, <1>4, <1>5

(* A step of one handle that writes no row keeps the rest.                 *)
LEMMA QuietStep ==
  ASSUME CatalogInv, NEW h \in Handle, NEW c, UNCHANGED <<stored, revision>>,
         client' = [client EXCEPT ![h] = c], Whole(c), ClientOK(h)'
  PROVE  CatalogInv'
<1>1. \A g \in Handle \ {h} : client'[g] = client[g]
  BY DEF CatalogInv
<1>2. \A g \in Handle : Whole(client[g])' /\ ClientOK(g)'
  BY <1>1 DEF CatalogInv, ClientOK
<1>3. client' = [g \in Handle |-> client'[g]]
  BY DEF CatalogInv
<1> QED
  BY <1>2, <1>3 DEF CatalogInv, RowsOK

(* A handle that answers or crashes has nothing left to check.             *)
LEMMA Answers ==
  ASSUME CatalogInv, NEW h \in Handle, NEW c, UNCHANGED <<stored, revision>>,
         client' = [client EXCEPT ![h] = c], Whole(c),
         c.pc \notin PropertyPc \cup {"transaction"}
  PROVE  CatalogInv'
<1>1. ClientOK(h)'
  BY DEF CatalogInv, ClientOK
<1> QED
  BY <1>1, QuietStep

(* A return, with or without a refresh before it.                          *)
LEMMA Returns ==
  ASSUME CatalogInv, NEW h \in Handle, NEW status,
         UNCHANGED <<stored, revision>>,
         Return(h, status) \/ ReturnAfterRefresh(h, status)
  PROVE  CatalogInv'
<1>0. Whole(client[h])
  BY DEF CatalogInv
<1>1. CASE Return(h, status)
  <2>1. Whole(Finished(h, status)) /\ Finished(h, status).pc = "done"
    BY DEF Finished, Whole, Fields, Idle
  <2> QED
    BY <1>1, <2>1, Answers DEF Return, PropertyPc, Matched
<1>2. CASE ReturnAfterRefresh(h, status)
  <2> DEFINE c == [client[h] EXCEPT !.pc = "refresh", !.outcome = Outcome(status, FALSE)]
  <2>1. client' = [client EXCEPT ![h] = c]
    BY <1>2 DEF ReturnAfterRefresh
  <2>2. Whole(c) /\ c.pc = "refresh"
    BY <1>0 DEF Whole, Fields
  <2> QED
    BY <2>1, <2>2, Answers DEF PropertyPc, Matched
<1> QED
  BY <1>1, <1>2

(* Beginning a call, and importing a snapshot.                             *)
LEMMA Begins ==
  ASSUME CatalogInv, NEW h \in Handle, Begin(h) \/ Import(h)
  PROVE  CatalogInv'
<1>1. CASE Begin(h)
  <2>1. PICK q \in Call : client' = [client EXCEPT ![h] = Called(q)]
    BY <1>1 DEF Begin
  <2>2. Offered(q) /\ q.source \in Source /\ q.op \in WriteOp \cup ReadOp
    BY SourceAssumption DEF CallType
  <2>3. ClientOK(h)'
    BY <2>1, <2>2, CalledIsOK DEF CatalogInv
  <2> QED
    BY <1>1, <2>1, <2>3, CalledIsWhole, QuietStep DEF Begin
<1>2. CASE Import(h)
  <2>1. PICK reached \in Imports : client' = [client EXCEPT ![h] = reached]
    BY <1>2 DEF Import
  <2>2. UNCHANGED <<stored, revision>>
    BY <1>2 DEF Import
  <2>3. PICK s \in ImportSource, root \in Root, manifest \in Manifest, binding \in Binding :
          \E report \in Reports(binding.adapter, manifest) :
            reached = Imported(s, root, manifest, binding, report)
    BY <2>1 DEF Imports
  <2>4. CASE \E verdict : reached = Rejected(verdict)
    BY <2>1, <2>2, <2>4, Answers DEF Rejected, Idle, Whole, Fields, PropertyPc, Matched
  <2>5. CASE \E row : reached = Recorded(s, row) /\ Missing \notin {row["provenance"], row["geometry"]}
    <3>1. PICK row : reached = Recorded(s, row) /\ Missing \notin {row["provenance"], row["geometry"]}
      BY <2>5
    <3> DEFINE q == [op |-> "store_source_dataset", source |-> s, row |-> row]
    <3>2. Offered(q) /\ q.source \in Source /\ q.op \in WriteOp \cup ReadOp
      BY <3>1, ImportAssumption DEF Offered, Part, WriteOp
    <3>3. ClientOK(h)'
      BY <2>1, <3>1, <3>2, CalledIsOK DEF CatalogInv, Recorded
    <3> QED
      BY <2>1, <2>2, <3>1, <3>3, CalledIsWhole, QuietStep DEF Recorded
  <2>6. PICK report \in Reports(binding.adapter, manifest) :
          reached = Imported(s, root, manifest, binding, report)
    BY <2>3
  <2>7. CASE /\ VerifyVerdict(root, manifest) = "ok"
             /\ BridgeVerdict(binding, manifest, report) = "ok"
    <3> DEFINE row == RecordedRow(binding, manifest, report)
    <3>1. Missing \notin {row["provenance"], row["geometry"]}
      BY <2>7, RecordAssumption DEF RecordedRow
    <3> QED
      BY <2>5, <2>6, <2>7, <3>1 DEF Imported
  <2> QED
    BY <2>4, <2>6, <2>7 DEF Imported
<1> QED
  BY <1>1, <1>2

(* A committed row is one addition to the catalog.                         *)
LEMMA CommitAdds ==
  ASSUME CatalogInv, NEW h \in Handle, Commit(h),
         client[h].call.source \in Source,
         Promise!Described(Merged(Stored(h), Offer(h))),
         Promise!Extended(Merged(Stored(h), Offer(h)), Stored(h))
  PROVE  Promise!Add(client[h].call.source) /\ CatalogInv'
<1> DEFINE s == client[h].call.source
           row == Merged(Stored(h), Offer(h))
           c == [client[h] EXCEPT !.pc = "refresh", !.outcome = Outcome("ok", TRUE)]
<1>1. /\ stored' = [stored EXCEPT ![s] = row]
      /\ revision' = revision + 1
      /\ client' = [client EXCEPT ![h] = c]
  BY DEF Commit, AdvanceRevision, Stored, Offer
<1>2. row = [p \in Part |-> row[p]]
  BY DEF Merged
<1>3. Promise!Add(s)
  BY <1>1 DEF Promise!Add, CatalogInv, RowsOK, Stored
<1>4. RowsOK'
  <2>1. \A t \in Source : stored'[t] = IF t = s THEN row ELSE stored[t]
    BY <1>1 DEF CatalogInv, RowsOK
  <2>2. \A t \in Source : Promise!Described(stored'[t])
    BY <2>1 DEF CatalogInv, RowsOK
  <2>3. \A t \in Source : stored'[t] = [p \in Part |-> stored'[t][p]]
    <3>1. SUFFICES ASSUME NEW t \in Source
                   PROVE  stored'[t] = [p \in Part |-> stored'[t][p]]
      OBVIOUS
    <3>2. stored[t] = [p \in Part |-> stored[t][p]]
      BY DEF CatalogInv, RowsOK
    <3> QED
      BY <1>2, <2>1, <3>2
  <2>4. stored' = [t \in Source |-> stored'[t]] /\ revision' \in Nat
    BY <1>1 DEF CatalogInv, RowsOK
  <2> QED
    BY <2>2, <2>3, <2>4 DEF RowsOK
<1>5. Whole(c) /\ c.pc = "refresh"
  BY DEF CatalogInv, Whole, Fields
<1>6. ClientOK(h)' /\ Whole(client'[h])
  BY <1>1, <1>5 DEF CatalogInv, ClientOK, PropertyPc, Matched
<1>7. \A g \in Handle \ {h} : ClientOK(g)' /\ Whole(client'[g])
  <2>1. SUFFICES ASSUME NEW g \in Handle \ {h} PROVE ClientOK(g)' /\ Whole(client'[g])
    OBVIOUS
  <2>2. client'[g] = client[g]
    BY <1>1 DEF CatalogInv
  <2> QED
    BY <1>3, <2>2, MatchSurvives DEF CatalogInv
<1>8. client' = [g \in Handle |-> client'[g]]
  BY <1>1 DEF CatalogInv
<1> QED
  BY <1>3, <1>4, <1>6, <1>7, <1>8 DEF CatalogInv

(* Transactions of the stores that decide on the rows they locked.         *)
LEMMA TransactionAdds ==
  ASSUME CatalogInv, NEW h \in Handle, Transaction(h)
  PROVE  CatalogInv' /\ [Promise!Next]_<<stored, revision>>
<1> DEFINE q == client[h].call
           verdict == Verdict(q.op, Stored(h), Offer(h))
<1>1. /\ q.source \in Source /\ Offered(q) /\ Valid(q)
      /\ q.op \in WriteOp \ {"store_source_feature_properties"}
  BY DEF Transaction, At, CatalogInv, ClientOK
<1>2. CASE verdict = "commit"
  <2>1. Commit(h)
    BY <1>2 DEF Transaction
  <2>2. Stored(h) = [p \in Part |-> Stored(h)[p]] /\ Promise!Described(Stored(h))
    BY <1>1 DEF CatalogInv, RowsOK, Stored
  <2>3. /\ Promise!Described(Merged(Stored(h), Offer(h)))
        /\ Promise!Extended(Merged(Stored(h), Offer(h)), Stored(h))
    BY <1>1, <1>2, <2>2, MergedIsDescribed DEF Offer
  <2> QED
    BY <1>1, <2>1, <2>3, CommitAdds DEF Promise!Next
<1>3. CASE verdict # "commit"
  <2>1. /\ UNCHANGED <<stored, revision>>
        /\ \E status : Return(h, status) \/ ReturnAfterRefresh(h, status)
    BY <1>3 DEF Transaction
  <2> QED
    BY <2>1, Returns
<1> QED
  BY <1>2, <1>3

(* The transaction of the properties, once no marker was found.            *)
LEMMA ProbeAdds ==
  ASSUME CatalogInv, NEW h \in Handle, Probe(h)
  PROVE  CatalogInv' /\ [Promise!Next]_<<stored, revision>>
<1> DEFINE q == client[h].call
<1>1. /\ q.source \in Source /\ Offered(q)
      /\ q.op = "store_source_feature_properties"
      /\ Stored(h)["geometry"] # Missing
      /\ DOMAIN Stored(h)["geometry"] = DOMAIN q.row["properties"]
  BY DEF Probe, At, CatalogInv, ClientOK, PropertyPc, Matched, Stored
<1>2. CASE Stored(h).properties = Missing
  <2>1. Commit(h)
    BY <1>2 DEF Probe, HasProperties
  <2>2. Stored(h) = [p \in Part |-> Stored(h)[p]] /\ Promise!Described(Stored(h))
    BY <1>1 DEF CatalogInv, RowsOK, Stored
  <2>3. /\ Promise!Described(Merged(Stored(h), Offer(h)))
        /\ Promise!Extended(Merged(Stored(h), Offer(h)), Stored(h))
    BY <1>1, <1>2, <2>2, MatchedIsDescribed DEF Offer
  <2> QED
    BY <1>1, <2>1, <2>3, CommitAdds DEF Promise!Next
<1>3. CASE Stored(h).properties # Missing
  <2> DEFINE c == [client[h] EXCEPT !.pc = "existing", !.raced = TRUE]
  <2>1. client' = [client EXCEPT ![h] = c] /\ UNCHANGED <<stored, revision>>
    BY <1>3 DEF Probe, HasProperties
  <2>2. Whole(c) /\ c.pc = "existing" /\ c.call = q
    BY DEF CatalogInv, Whole, Fields
  <2>3. ClientOK(h)'
    BY <1>1, <2>1, <2>2 DEF CatalogInv, ClientOK, PropertyPc, Matched, Stored
  <2> QED
    BY <2>1, <2>2, <2>3, QuietStep
<1> QED
  BY <1>2, <1>3

(* A step that only moves a handle on, over a matched geometry.            *)
LEMMA MovesOn ==
  ASSUME CatalogInv, NEW h \in Handle, NEW c, UNCHANGED <<stored, revision>>,
         client' = [client EXCEPT ![h] = c], Whole(c),
         c.call = client[h].call,
         c.pc \in Matched => client[h].pc \in Matched,
         c.pc # "transaction", c.pc # "match"
  PROVE  CatalogInv'
<1>1. client'[h] = c
  BY DEF CatalogInv
<1>2. ClientOK(h)'
  BY <1>1 DEF CatalogInv, ClientOK, PropertyPc, Matched
<1> QED
  BY <1>2, QuietStep

(* Reading one value, before the transaction or in the loader.             *)
LEMMA ReadsValue ==
  ASSUME CatalogInv, NEW h \in Handle, NEW then, UNCHANGED <<stored, revision>>,
         ReadValue(h, then), ~ \E status : Return(h, status),
         then \in Matched => client[h].pc \in Matched,
         then # "transaction", then # "match"
  PROVE  CatalogInv'
<1> DEFINE f == First(client[h].left)
           c == [client[h] EXCEPT !.values = With(@, f, StoredValue(Stored(h), f)),
                                  !.left = @ \ {f}, !.pc = then]
<1>1. Whole(c) /\ c.pc = then /\ c.call = client[h].call
  BY DEF CatalogInv, Whole, Fields
<1>2. client' = [client EXCEPT ![h] = c]
  BY DEF ReadValue
<1> QED
  BY <1>1, <1>2, MovesOn

(* The looks of store_source_feature_properties before its transaction.    *)
LEMMA Looks ==
  ASSUME CatalogInv, NEW h \in Handle, Look(h)
  PROVE  CatalogInv'
<1>0. /\ UNCHANGED <<stored, revision>>
      /\ Whole(client[h])
  BY DEF Look, Match, Existing, ExistingValue, CompareExisting, CatalogInv
<1>1. CASE Match(h)
  <2>1. CASE \E status : Return(h, status)
    BY <1>0, <2>1, Returns
  <2>2. CASE /\ Go(h, "existing") /\ Stored(h).geometry # Missing
             /\ DOMAIN Stored(h).geometry = DOMAIN Offer(h).properties
    <3> DEFINE c == [client[h] EXCEPT !.pc = "existing"]
    <3>1. client' = [client EXCEPT ![h] = c]
      BY <2>2 DEF Go
    <3>2. Whole(c) /\ c.pc = "existing" /\ c.call = client[h].call
      BY <1>0 DEF Whole, Fields
    <3>3. ClientOK(h)'
      BY <1>0, <1>1, <2>2, <3>1, <3>2
         DEF Match, At, CatalogInv, ClientOK, PropertyPc, Matched, Stored, Offer
    <3> QED
      BY <1>0, <3>1, <3>2, <3>3, QuietStep
  <2> QED
    BY <1>1, <2>1, <2>2 DEF Match, HasGeometry
<1>2. CASE Existing(h)
  <2>1. CASE \E status : Return(h, status)
    BY <1>0, <2>1, Returns
  <2>2. CASE Go(h, "probe")
    <3> DEFINE c == [client[h] EXCEPT !.pc = "probe"]
    <3>1. Whole(c) /\ c.pc = "probe" /\ c.call = client[h].call
      BY <1>0 DEF Whole, Fields
    <3> QED
      BY <1>0, <1>2, <2>2, <3>1, MovesOn DEF Go, Existing, At, Matched
  <2>3. CASE client' = [client EXCEPT ![h].pc = "existing_values", ![h].values = <<>>,
                                      ![h].left = Features(Stored(h).geometry)]
    <3> DEFINE c == [client[h] EXCEPT !.pc = "existing_values", !.values = <<>>,
                                      !.left = Features(Stored(h).geometry)]
    <3>1. Whole(c) /\ c.pc = "existing_values" /\ c.call = client[h].call
      BY <1>0 DEF Whole, Fields
    <3> QED
      BY <1>0, <1>2, <2>3, <3>1, MovesOn DEF Existing, At, Matched
  <2> QED
    BY <1>2, <2>1, <2>2, <2>3 DEF Existing
<1>3. CASE ExistingValue(h)
  <2>1. CASE \E status : Return(h, status)
    BY <1>0, <2>1, Returns
  <2>2. CASE ~ \E status : Return(h, status)
    BY <1>0, <1>3, <2>2, ReadsValue DEF ExistingValue, At, Matched
  <2> QED
    BY <2>1, <2>2
<1>4. CASE CompareExisting(h)
  BY <1>0, <1>4, Returns DEF CompareExisting
<1> QED
  BY <1>1, <1>2, <1>3, <1>4 DEF Look

(* The loader and the audit write nothing and never lead to a write.       *)
LEMMA Loads ==
  ASSUME CatalogInv, NEW h \in Handle, Load(h) \/ Audit(h)
  PROVE  CatalogInv'
<1>0. /\ UNCHANGED <<stored, revision>>
      /\ Whole(client[h])
  BY DEF Load, Catalog, GeometryIndex, PropertyIndex, ReadShape,
         ReadFeatureValue, Loaded, Audit, AuditGeometry, AuditProperties, CatalogInv
<1>1. CASE \E status : Return(h, status)
  BY <1>0, <1>1, Returns
<1>2. CASE Catalog(h) /\ Go(h, "geometry_index")
  <2> DEFINE c == [client[h] EXCEPT !.pc = "geometry_index"]
  <2>1. Whole(c) /\ c.pc = "geometry_index" /\ c.call = client[h].call
    BY <1>0 DEF Whole, Fields
  <2> QED
    BY <1>0, <1>2, <2>1, MovesOn DEF Go, Matched
<1>3. CASE GeometryIndex(h)
  <2> DEFINE c == [client[h] EXCEPT !.pc = "property_index",
                                    !.left = DOMAIN Stored(h).geometry]
  <2>1. Whole(c) /\ c.pc = "property_index" /\ c.call = client[h].call
    BY <1>0 DEF Whole, Fields
  <2>2. CASE client' = [client EXCEPT ![h] = c]
    BY <1>0, <2>1, <2>2, MovesOn DEF Matched
  <2> QED
    BY <1>1, <1>3, <2>2 DEF GeometryIndex
<1>4. CASE PropertyIndex(h)
  <2>1. CASE Go(h, "shapes")
    <3> DEFINE c == [client[h] EXCEPT !.pc = "shapes"]
    <3>1. Whole(c) /\ c.pc = "shapes" /\ c.call = client[h].call
      BY <1>0 DEF Whole, Fields
    <3> QED
      BY <1>0, <2>1, <3>1, MovesOn DEF Go, Matched
  <2>2. CASE client' = [client EXCEPT ![h].pc = "shapes", ![h].values = <<>>]
    <3> DEFINE c == [client[h] EXCEPT !.pc = "shapes", !.values = <<>>]
    <3>1. Whole(c) /\ c.pc = "shapes" /\ c.call = client[h].call
      BY <1>0 DEF Whole, Fields
    <3> QED
      BY <1>0, <2>2, <3>1, MovesOn DEF Matched
  <2> QED
    BY <1>1, <1>4, <2>1, <2>2 DEF PropertyIndex
<1>5. CASE ReadShape(h)
  <2> DEFINE f == First(client[h].left)
             complete == client[h].values # Missing
             c == [client[h] EXCEPT
                     !.shapes = With(@, f, StoredShape(Stored(h), f)),
                     !.left = IF complete THEN @ ELSE @ \ {f},
                     !.pc = IF complete THEN "values" ELSE @]
  <2>1. /\ Whole(c) /\ c.call = client[h].call
        /\ c.pc = IF complete THEN "values" ELSE client[h].pc
    BY <1>0 DEF Whole, Fields
  <2>2. c.pc \in {"values", "shapes"}
    BY <1>5, <2>1 DEF ReadShape, At
  <2>3. CASE client' = [client EXCEPT ![h] = c]
    <3> HIDE DEF c
    <3> QED
      BY <1>0, <2>1, <2>2, <2>3, MovesOn DEF Matched
  <2> QED
    BY <1>1, <1>5, <2>3 DEF ReadShape
<1>6. CASE ReadFeatureValue(h)
  BY <1>0, <1>1, <1>6, ReadsValue DEF ReadFeatureValue, At, Matched
<1>7. CASE Go(h, "audit_properties")
  <2> DEFINE c == [client[h] EXCEPT !.pc = "audit_properties"]
  <2>1. Whole(c) /\ c.pc = "audit_properties" /\ c.call = client[h].call
    BY <1>0 DEF Whole, Fields
  <2> QED
    BY <1>0, <1>7, <2>1, MovesOn DEF Go, Matched
<1> QED
  BY <1>1, <1>2, <1>3, <1>4, <1>5, <1>6, <1>7
     DEF Load, Catalog, Loaded, Audit, AuditGeometry, AuditProperties

(* The handles together keep the invariant, and every step of theirs is an *)
(* addition to the catalog or none.                                        *)
LEMMA CatalogInductive ==
  ASSUME CatalogInv, [ImportNext]_vars
  PROVE  CatalogInv' /\ [Promise!Next]_<<stored, revision>>
<1>1. CASE UNCHANGED vars
  BY <1>1 DEF vars, CatalogInv, RowsOK, ClientOK
<1>2. CASE \E h \in Handle : Transaction(h)
  BY <1>2, TransactionAdds
<1>3. CASE \E h \in Handle : Probe(h)
  BY <1>3, ProbeAdds
<1>4. CASE \E h \in Handle : Begin(h) \/ Import(h)
  BY <1>4, Begins DEF Begin, Import
<1>5. CASE \E h \in Handle : Refresh(h) \/ Fails(h)
  BY <1>5, Returns DEF Refresh, Fails
<1>6. CASE \E h \in Handle : Crash(h)
  BY <1>6, IdleIsWhole, Answers DEF Crash, Idle, PropertyPc, Matched
<1>7. CASE \E h \in Handle : Look(h)
  BY <1>7, Looks DEF Look, Match, Existing, ExistingValue, CompareExisting
<1>8. CASE \E h \in Handle : Load(h) \/ Audit(h)
  BY <1>8, Loads DEF Load, Catalog, GeometryIndex, PropertyIndex, ReadShape,
                     ReadFeatureValue, Loaded, Audit, AuditGeometry, AuditProperties
<1> QED
  BY <1>1, <1>2, <1>3, <1>4, <1>5, <1>6, <1>7, <1>8 DEF ImportNext, Next, Write

LEMMA CatalogInitially ==
  ASSUME Init
  PROVE  CatalogInv /\ Promise!Init
BY DEF Init, CatalogInv, RowsOK, ClientOK, Nothing, Idle, Whole, Fields, Part,
       PropertyPc, Matched, Promise!Described, Promise!Init, Promise!Parts

(* No source of any project is ever seen with a part that does not fit, no *)
(* part is ever replaced, and every addition is one revision, for every    *)
(* set of handles, sources, requests, manifests and adapters.              *)
THEOREM SourcesImplementCatalog == ImportSpec => CatalogSpec
<1>1. Init => CatalogInv /\ Promise!Init
  BY CatalogInitially
<1>2. CatalogInv /\ [ImportNext]_vars => CatalogInv' /\ [Promise!Next]_<<stored, revision>>
  BY CatalogInductive
<1> QED
  BY <1>1, <1>2, PTL DEF ImportSpec, CatalogSpec, Promise!Spec

-----------------------------------------------------------------------------
(* What has been read and answered.                                        *)

LoadPc == {"catalog", "geometry_index", "property_index", "shapes", "values"}
AuditPc == {"audit", "audit_properties"}

(* The part of a function that was read.                                   *)
Reads(found, whole, D) == found = [f \in D |-> whole[f]]

ShapesRead(c) == IF c.pc = "values" THEN c.left \ {First(c.left)} ELSE c.left

ReadOK(c, row) ==
  /\ c.raced => HasProperties(row)
  /\ c.pc = "existing_values" =>
       /\ HasProperties(row) /\ c.left \subseteq DOMAIN row["properties"]
       /\ Reads(c.values, row["properties"], DOMAIN row["properties"] \ c.left)
  /\ c.pc \in {"catalog", "geometry_index", "property_index"} =>
       c.shapes = <<>> /\ c.values = Missing
  /\ c.pc \in {"property_index", "shapes", "values"} =>
       HasGeometry(row) /\ c.left \subseteq DOMAIN row["geometry"]
  /\ c.pc = "property_index" => c.left = DOMAIN row["geometry"]
  /\ c.pc \in {"shapes", "values"} =>
       /\ Reads(c.shapes, row["geometry"], DOMAIN row["geometry"] \ ShapesRead(c))
       /\ c.values # Missing =>
            /\ HasProperties(row)
            /\ Reads(c.values, row["properties"], DOMAIN row["geometry"] \ c.left)
  /\ c.pc = "values" => c.left # {} /\ c.values # Missing

(* The call fits the statement it is at.                                   *)
StageOK(c) ==
  /\ c.pc \in LoadPc => c.call.op = "load_durable_source_result"
  /\ c.pc \in AuditPc => c.call.op = "verify_integrity"
  /\ c.pc = "refresh" => c.call.op \in WriteOp

Holds(row, offer) == \A p \in Part : offer[p] # Missing => row[p] = offer[p]

AnswerOK(c, row) ==
  /\ c.outcome.inserted => Holds(row, c.call.row)
  /\ c.pc \in {"refresh", "done"} /\ c.call.op \in WriteOp =>
       /\ c.outcome.status = "ok" => Holds(row, c.call.row)
       /\ c.outcome.status = "record_exists" => \E p \in Part : Differs(row, c.call.row, p)
       /\ c.outcome.status # "schema_invalid"
  /\ c.pc = "done" /\ c.call.op \in ReadOp =>
       /\ c.outcome.status \notin {"schema_invalid", "record_not_found"}
       /\ c.outcome.status = "ok" /\ c.call.op = "load_durable_source_result" =>
            /\ c.shapes = row["geometry"]
            /\ c.values \in {Missing, row["properties"]}

ClientTypeOK(c) ==
  /\ c.call \in CallType \cup {NoCall}
  /\ c.left \subseteq Feature
  /\ c.shapes \in Geometries
  /\ c.values \in PropertySets \cup {Missing}
  /\ c.raced \in BOOLEAN
  /\ c.outcome.inserted \in BOOLEAN

CallOK(c, row) == Offered(c.call) /\ StageOK(c) /\ ReadOK(c, row) /\ AnswerOK(c, row)

ClientInv(h) ==
  LET c == client[h]
  IN /\ ClientTypeOK(c)
     /\ c.call = NoCall => c.pc \in {"idle", "done"}
     /\ c.call # NoCall => CallOK(c, stored[c.call.source])

AnswerInv ==
  /\ stored \in [Source -> Row]
  /\ revision \in 0..MaxRevision
  /\ known \in [Handle -> 0..MaxRevision]
  /\ \A h \in Handle : ClientInv(h)

(* Every geometry of an imported source came with its whole row from one   *)
(* accepted import, and so did every offer under way.                      *)
Accepted(row) ==
  \E root \in Root, manifest \in Manifest, binding \in Binding :
    \E report \in Reports(binding.adapter, manifest) :
      /\ VerifyVerdict(root, manifest) = "ok"
      /\ BridgeVerdict(binding, manifest, report) = "ok"
      /\ \A p \in Part : row[p] = RecordedRow(binding, manifest, report)[p]

OfferOK(c) ==
  c.call # NoCall /\ c.call.source \in ImportSource /\ c.call.op \in WriteOp =>
    \/ c.call.op = "store_source_snapshot"
    \/ c.call.op = "store_source_dataset" /\ Accepted(c.call.row)

ImportInv ==
  /\ \A h \in Handle : OfferOK(client[h])
  /\ \A s \in ImportSource : HasGeometry(stored[s]) => Accepted(stored[s])

-----------------------------------------------------------------------------
(* Functions that are read one element at a time.                          *)

LEMMA NothingRead ==
  /\ \A whole : Reads(<<>>, whole, {})
  /\ \A S : <<>> \in OfFeatures(S)
<1>1. ASSUME NEW whole PROVE Reads(<<>>, whole, {})
  BY DEF Reads
<1>2. ASSUME NEW S PROVE <<>> \in OfFeatures(S)
  <2>1. <<>> \in [{} -> S]
    OBVIOUS
  <2> QED
    BY <2>1 DEF OfFeatures
<1> QED
  BY <1>1, <1>2

LEMMA ReadOneMore ==
  ASSUME NEW found, NEW whole, NEW D, NEW f, Reads(found, whole, D)
  PROVE  Reads(With(found, f, whole[f]), whole, D \cup {f})
<1>1. DOMAIN found = D /\ \A g \in D : found[g] = whole[g]
  BY DEF Reads
<1> QED
  BY <1>1 DEF Reads, With

LEMMA FeatureFunction ==
  ASSUME NEW S, NEW part \in OfFeatures(S)
  PROVE  /\ part = [f \in DOMAIN part |-> part[f]]
         /\ DOMAIN part \subseteq Feature
         /\ \A f \in DOMAIN part : part[f] \in S
<1>1. PICK F \in SUBSET Feature : part \in [F -> S]
  BY DEF OfFeatures
<1> QED
  BY <1>1

LEMMA WithFeature ==
  ASSUME NEW S, NEW found \in OfFeatures(S), NEW f \in Feature, NEW v \in S
  PROVE  With(found, f, v) \in OfFeatures(S)
<1>1. /\ DOMAIN found \subseteq Feature
      /\ \A g \in DOMAIN found : found[g] \in S
  BY FeatureFunction
<1>2. With(found, f, v) \in [DOMAIN found \cup {f} -> S]
  BY <1>1 DEF With
<1> QED
  BY <1>1, <1>2 DEF OfFeatures

LEMMA FirstIsOf ==
  ASSUME NEW S, S # {}
  PROVE  First(S) \in S
BY DEF First

(* A stored geometry, and stored properties, are functions of features.    *)
LEMMA RowParts ==
  ASSUME NEW row \in Row
  PROVE  /\ row["geometry"] # Missing =>
              /\ row["geometry"] = [f \in DOMAIN row["geometry"] |-> row["geometry"][f]]
              /\ DOMAIN row["geometry"] \subseteq Feature
              /\ \A f \in DOMAIN row["geometry"] : row["geometry"][f] \in Shape
         /\ row["properties"] # Missing =>
              /\ row["properties"] = [f \in DOMAIN row["properties"] |-> row["properties"][f]]
              /\ DOMAIN row["properties"] \subseteq Feature
              /\ \A f \in DOMAIN row["properties"] : row["properties"][f] \in Value
<1>1. /\ row["geometry"] \in OfFeatures(Shape) \cup {Missing}
      /\ row["properties"] \in OfFeatures(Value) \cup {Missing}
  BY DEF Row, Geometries, PropertySets
<1> QED
  BY <1>1, FeatureFunction

(* The marker of complete properties counts the features of the geometry.  *)
LEMMA IndexesAgree ==
  ASSUME NEW row, Promise!Described(row)
  PROVE  /\ ~IndexDisagrees(row)
         /\ HasProperties(row) =>
              HasGeometry(row) /\ DOMAIN row["properties"] = DOMAIN row["geometry"]
BY DEF Promise!Described, IndexDisagrees, HasProperties, HasGeometry, Features, MarkerCount

LEMMA MergedIsRow ==
  ASSUME NEW row \in Row, NEW offer \in Row
  PROVE  Merged(row, offer) \in Row
<1>1. \A p \in Part : Merged(row, offer)[p] \in {row[p], offer[p]}
  BY DEF Merged, Inserted
<1>2. Merged(row, offer) = [provenance |-> Merged(row, offer)["provenance"],
                            geometry |-> Merged(row, offer)["geometry"],
                            properties |-> Merged(row, offer)["properties"]]
  BY DEF Merged, Part
<1> QED
  BY <1>1, <1>2 DEF Row, Part

(* Writing what does not conflict leaves all of the offer stored.          *)
LEMMA MergedHolds ==
  ASSUME NEW row, NEW offer, Conflicting(row, offer) = {}
  PROVE  Holds(Merged(row, offer), offer)
BY DEF Holds, Merged, Inserted, Lacking, Conflicting, Differs

LEMMA HoldsIsStored ==
  ASSUME NEW row, NEW offer
  PROVE  Holds(row, offer) <=> Lacking(row, offer) = {} /\ Conflicting(row, offer) = {}
BY DEF Holds, Lacking, Conflicting, Differs

-----------------------------------------------------------------------------
(* What a handle has read or answered stays true when a row is extended.   *)
LEMMA AnswersSurvive ==
  ASSUME NEW c, NEW row, NEW new, CallOK(c, row), c.shapes # Missing,
         Promise!Extended(new, row)
  PROVE  CallOK(c, new)
<1>1. \A p \in Part : row[p] # Missing => new[p] = row[p]
  BY DEF Promise!Extended, Promise!Parts, Part
<1>2. /\ HasGeometry(row) => HasGeometry(new) /\ new["geometry"] = row["geometry"]
      /\ HasProperties(row) => HasProperties(new) /\ new["properties"] = row["properties"]
  BY <1>1 DEF HasGeometry, HasProperties, Part
<1>3. Holds(row, c.call.row) => Holds(new, c.call.row)
  BY <1>1 DEF Holds
<1>4. \A p \in Part : Differs(row, c.call.row, p) => Differs(new, c.call.row, p)
  BY <1>1 DEF Differs
<1>5. ReadOK(c, new)
  BY <1>2 DEF CallOK, ReadOK
<1>6. AnswerOK(c, new)
  BY <1>2, <1>3, <1>4 DEF CallOK, AnswerOK, HasGeometry, HasProperties
<1> QED
  BY <1>5, <1>6 DEF CallOK

SourceInv == CatalogInv /\ AnswerInv

(* A step of one handle that writes no row.                                *)
LEMMA QuietAnswer ==
  ASSUME SourceInv, NEW h \in Handle, NEW c, UNCHANGED <<stored, revision>>,
         client' = [client EXCEPT ![h] = c],
         known' \in [Handle -> 0..MaxRevision],
         ClientTypeOK(c), c.call = NoCall => c.pc \in {"idle", "done"},
         c.call # NoCall => CallOK(c, stored[c.call.source])
  PROVE  AnswerInv'
<1>1. client'[h] = c /\ \A g \in Handle \ {h} : client'[g] = client[g]
  BY DEF SourceInv, CatalogInv
<1>2. \A g \in Handle : ClientInv(g)'
  BY <1>1 DEF SourceInv, AnswerInv, ClientInv
<1> QED
  BY <1>2 DEF SourceInv, AnswerInv

(* What holds of a handle inside a call.                                   *)
LEMMA InCall ==
  ASSUME SourceInv, NEW h \in Handle, client[h].pc \notin {"idle", "done"}
  PROVE  /\ client[h].call \in CallType /\ client[h].call # NoCall
         /\ Offered(client[h].call)
         /\ client[h].call.source \in Source /\ client[h].call.row \in Row
         /\ Stored(h) \in Row /\ Promise!Described(Stored(h))
         /\ Stored(h) = [p \in Part |-> Stored(h)[p]]
         /\ CallOK(client[h], Stored(h))
         /\ ClientTypeOK(client[h]) /\ Whole(client[h])
         /\ known \in [Handle -> 0..MaxRevision]
<1>1. client[h].call \in CallType /\ client[h].call # NoCall
  BY DEF SourceInv, AnswerInv, ClientInv, ClientTypeOK
<1>2. client[h].call.source \in Source /\ client[h].call.row \in Row
  BY <1>1 DEF CallType
<1> QED
  BY <1>1, <1>2 DEF SourceInv, AnswerInv, ClientInv, CatalogInv, RowsOK, Stored, CallOK

(* A return whose answer is true.                                          *)
LEMMA TrueReturn ==
  ASSUME SourceInv, NEW h \in Handle, NEW status, client[h].pc \notin {"idle", "done"},
         UNCHANGED <<stored, revision>>, known' \in [Handle -> 0..MaxRevision],
         Return(h, status),
         client[h].call.op \in WriteOp =>
           /\ status = "ok" => Holds(Stored(h), Offer(h))
           /\ status = "record_exists" => \E p \in Part : Differs(Stored(h), Offer(h), p)
           /\ status # "schema_invalid",
         client[h].call.op \in ReadOp =>
           /\ status \notin {"schema_invalid", "record_not_found"}
           /\ status = "ok" /\ client[h].call.op = "load_durable_source_result" =>
                /\ client[h].shapes = Stored(h)["geometry"]
                /\ client[h].values \in {Missing, Stored(h)["properties"]}
  PROVE  AnswerInv'
<1> DEFINE c == Finished(h, status)
<1>1. /\ c.pc = "done" /\ c.call = client[h].call /\ c.raced = FALSE /\ c.left = {}
      /\ c.outcome = Outcome(status, client[h].outcome.inserted)
      /\ c.shapes = client[h].shapes /\ c.values = client[h].values
  BY DEF Finished, Idle
<1>2. client' = [client EXCEPT ![h] = c]
  BY DEF Return
<1> HIDE DEF c
<1>3. c.outcome.status = status /\ c.outcome.inserted = client[h].outcome.inserted
  BY <1>1 DEF Outcome
<1>4. ClientTypeOK(c)
  BY <1>1, <1>3, InCall DEF ClientTypeOK
<1>5. CallOK(c, stored[c.call.source])
  <2>1. /\ Offered(c.call) /\ StageOK(c) /\ ReadOK(c, stored[c.call.source])
    BY <1>1, InCall DEF StageOK, ReadOK, LoadPc, AuditPc
  <2>2. AnswerOK(c, stored[c.call.source])
    BY <1>1, <1>3, InCall DEF CallOK, AnswerOK, Stored, Offer
  <2> QED
    BY <2>1, <2>2 DEF CallOK
<1> QED
  BY <1>1, <1>2, <1>4, <1>5, QuietAnswer

(* A store that looks again at the project before it answers.              *)
LEMMA TrueAfterRefresh ==
  ASSUME SourceInv, NEW h \in Handle, NEW status, client[h].pc \notin {"idle", "done"},
         UNCHANGED <<stored, revision, known>>,
         ReturnAfterRefresh(h, status), client[h].call.op \in WriteOp,
         status = "ok" => Holds(Stored(h), Offer(h)),
         status = "record_exists" => \E p \in Part : Differs(Stored(h), Offer(h), p),
         status # "schema_invalid"
  PROVE  AnswerInv'
<1> DEFINE c == [client[h] EXCEPT !.pc = "refresh", !.outcome = Outcome(status, FALSE)]
<1>1. /\ c.pc = "refresh" /\ c.call = client[h].call /\ c.raced = client[h].raced
      /\ c.left = client[h].left /\ c.outcome = Outcome(status, FALSE)
      /\ c.shapes = client[h].shapes /\ c.values = client[h].values
  BY InCall DEF Whole, Fields
<1>2. client' = [client EXCEPT ![h] = c]
  BY DEF ReturnAfterRefresh
<1> HIDE DEF c
<1>3. c.outcome.status = status /\ c.outcome.inserted = FALSE
  BY <1>1 DEF Outcome
<1>4. ClientTypeOK(c)
  BY <1>1, <1>3, InCall DEF ClientTypeOK
<1>5. CallOK(c, stored[c.call.source])
  <2>1. /\ Offered(c.call) /\ StageOK(c) /\ ReadOK(c, stored[c.call.source])
    BY <1>1, InCall DEF CallOK, StageOK, ReadOK, LoadPc, AuditPc, Stored
  <2>2. AnswerOK(c, stored[c.call.source])
    BY <1>1, <1>3, InCall DEF AnswerOK, Stored, Offer
  <2> QED
    BY <2>1, <2>2 DEF CallOK
<1> QED
  BY <1>1, <1>2, <1>4, <1>5, InCall, QuietAnswer

(* A step that only moves a handle on inside its call, with what it has    *)
(* read by then.                                                           *)
LEMMA MovesAlong ==
  ASSUME SourceInv, NEW h \in Handle, NEW c, client[h].pc \notin {"idle", "done"},
         UNCHANGED <<stored, revision, known>>,
         client' = [client EXCEPT ![h] = c],
         ClientTypeOK(c), c.call = client[h].call, c.outcome = client[h].outcome,
         c.pc \notin {"refresh", "done"}, StageOK(c), ReadOK(c, Stored(h))
  PROVE  AnswerInv'
<1>1. AnswerOK(c, Stored(h))
  BY InCall DEF CallOK, AnswerOK
<1> QED
  BY <1>1, InCall, QuietAnswer DEF CallOK, Stored

(* A commit makes the offer true, and keeps what the others have read.     *)
LEMMA CommitAnswers ==
  ASSUME SourceInv, NEW h \in Handle, Commit(h), UNCHANGED known,
         client[h].pc \notin {"idle", "done"},
         client[h].call.op \in WriteOp,
         Promise!Extended(Merged(Stored(h), Offer(h)), Stored(h)),
         Conflicting(Stored(h), Offer(h)) = {}
  PROVE  AnswerInv'
<1> DEFINE s == client[h].call.source
           row == Merged(Stored(h), Offer(h))
           c == [client[h] EXCEPT !.pc = "refresh", !.outcome = Outcome("ok", TRUE)]
<1>1. /\ stored' = [stored EXCEPT ![s] = row]
      /\ revision < MaxRevision /\ revision' = revision + 1
      /\ client' = [client EXCEPT ![h] = c]
  BY DEF Commit, AdvanceRevision, Stored, Offer
<1>2. row \in Row
  BY InCall, MergedIsRow DEF Offer
<1> HIDE DEF row
<1>3. /\ stored' \in [Source -> Row] /\ revision' \in 0..MaxRevision
      /\ known' \in [Handle -> 0..MaxRevision]
  <2>1. stored' \in [Source -> Row]
    BY <1>1, <1>2 DEF SourceInv, AnswerInv
  <2>2. revision' \in 0..MaxRevision
    BY <1>1, SourceAssumption DEF SourceInv, AnswerInv
  <2>3. known' \in [Handle -> 0..MaxRevision]
    BY DEF SourceInv, AnswerInv
  <2> QED
    BY <2>1, <2>2, <2>3
<1>4. /\ c.pc = "refresh" /\ c.call = client[h].call /\ c.raced = client[h].raced
      /\ c.left = client[h].left /\ c.outcome = Outcome("ok", TRUE)
      /\ c.shapes = client[h].shapes /\ c.values = client[h].values
  BY InCall DEF Whole, Fields
<1>5. /\ client'[h] = c /\ \A g \in Handle \ {h} : client'[g] = client[g]
      /\ stored'[s] = row
  BY <1>1, InCall DEF SourceInv, CatalogInv, RowsOK
<1> HIDE DEF c
<1>6. ClientInv(h)'
  <2>1. c.outcome.status = "ok" /\ c.outcome.inserted = TRUE
    BY <1>4 DEF Outcome
  <2>2. ClientTypeOK(c)
    BY <1>4, <2>1, InCall DEF ClientTypeOK
  <2>3. Holds(row, c.call.row)
    BY <1>4, MergedHolds DEF row, Offer
  <2>4. HasProperties(Stored(h)) => HasProperties(row)
    BY DEF row, Promise!Extended, Promise!Parts, HasProperties
  <2>5. CallOK(c, row)
    BY <1>4, <2>1, <2>3, <2>4, InCall
       DEF CallOK, StageOK, ReadOK, AnswerOK, LoadPc, AuditPc
  <2> QED
    BY <1>4, <1>5, <2>2, <2>5, InCall DEF ClientInv
<1>7. ASSUME NEW g \in Handle \ {h}
      PROVE  ClientInv(g)'
  <2>1. ClientInv(g) /\ client'[g] = client[g]
    BY <1>5 DEF SourceInv, AnswerInv
  <2>2. CASE client[g].call = NoCall
    BY <2>1, <2>2 DEF ClientInv
  <2>3. CASE client[g].call # NoCall
    <3>1. client[g].call.source \in Source /\ client[g].shapes # Missing
      BY <2>1, <2>3, SourceAssumption DEF ClientInv, ClientTypeOK, CallType
    <3>2. CASE client[g].call.source # s
      <4>1. stored'[client[g].call.source] = stored[client[g].call.source]
        BY <1>1, <3>1, <3>2 DEF SourceInv, AnswerInv
      <4> QED
        BY <2>1, <4>1 DEF ClientInv
    <3>3. CASE client[g].call.source = s
      <4>1. CallOK(client[g], Stored(h))
        BY <2>1, <2>3, <3>3 DEF ClientInv, Stored
      <4>2. CallOK(client[g], row)
        BY <3>1, <4>1, AnswersSurvive DEF row
      <4> QED
        BY <1>5, <2>1, <3>3, <4>2 DEF ClientInv
    <3> QED
      BY <3>2, <3>3
  <2> QED
    BY <2>2, <2>3
<1> QED
  BY <1>3, <1>6, <1>7 DEF AnswerInv

-----------------------------------------------------------------------------
(* A request that begins has read nothing, and has answered only if it is  *)
(* refused.                                                                *)
LEMMA CalledClient ==
  ASSUME NEW q
  PROVE  LET c == Called(q)
         IN /\ c.call = q /\ c.raced = FALSE /\ c.left = {}
            /\ c.shapes = <<>> /\ c.values = Missing
            /\ c.pc = IF Valid(q) THEN FirstStep[q.op] ELSE "done"
            /\ c.outcome = IF Valid(q) THEN Outcome("none", FALSE)
                           ELSE Outcome("invalid_argument", FALSE)
BY DEF Called, Idle, Pending

LEMMA CalledIsTyped ==
  ASSUME NEW q \in CallType, NEW row, Offered(q)
  PROVE  ClientTypeOK(Called(q)) /\ CallOK(Called(q), row)
<1> DEFINE c == Called(q)
<1>1. /\ c.call = q /\ c.raced = FALSE /\ c.left = {}
      /\ c.shapes = <<>> /\ c.values = Missing
      /\ c.pc = IF Valid(q) THEN FirstStep[q.op] ELSE "done"
      /\ c.outcome = IF Valid(q) THEN Outcome("none", FALSE)
                     ELSE Outcome("invalid_argument", FALSE)
  BY CalledClient
<1> HIDE DEF c
<1>2. /\ c.outcome.inserted = FALSE
      /\ c.outcome.status \in {"none", "invalid_argument"}
  BY <1>1 DEF Outcome
<1>3. ClientTypeOK(c)
  BY <1>1, <1>2, NothingRead DEF ClientTypeOK, Geometries
<1>4. q.op \in WriteOp \cup ReadOp
  BY DEF CallType
<1>5. /\ c.pc \in {"match", "catalog", "audit", "transaction", "done"}
      /\ c.pc = "catalog" => q.op = "load_durable_source_result"
      /\ c.pc = "audit" => q.op = "verify_integrity"
  BY <1>1, <1>4 DEF FirstStep, WriteOp, ReadOp
<1>6. StageOK(c) /\ ReadOK(c, row)
  BY <1>1, <1>5 DEF StageOK, ReadOK, LoadPc, AuditPc
<1>7. AnswerOK(c, row)
  BY <1>1, <1>2 DEF AnswerOK
<1> QED
  BY <1>1, <1>3, <1>6, <1>7 DEF CallOK, c

LEMMA RejectedClient ==
  ASSUME NEW verdict
  PROVE  /\ ClientTypeOK(Rejected(verdict))
         /\ Rejected(verdict).call = NoCall /\ Rejected(verdict).pc = "done"
<1>1. LET c == Rejected(verdict)
      IN /\ c.call = NoCall /\ c.pc = "done" /\ c.raced = FALSE /\ c.left = {}
         /\ c.shapes = <<>> /\ c.values = Missing /\ c.outcome.inserted = FALSE
  BY DEF Rejected, Idle, Outcome
<1> QED
  BY <1>1, NothingRead DEF ClientTypeOK, Geometries

LEMMA IdleClient == ClientTypeOK(Idle) /\ Idle.call = NoCall /\ Idle.pc = "idle"
<1>1. /\ Idle.call = NoCall /\ Idle.pc = "idle" /\ Idle.raced = FALSE /\ Idle.left = {}
      /\ Idle.shapes = <<>> /\ Idle.values = Missing /\ Idle.outcome.inserted = FALSE
  BY DEF Idle, Pending, Outcome
<1> QED
  BY <1>1, NothingRead DEF ClientTypeOK, Geometries

(* What an import brings the caller to: a refusal, or the row of an        *)
(* accepted import offered as a dataset.                                   *)
LEMMA ImportedIs ==
  ASSUME NEW reached \in Imports
  PROVE  \/ \E verdict : reached = Rejected(verdict)
         \/ \E s \in ImportSource, row \in Row :
              /\ reached = Recorded(s, row) /\ Accepted(row)
              /\ Missing \notin {row["provenance"], row["geometry"]}
<1>1. PICK s \in ImportSource, root \in Root, manifest \in Manifest, binding \in Binding :
        \E report \in Reports(binding.adapter, manifest) :
          reached = Imported(s, root, manifest, binding, report)
  BY DEF Imports
<1>2. PICK report \in Reports(binding.adapter, manifest) :
        reached = Imported(s, root, manifest, binding, report)
  BY <1>1
<1>3. CASE /\ VerifyVerdict(root, manifest) = "ok"
           /\ BridgeVerdict(binding, manifest, report) = "ok"
  <2> DEFINE row == RecordedRow(binding, manifest, report)
  <2>1. reached = Recorded(s, row)
    BY <1>2, <1>3 DEF Imported
  <2>2. row \in Row /\ Missing \notin {row["provenance"], row["geometry"]}
    <3>1. /\ row \in Row
          /\ Missing \notin {RecordedProvenance(binding, report),
                              DecodedGeometry(binding.adapter, manifest)}
      BY <1>3, RecordAssumption
    <3> QED
      BY <3>1 DEF RecordedRow
  <2>3. Accepted(row)
    BY <1>3 DEF Accepted
  <2> HIDE DEF row
  <2> QED
    BY <2>1, <2>2, <2>3
<1> QED
  BY <1>2, <1>3 DEF Imported

LEMMA BeginAnswers ==
  ASSUME SourceInv, NEW h \in Handle, Begin(h) \/ Import(h)
  PROVE  AnswerInv'
<1>1. UNCHANGED <<stored, revision>> /\ known' \in [Handle -> 0..MaxRevision]
  BY DEF Begin, Import, SourceInv, AnswerInv
<1>2. ASSUME NEW q \in CallType, Offered(q),
             client' = [client EXCEPT ![h] = Called(q)]
      PROVE  AnswerInv'
  <2>1. /\ ClientTypeOK(Called(q)) /\ CallOK(Called(q), stored[q.source])
        /\ Called(q).call = q /\ q # NoCall
    BY <1>2, CalledIsTyped, CalledClient, SourceAssumption
  <2> QED
    BY <1>1, <1>2, <2>1, QuietAnswer
<1>3. CASE Begin(h)
  BY <1>2, <1>3, SourceAssumption DEF Begin
<1>4. CASE Import(h)
  <2>1. PICK reached \in Imports : client' = [client EXCEPT ![h] = reached]
    BY <1>4 DEF Import
  <2>2. CASE \E verdict : reached = Rejected(verdict)
    BY <1>1, <2>1, <2>2, RejectedClient, QuietAnswer
  <2>3. CASE \E s \in ImportSource, row \in Row :
               /\ reached = Recorded(s, row)
               /\ Missing \notin {row["provenance"], row["geometry"]}
    <3>1. PICK s \in ImportSource, row \in Row :
            /\ reached = Recorded(s, row)
            /\ Missing \notin {row["provenance"], row["geometry"]}
      BY <2>3
    <3> DEFINE q == [op |-> "store_source_dataset", source |-> s, row |-> row]
    <3>2. q \in CallType
      BY ImportAssumption DEF CallType, WriteOp
    <3>3. Offered(q)
      BY <3>1 DEF Offered, Part
    <3>4. client' = [client EXCEPT ![h] = Called(q)]
      BY <2>1, <3>1 DEF Recorded
    <3> HIDE DEF q
    <3> QED
      BY <1>2, <3>2, <3>3, <3>4
  <2> QED
    BY <2>2, <2>3, ImportedIs
<1> QED
  BY <1>3, <1>4

(* A crash forgets the call.                                               *)
LEMMA CrashAnswers ==
  ASSUME SourceInv, NEW h \in Handle, Crash(h)
  PROVE  AnswerInv'
<1>1. known' \in [Handle -> 0..MaxRevision]
  BY DEF Crash, SourceInv, AnswerInv
<1> QED
  BY <1>1, IdleClient, QuietAnswer DEF Crash

(* Transactions, which decide on the row they locked.                      *)
LEMMA TransactionAnswers ==
  ASSUME SourceInv, NEW h \in Handle, Transaction(h)
  PROVE  AnswerInv'
<1> DEFINE q == client[h].call
           verdict == Verdict(q.op, Stored(h), Offer(h))
           status == IF verdict = "retry" THEN "ok" ELSE verdict
<1>1. /\ q.source \in Source /\ Offered(q) /\ Valid(q)
      /\ q.op \in WriteOp \ {"store_source_feature_properties"}
  BY DEF Transaction, At, SourceInv, CatalogInv, ClientOK
<1>2. client[h].pc \notin {"idle", "done"} /\ UNCHANGED known
  BY DEF Transaction, At
<1>3. /\ Stored(h) = [p \in Part |-> Stored(h)[p]] /\ Promise!Described(Stored(h))
      /\ known \in [Handle -> 0..MaxRevision]
  BY <1>2, InCall
<1>4. verdict # "schema_invalid"
  BY <1>3 DEF Verdict, Decide, SourceExists, HasGeometry, HasProperties, Promise!Described
<1>5. /\ verdict \in {"commit", "retry"} => Conflicting(Stored(h), Offer(h)) = {}
      /\ verdict = "retry" => Lacking(Stored(h), Offer(h)) = {}
      /\ verdict = "record_exists" => Conflicting(Stored(h), Offer(h)) # {}
      /\ verdict # "ok"
  BY DEF Verdict, Decide
<1>6. CASE verdict = "commit"
  <2>1. Commit(h)
    BY <1>6 DEF Transaction
  <2>2. Promise!Extended(Merged(Stored(h), Offer(h)), Stored(h))
    BY <1>1, <1>3, <1>6, MergedIsDescribed DEF Offer
  <2> QED
    BY <1>1, <1>2, <1>5, <1>6, <2>1, <2>2, CommitAnswers
<1>7. CASE verdict # "commit"
  <2>1. /\ Return(h, status) \/ ReturnAfterRefresh(h, status)
        /\ UNCHANGED <<stored, revision, known>>
    BY <1>2, <1>7 DEF Transaction
  <2>2. /\ status = "ok" => Holds(Stored(h), Offer(h))
        /\ status = "record_exists" => \E p \in Part : Differs(Stored(h), Offer(h), p)
        /\ status # "schema_invalid"
    BY <1>4, <1>5, HoldsIsStored DEF Conflicting
  <2>3. q.op \in WriteOp /\ q.op \notin ReadOp
    BY <1>1 DEF WriteOp, ReadOp
  <2> HIDE DEF verdict, status
  <2> QED
    BY <1>2, <1>3, <2>1, <2>2, <2>3, TrueReturn, TrueAfterRefresh
<1> QED
  BY <1>6, <1>7

(* The transaction of the properties, after its looks.                     *)
LEMMA ProbeAnswers ==
  ASSUME SourceInv, NEW h \in Handle, Probe(h)
  PROVE  AnswerInv'
<1> DEFINE q == client[h].call
<1>1. /\ q.source \in Source /\ Offered(q)
      /\ q.op = "store_source_feature_properties"
      /\ Stored(h)["geometry"] # Missing
      /\ DOMAIN Stored(h)["geometry"] = DOMAIN q.row["properties"]
  BY DEF Probe, At, SourceInv, CatalogInv, ClientOK, PropertyPc, Matched, Stored
<1>2. client[h].pc \notin {"idle", "done"} /\ UNCHANGED known
  BY DEF Probe, At
<1>3. /\ Stored(h) = [p \in Part |-> Stored(h)[p]] /\ Promise!Described(Stored(h))
  BY <1>2, InCall
<1>4. CASE Stored(h).properties = Missing
  <2>1. Commit(h)
    BY <1>4 DEF Probe, HasProperties
  <2>2. Promise!Extended(Merged(Stored(h), Offer(h)), Stored(h))
    BY <1>1, <1>3, <1>4, MatchedIsDescribed DEF Offer
  <2>3. Conflicting(Stored(h), Offer(h)) = {}
    BY <1>1, <1>4 DEF Conflicting, Differs, Offered, Part, Offer
  <2>4. q.op \in WriteOp
    BY <1>1 DEF WriteOp
  <2> QED
    BY <1>2, <2>1, <2>2, <2>3, <2>4, CommitAnswers
<1>5. CASE Stored(h).properties # Missing
  <2> DEFINE c == [client[h] EXCEPT !.pc = "existing", !.raced = TRUE]
  <2>1. client' = [client EXCEPT ![h] = c] /\ UNCHANGED <<stored, revision, known>>
    BY <1>2, <1>5 DEF Probe, HasProperties
  <2>2. /\ c.pc = "existing" /\ c.call = q /\ c.raced = TRUE
        /\ c.left = client[h].left /\ c.outcome = client[h].outcome
        /\ c.shapes = client[h].shapes /\ c.values = client[h].values
    BY <1>2, InCall DEF Whole, Fields
  <2> HIDE DEF c
  <2>3. ClientTypeOK(c) /\ StageOK(c) /\ ReadOK(c, Stored(h))
    BY <1>2, <1>5, <2>2, InCall
       DEF ClientTypeOK, StageOK, ReadOK, LoadPc, AuditPc, HasProperties
  <2> QED
    BY <1>2, <2>1, <2>2, <2>3, MovesAlong
<1> QED
  BY <1>4, <1>5

(* The answer after the refresh, and after a failure.                      *)
LEMMA RefreshAnswers ==
  ASSUME SourceInv, NEW h \in Handle, Refresh(h) \/ Fails(h)
  PROVE  AnswerInv'
<1>1. CASE Refresh(h)
  <2>1. client[h].pc = "refresh" /\ UNCHANGED <<stored, revision>>
    BY <1>1 DEF Refresh, At
  <2>2. known' \in [Handle -> 0..MaxRevision]
    BY <1>1 DEF Refresh, SourceInv, AnswerInv
  <2>3. client[h].call.op \in WriteOp /\ client[h].call.op \notin ReadOp
    BY <2>1, InCall DEF CallOK, StageOK, WriteOp, ReadOp
  <2>4. LET status == client[h].outcome.status
        IN /\ status = "ok" => Holds(Stored(h), Offer(h))
           /\ status = "record_exists" => \E p \in Part : Differs(Stored(h), Offer(h), p)
           /\ status # "schema_invalid"
    BY <2>1, <2>3, InCall DEF CallOK, AnswerOK, Offer
  <2> QED
    BY <1>1, <2>1, <2>2, <2>3, <2>4, TrueReturn DEF Refresh
<1>2. CASE Fails(h)
  <2>1. /\ client[h].pc \notin {"idle", "done"} /\ Return(h, "sqlite_failure")
        /\ UNCHANGED <<stored, revision>>
    BY <1>2 DEF Fails
  <2>2. known' \in [Handle -> 0..MaxRevision]
    BY <1>2 DEF Fails, SourceInv, AnswerInv
  <2> QED
    BY <2>1, <2>2, TrueReturn
<1> QED
  BY <1>1, <1>2

-----------------------------------------------------------------------------
(* Reading all of a part but the features that are left.                   *)
LEMMA ReadThisToo ==
  ASSUME NEW S, NEW whole \in OfFeatures(S), NEW found, NEW left, NEW f \in left,
         left \subseteq DOMAIN whole, Reads(found, whole, DOMAIN whole \ left)
  PROVE  /\ Reads(With(found, f, whole[f]), whole, DOMAIN whole \ (left \ {f}))
         /\ With(found, f, whole[f]) \in OfFeatures(S)
<1> DEFINE new == With(found, f, whole[f])
<1>1. Reads(new, whole, (DOMAIN whole \ left) \cup {f})
  BY ReadOneMore
<1>2. (DOMAIN whole \ left) \cup {f} = DOMAIN whole \ (left \ {f})
  OBVIOUS
<1>3. Reads(new, whole, DOMAIN whole \ (left \ {f}))
  BY <1>1, <1>2
<1>4. /\ DOMAIN whole \subseteq Feature
      /\ \A g \in DOMAIN whole : whole[g] \in S
  BY FeatureFunction
<1> DEFINE D == DOMAIN whole \ (left \ {f})
<1>5. new = [g \in D |-> whole[g]] /\ D \subseteq DOMAIN whole
  BY <1>3 DEF Reads
<1> HIDE DEF new, D
<1>6. new \in [D -> S] /\ D \in SUBSET Feature
  BY <1>4, <1>5
<1>7. new \in OfFeatures(S)
  BY <1>6 DEF OfFeatures
<1> QED
  BY <1>3, <1>7 DEF new

(* Having read all of it.                                                  *)
LEMMA ReadAll ==
  ASSUME NEW S, NEW whole \in OfFeatures(S), NEW found,
         Reads(found, whole, DOMAIN whole)
  PROVE  found = whole
BY FeatureFunction DEF Reads

(* The stored properties of a source.                                      *)
LEMMA StoredParts ==
  ASSUME NEW row \in Row
  PROVE  /\ HasGeometry(row) => row["geometry"] \in OfFeatures(Shape)
         /\ HasProperties(row) => row["properties"] \in OfFeatures(Value)
BY DEF Row, Geometries, PropertySets, HasGeometry, HasProperties

LEMMA MatchAnswers ==
  ASSUME SourceInv, NEW h \in Handle, Match(h)
  PROVE  AnswerInv'
<1>1. /\ client[h].pc = "match" /\ UNCHANGED <<stored, revision, known>>
      /\ client[h].call.op = "store_source_feature_properties"
  BY DEF Match, At, SourceInv, CatalogInv, ClientOK, PropertyPc
<1>2. client[h].call.op \in WriteOp /\ client[h].call.op \notin ReadOp
  BY <1>1 DEF WriteOp, ReadOp
<1>3. CASE \E status \in {"record_not_found", "invalid_argument"} : Return(h, status)
  BY <1>1, <1>2, <1>3, InCall, TrueReturn
<1>4. CASE Go(h, "existing")
  <2> DEFINE c == [client[h] EXCEPT !.pc = "existing"]
  <2>1. client' = [client EXCEPT ![h] = c]
    BY <1>4 DEF Go
  <2>2. /\ c.pc = "existing" /\ c.call = client[h].call /\ c.raced = client[h].raced
        /\ c.left = client[h].left /\ c.outcome = client[h].outcome
        /\ c.shapes = client[h].shapes /\ c.values = client[h].values
    BY <1>1, InCall DEF Whole, Fields
  <2> HIDE DEF c
  <2>3. ClientTypeOK(c) /\ StageOK(c) /\ ReadOK(c, Stored(h))
    BY <1>1, <2>2, InCall DEF ClientTypeOK, CallOK, StageOK, ReadOK, LoadPc, AuditPc
  <2> QED
    BY <1>1, <2>1, <2>2, <2>3, MovesAlong
<1> QED
  BY <1>3, <1>4 DEF Match

LEMMA ExistingAnswers ==
  ASSUME SourceInv, NEW h \in Handle, Existing(h)
  PROVE  AnswerInv'
<1>1. client[h].pc = "existing" /\ UNCHANGED <<stored, revision, known>>
  BY DEF Existing, At
<1>2. client[h].raced => HasProperties(Stored(h))
  BY <1>1, InCall DEF CallOK, ReadOK
<1>3. /\ ~IndexDisagrees(Stored(h))
      /\ HasProperties(Stored(h)) =>
           /\ HasGeometry(Stored(h))
           /\ DOMAIN Stored(h)["properties"] = DOMAIN Stored(h)["geometry"]
      /\ HasProperties(Stored(h)) => Stored(h)["properties"] \in OfFeatures(Value)
  BY <1>1, InCall, IndexesAgree, StoredParts
<1>4. CASE ~HasProperties(Stored(h))
  <2> DEFINE c == [client[h] EXCEPT !.pc = "probe"]
  <2>1. client' = [client EXCEPT ![h] = c]
    BY <1>2, <1>4 DEF Existing, Go
  <2>2. /\ c.pc = "probe" /\ c.call = client[h].call /\ c.raced = client[h].raced
        /\ c.left = client[h].left /\ c.outcome = client[h].outcome
        /\ c.shapes = client[h].shapes /\ c.values = client[h].values
    BY <1>1, InCall DEF Whole, Fields
  <2> HIDE DEF c
  <2>3. ClientTypeOK(c) /\ StageOK(c) /\ ReadOK(c, Stored(h))
    BY <1>1, <2>2, InCall DEF ClientTypeOK, CallOK, StageOK, ReadOK, LoadPc, AuditPc
  <2> QED
    BY <1>1, <2>1, <2>2, <2>3, MovesAlong
<1>5. CASE HasProperties(Stored(h))
  <2> DEFINE whole == Stored(h)["properties"]
             c == [client[h] EXCEPT !.pc = "existing_values", !.values = <<>>,
                                    !.left = Features(Stored(h).geometry)]
  <2>1. client' = [client EXCEPT ![h] = c]
    BY <1>3, <1>5 DEF Existing
  <2>2. Features(Stored(h).geometry) = DOMAIN whole
    BY <1>3, <1>5 DEF Features, HasGeometry
  <2>3. /\ c.pc = "existing_values" /\ c.call = client[h].call
        /\ c.raced = client[h].raced /\ c.left = DOMAIN whole
        /\ c.outcome = client[h].outcome
        /\ c.shapes = client[h].shapes /\ c.values = <<>>
    BY <1>1, <2>2, InCall DEF Whole, Fields
  <2> HIDE DEF c
  <2>4. DOMAIN whole \subseteq Feature
    BY <1>3, <1>5, FeatureFunction
  <2>5. Reads(c.values, whole, DOMAIN whole \ c.left)
    BY <2>3, NothingRead
  <2>6. ClientTypeOK(c)
    BY <1>1, <2>3, <2>4, InCall, NothingRead DEF ClientTypeOK, PropertySets
  <2>7. StageOK(c) /\ ReadOK(c, Stored(h))
    BY <1>5, <2>3, <2>5 DEF StageOK, ReadOK, LoadPc, AuditPc
  <2> QED
    BY <1>1, <2>1, <2>3, <2>6, <2>7, MovesAlong
<1> QED
  BY <1>4, <1>5

LEMMA ExistingValueAnswers ==
  ASSUME SourceInv, NEW h \in Handle, ExistingValue(h)
  PROVE  AnswerInv'
<1> DEFINE left == client[h].left
           f == First(left)
           whole == Stored(h)["properties"]
           value == StoredValue(Stored(h), f)
           c == [client[h] EXCEPT !.values = With(@, f, value),
                                  !.left = @ \ {f}, !.pc = "existing_values"]
<1>1. /\ client[h].pc = "existing_values" /\ UNCHANGED <<stored, revision, known>>
      /\ f \in left /\ ReadValue(h, "existing_values")
  BY FirstIsOf DEF ExistingValue, At
<1>2. /\ HasProperties(Stored(h)) /\ left \subseteq DOMAIN whole
      /\ Reads(client[h].values, whole, DOMAIN whole \ left)
  BY <1>1, InCall DEF CallOK, ReadOK
<1>3. /\ whole \in OfFeatures(Value) /\ HasGeometry(Stored(h))
      /\ DOMAIN Stored(h)["geometry"] = DOMAIN whole
  BY <1>1, <1>2, InCall, StoredParts, IndexesAgree
<1>4. value = whole[f] /\ value # Missing
  <2>1. value = whole[f]
    BY <1>1, <1>2, <1>3 DEF StoredValue, Features, HasGeometry
  <2>2. whole[f] \in Value
    BY <1>1, <1>2, <1>3, FeatureFunction
  <2> QED
    BY <2>1, <2>2, SourceAssumption
<1> HIDE DEF value, f
<1>5. client' = [client EXCEPT ![h] = c]
  BY <1>1, <1>4 DEF ReadValue, value, f
<1>6. /\ c.pc = "existing_values" /\ c.call = client[h].call
      /\ c.raced = client[h].raced /\ c.left = left \ {f}
      /\ c.outcome = client[h].outcome /\ c.shapes = client[h].shapes
      /\ c.values = With(client[h].values, f, value)
  BY <1>1, InCall DEF Whole, Fields
<1> HIDE DEF c
<1>7. /\ Reads(c.values, whole, DOMAIN whole \ c.left)
      /\ c.values \in OfFeatures(Value)
  <2>1. /\ Reads(With(client[h].values, f, whole[f]), whole, DOMAIN whole \ (left \ {f}))
        /\ With(client[h].values, f, whole[f]) \in OfFeatures(Value)
    <3> HIDE DEF left, whole
    <3> QED
      BY <1>1, <1>2, <1>3, ReadThisToo
  <2> QED
    BY <1>4, <1>6, <2>1
<1>8. ClientTypeOK(c)
  BY <1>1, <1>6, <1>7, InCall DEF ClientTypeOK, PropertySets
<1>9. StageOK(c) /\ ReadOK(c, Stored(h))
  BY <1>2, <1>6, <1>7 DEF StageOK, ReadOK, LoadPc, AuditPc
<1> QED
  BY <1>1, <1>5, <1>6, <1>8, <1>9, MovesAlong

LEMMA CompareAnswers ==
  ASSUME SourceInv, NEW h \in Handle, CompareExisting(h)
  PROVE  AnswerInv'
<1>1. /\ client[h].pc = "existing_values" /\ client[h].left = {}
      /\ UNCHANGED <<stored, revision, known>>
      /\ client[h].call.op = "store_source_feature_properties"
  BY DEF CompareExisting, At, SourceInv, CatalogInv, ClientOK, PropertyPc, Matched
<1>2. client[h].call.op \in WriteOp /\ client[h].call.op \notin ReadOp
  BY <1>1 DEF WriteOp, ReadOp
<1>3. /\ HasProperties(Stored(h))
      /\ Reads(client[h].values, Stored(h)["properties"], DOMAIN Stored(h)["properties"])
  <2>1. /\ HasProperties(Stored(h))
        /\ Reads(client[h].values, Stored(h)["properties"],
                 DOMAIN Stored(h)["properties"] \ {})
    BY <1>1, InCall DEF CallOK, ReadOK
  <2>2. DOMAIN Stored(h)["properties"] \ {} = DOMAIN Stored(h)["properties"]
    OBVIOUS
  <2> QED
    BY <2>1, <2>2
<1>4. client[h].values = Stored(h)["properties"]
  <2>1. Stored(h)["properties"] \in OfFeatures(Value)
    BY <1>1, <1>3, InCall, StoredParts
  <2> QED
    BY <1>3, <2>1, ReadAll
<1>5. /\ Offer(h)["properties"] # Missing /\ Offer(h)["provenance"] = Missing
      /\ Offer(h)["geometry"] = Missing
  BY <1>1, InCall DEF Offered, Part, Offer
<1>6. CASE client[h].values # Offer(h).properties
  <2>1. Return(h, "record_exists")
    BY <1>6 DEF CompareExisting
  <2>2. \E p \in Part : Differs(Stored(h), Offer(h), p)
    BY <1>3, <1>4, <1>5, <1>6 DEF Part, Differs, HasProperties
  <2> QED
    BY <1>1, <1>2, <2>1, <2>2, InCall, TrueReturn
<1>7. CASE client[h].values = Offer(h).properties
  <2>1. Return(h, "ok") \/ ReturnAfterRefresh(h, "ok")
    BY <1>7 DEF CompareExisting
  <2>2. Holds(Stored(h), Offer(h))
    BY <1>4, <1>5, <1>7 DEF Holds, Part
  <2> QED
    BY <1>1, <1>2, <2>1, <2>2, InCall, TrueReturn, TrueAfterRefresh
<1> QED
  BY <1>6, <1>7

-----------------------------------------------------------------------------
(* The loader.                                                             *)
LEMMA LoadIsRead ==
  ASSUME SourceInv, NEW h \in Handle, client[h].pc \in LoadPc
  PROVE  /\ client[h].call.op = "load_durable_source_result"
         /\ client[h].call.op \in ReadOp /\ client[h].call.op \notin WriteOp
         /\ client[h].pc \notin {"idle", "done"}
<1>1. client[h].pc \notin {"idle", "done"}
  BY DEF LoadPc
<1>2. client[h].call.op = "load_durable_source_result"
  BY <1>1, InCall DEF CallOK, StageOK
<1> QED
  BY <1>1, <1>2 DEF ReadOp, WriteOp

LEMMA CatalogAnswers ==
  ASSUME SourceInv, NEW h \in Handle, Catalog(h)
  PROVE  AnswerInv'
<1>1. /\ client[h].pc = "catalog" /\ client[h].pc \in LoadPc
      /\ UNCHANGED <<stored, revision, known>>
  BY DEF Catalog, At, LoadPc
<1>2. CASE Return(h, "source_not_found")
  BY <1>1, <1>2, InCall, LoadIsRead, TrueReturn
<1>3. CASE Go(h, "geometry_index")
  <2> DEFINE c == [client[h] EXCEPT !.pc = "geometry_index"]
  <2>1. client' = [client EXCEPT ![h] = c]
    BY <1>3 DEF Go
  <2>2. /\ c.pc = "geometry_index" /\ c.call = client[h].call /\ c.raced = client[h].raced
        /\ c.left = client[h].left /\ c.outcome = client[h].outcome
        /\ c.shapes = client[h].shapes /\ c.values = client[h].values
    BY <1>1, InCall DEF Whole, Fields
  <2> HIDE DEF c
  <2>3. ClientTypeOK(c) /\ StageOK(c) /\ ReadOK(c, Stored(h))
    BY <1>1, <2>2, InCall, LoadIsRead
       DEF ClientTypeOK, CallOK, StageOK, ReadOK, LoadPc, AuditPc
  <2> QED
    BY <1>1, <2>1, <2>2, <2>3, LoadIsRead, MovesAlong
<1> QED
  BY <1>2, <1>3 DEF Catalog

LEMMA GeometryIndexAnswers ==
  ASSUME SourceInv, NEW h \in Handle, GeometryIndex(h)
  PROVE  AnswerInv'
<1>1. /\ client[h].pc = "geometry_index" /\ client[h].pc \in LoadPc
      /\ UNCHANGED <<stored, revision, known>>
  BY DEF GeometryIndex, At, LoadPc
<1>2. CASE Features(Stored(h).geometry) = {}
  <2>1. Return(h, "geometry_unavailable")
    BY <1>2 DEF GeometryIndex
  <2> QED
    BY <1>1, <2>1, InCall, LoadIsRead, TrueReturn
<1>3. CASE Features(Stored(h).geometry) # {}
  <2> DEFINE D == DOMAIN Stored(h).geometry
             c == [client[h] EXCEPT !.pc = "property_index", !.left = D]
  <2>1. client' = [client EXCEPT ![h] = c]
    BY <1>3 DEF GeometryIndex
  <2>2. /\ c.pc = "property_index" /\ c.call = client[h].call
        /\ c.raced = client[h].raced /\ c.left = D /\ c.outcome = client[h].outcome
        /\ c.shapes = client[h].shapes /\ c.values = client[h].values
    BY <1>1, InCall DEF Whole, Fields
  <2> HIDE DEF c
  <2>3. HasGeometry(Stored(h)) /\ D \subseteq Feature
    <3>1. HasGeometry(Stored(h))
      BY <1>3 DEF Features, HasGeometry
    <3> QED
      BY <1>1, <3>1, InCall, LoadIsRead, RowParts DEF HasGeometry
  <2>4. ClientTypeOK(c)
    BY <2>2, <2>3, InCall, <1>1, LoadIsRead DEF ClientTypeOK
  <2>5. StageOK(c) /\ ReadOK(c, Stored(h))
    BY <1>1, <2>2, <2>3, InCall, LoadIsRead DEF CallOK, StageOK, ReadOK, LoadPc, AuditPc
  <2> QED
    BY <1>1, <2>1, <2>2, <2>4, <2>5, LoadIsRead, MovesAlong
<1> QED
  BY <1>2, <1>3

LEMMA PropertyIndexAnswers ==
  ASSUME SourceInv, NEW h \in Handle, PropertyIndex(h)
  PROVE  AnswerInv'
<1> DEFINE row == Stored(h)
<1>1. /\ client[h].pc = "property_index" /\ client[h].pc \in LoadPc
      /\ UNCHANGED <<stored, revision, known>>
  BY DEF PropertyIndex, At, LoadPc
<1>2. /\ client[h].shapes = <<>> /\ client[h].values = Missing
      /\ HasGeometry(row) /\ client[h].left = DOMAIN row["geometry"]
      /\ client[h].raced => HasProperties(row)
  BY <1>1, InCall, LoadIsRead DEF CallOK, ReadOK
<1>3. ~IndexDisagrees(row) /\ Features(row.geometry) = client[h].left
  BY <1>1, <1>2, InCall, LoadIsRead, IndexesAgree DEF Features, HasGeometry
<1>4. ASSUME NEW found, found = IF HasProperties(row) THEN <<>> ELSE client[h].values,
             client' = [client EXCEPT ![h] = [client[h] EXCEPT !.pc = "shapes", !.values = found]]
      PROVE  AnswerInv'
  <2> DEFINE c == [client[h] EXCEPT !.pc = "shapes", !.values = found]
  <2>1. /\ c.pc = "shapes" /\ c.call = client[h].call /\ c.raced = client[h].raced
        /\ c.left = client[h].left /\ c.outcome = client[h].outcome
        /\ c.shapes = client[h].shapes /\ c.values = found
    BY <1>1, InCall, LoadIsRead DEF Whole, Fields
  <2>2. client' = [client EXCEPT ![h] = c]
    BY <1>4
  <2> HIDE DEF c
  <2>3. ClientTypeOK(c)
    BY <1>1, <1>2, <1>4, <2>1, InCall, LoadIsRead, NothingRead
       DEF ClientTypeOK, PropertySets
  <2>4. DOMAIN row["geometry"] \ c.left = {} /\ ShapesRead(c) = c.left
    BY <1>2, <2>1 DEF ShapesRead
  <2>5. Reads(c.shapes, row["geometry"], {})
    BY <1>2, <2>1, NothingRead
  <2>6. c.values # Missing => HasProperties(row) /\ Reads(c.values, row["properties"], {})
    BY <1>2, <1>4, <2>1, NothingRead
  <2>7. ReadOK(c, row)
    BY <1>2, <2>1, <2>4, <2>5, <2>6 DEF ReadOK
  <2>8. StageOK(c)
    BY <1>1, <2>1, LoadIsRead DEF StageOK, AuditPc
  <2> QED
    BY <1>1, <2>1, <2>2, <2>3, <2>7, <2>8, LoadIsRead, MovesAlong
<1>5. CASE ~HasProperties(row)
  <2>1. client' = [client EXCEPT ![h] = [client[h] EXCEPT !.pc = "shapes"]]
    BY <1>5 DEF PropertyIndex, Go
  <2>2. [client[h] EXCEPT !.pc = "shapes"]
          = [client[h] EXCEPT !.pc = "shapes", !.values = client[h].values]
    BY <1>1, InCall, LoadIsRead DEF Whole, Fields
  <2> QED
    BY <1>4, <1>5, <2>1, <2>2
<1>6. CASE HasProperties(row)
  <2>1. client' = [client EXCEPT ![h] = [client[h] EXCEPT !.pc = "shapes", !.values = <<>>]]
    BY <1>3, <1>6 DEF PropertyIndex
  <2> QED
    BY <1>4, <1>6, <2>1
<1> QED
  BY <1>5, <1>6

LEMMA ReadShapeAnswers ==
  ASSUME SourceInv, NEW h \in Handle, ReadShape(h)
  PROVE  AnswerInv'
<1> DEFINE left == client[h].left
           f == First(left)
           whole == Stored(h)["geometry"]
           shape == StoredShape(Stored(h), f)
           complete == client[h].values # Missing
           c == [client[h] EXCEPT !.shapes = With(@, f, shape),
                                  !.left = IF complete THEN @ ELSE @ \ {f},
                                  !.pc = IF complete THEN "values" ELSE @]
<1>1. /\ client[h].pc = "shapes" /\ client[h].pc \in LoadPc
      /\ UNCHANGED <<stored, revision, known>> /\ left # {} /\ f \in left
  BY FirstIsOf DEF ReadShape, At, LoadPc
<1>2. /\ HasGeometry(Stored(h)) /\ left \subseteq DOMAIN whole
      /\ client[h].raced => HasProperties(Stored(h))
      /\ Reads(client[h].shapes, whole, DOMAIN whole \ left)
      /\ client[h].values # Missing =>
           /\ HasProperties(Stored(h))
           /\ Reads(client[h].values, Stored(h)["properties"], DOMAIN whole \ left)
  BY <1>1, InCall, LoadIsRead DEF CallOK, ReadOK, ShapesRead
<1>3. whole \in OfFeatures(Shape)
  BY <1>1, <1>2, InCall, LoadIsRead, StoredParts
<1>4. shape = whole[f] /\ shape # Missing
  <2>1. shape = whole[f]
    BY <1>1, <1>2 DEF StoredShape, Features, HasGeometry
  <2>2. whole[f] \in Shape
    BY <1>1, <1>2, <1>3, FeatureFunction
  <2> QED
    BY <2>1, <2>2, SourceAssumption
<1>5. client' = [client EXCEPT ![h] = c]
  <2> HIDE DEF shape
  <2> QED
    BY <1>4 DEF ReadShape, shape
<1> HIDE DEF shape
<1>6. /\ c.call = client[h].call /\ c.raced = client[h].raced
      /\ c.outcome = client[h].outcome /\ c.values = client[h].values
      /\ c.shapes = With(client[h].shapes, f, shape)
      /\ c.left = IF complete THEN left ELSE left \ {f}
      /\ c.pc = IF complete THEN "values" ELSE "shapes"
  BY <1>1, InCall, LoadIsRead DEF Whole, Fields
<1> HIDE DEF c
<1>7. /\ Reads(c.shapes, whole, DOMAIN whole \ (left \ {f}))
      /\ c.shapes \in OfFeatures(Shape)
  <2>1. /\ Reads(With(client[h].shapes, f, whole[f]), whole, DOMAIN whole \ (left \ {f}))
        /\ With(client[h].shapes, f, whole[f]) \in OfFeatures(Shape)
    <3> HIDE DEF left, whole, f
    <3> QED
      BY <1>1, <1>2, <1>3, ReadThisToo
  <2> QED
    BY <1>4, <1>6, <2>1
<1>8. ShapesRead(c) = left \ {f}
  BY <1>6 DEF ShapesRead
<1>9. ClientTypeOK(c)
  BY <1>1, <1>6, <1>7, InCall, LoadIsRead DEF ClientTypeOK, Geometries
<1>10. ReadOK(c, Stored(h))
  <2>1. CASE complete
    BY <1>1, <1>2, <1>6, <1>7, <1>8, <2>1 DEF ReadOK
  <2>2. CASE ~complete
    BY <1>1, <1>2, <1>6, <1>7, <1>8, <2>2 DEF ReadOK
  <2> QED
    BY <2>1, <2>2
<1>11. StageOK(c)
  BY <1>1, <1>6, LoadIsRead DEF StageOK, AuditPc
<1>12. c.pc \notin {"refresh", "done"}
  BY <1>6
<1> QED
  BY <1>1, <1>5, <1>6, <1>9, <1>10, <1>11, <1>12, LoadIsRead, MovesAlong

LEMMA ReadFeatureValueAnswers ==
  ASSUME SourceInv, NEW h \in Handle, ReadFeatureValue(h)
  PROVE  AnswerInv'
<1> DEFINE left == client[h].left
           f == First(left)
           whole == Stored(h)["properties"]
           value == StoredValue(Stored(h), f)
           c == [client[h] EXCEPT !.values = With(@, f, value),
                                  !.left = @ \ {f}, !.pc = "shapes"]
<1>1. /\ client[h].pc = "values" /\ client[h].pc \in LoadPc
      /\ UNCHANGED <<stored, revision, known>> /\ ReadValue(h, "shapes")
  BY DEF ReadFeatureValue, At, LoadPc
<1>2. /\ left # {} /\ client[h].values # Missing
      /\ HasGeometry(Stored(h)) /\ left \subseteq DOMAIN Stored(h)["geometry"]
      /\ client[h].raced => HasProperties(Stored(h))
      /\ HasProperties(Stored(h))
      /\ Reads(client[h].shapes, Stored(h)["geometry"],
               DOMAIN Stored(h)["geometry"] \ (left \ {f}))
      /\ Reads(client[h].values, whole, DOMAIN Stored(h)["geometry"] \ left)
  BY <1>1, InCall, LoadIsRead DEF CallOK, ReadOK, ShapesRead
<1>3. /\ whole \in OfFeatures(Value) /\ DOMAIN Stored(h)["geometry"] = DOMAIN whole
      /\ f \in left
  BY <1>1, <1>2, InCall, LoadIsRead, StoredParts, IndexesAgree, FirstIsOf
<1>4. value = whole[f] /\ value # Missing
  <2>1. value = whole[f]
    BY <1>2, <1>3 DEF StoredValue, Features, HasGeometry
  <2>2. whole[f] \in Value
    BY <1>2, <1>3, FeatureFunction
  <2> QED
    BY <2>1, <2>2, SourceAssumption
<1> HIDE DEF value, f
<1>5. client' = [client EXCEPT ![h] = c]
  BY <1>1, <1>4 DEF ReadValue, value, f
<1>6. /\ c.pc = "shapes" /\ c.call = client[h].call
      /\ c.raced = client[h].raced /\ c.left = left \ {f}
      /\ c.outcome = client[h].outcome /\ c.shapes = client[h].shapes
      /\ c.values = With(client[h].values, f, value)
  BY <1>1, InCall, LoadIsRead DEF Whole, Fields
<1> HIDE DEF c
<1>7. /\ Reads(c.values, whole, DOMAIN whole \ (left \ {f}))
      /\ c.values \in OfFeatures(Value)
  <2>1. /\ Reads(With(client[h].values, f, whole[f]), whole, DOMAIN whole \ (left \ {f}))
        /\ With(client[h].values, f, whole[f]) \in OfFeatures(Value)
    <3>1. /\ left \subseteq DOMAIN whole
          /\ Reads(client[h].values, whole, DOMAIN whole \ left)
      BY <1>2, <1>3
    <3> HIDE DEF left, whole
    <3> QED
      BY <1>3, <3>1, ReadThisToo
  <2> QED
    BY <1>4, <1>6, <2>1
<1>8. ClientTypeOK(c)
  BY <1>1, <1>6, <1>7, InCall, LoadIsRead DEF ClientTypeOK, PropertySets
<1>9. ReadOK(c, Stored(h))
  <2>1. ShapesRead(c) = left \ {f}
    BY <1>6 DEF ShapesRead
  <2> QED
    BY <1>2, <1>3, <1>6, <1>7, <2>1 DEF ReadOK
<1>10. StageOK(c)
  BY <1>1, <1>6, LoadIsRead DEF StageOK, AuditPc
<1> QED
  BY <1>1, <1>5, <1>6, <1>8, <1>9, <1>10, LoadIsRead, MovesAlong

LEMMA LoadedAnswers ==
  ASSUME SourceInv, NEW h \in Handle, Loaded(h)
  PROVE  AnswerInv'
<1> DEFINE row == Stored(h)
<1>1. /\ client[h].pc = "shapes" /\ client[h].pc \in LoadPc /\ client[h].left = {}
      /\ UNCHANGED <<stored, revision, known>> /\ Return(h, "ok")
  BY DEF Loaded, At, LoadPc
<1>2. /\ HasGeometry(row) /\ row \in Row
      /\ Reads(client[h].shapes, row["geometry"], DOMAIN row["geometry"])
      /\ client[h].values # Missing =>
           /\ HasProperties(row)
           /\ Reads(client[h].values, row["properties"], DOMAIN row["geometry"])
  <2>1. /\ HasGeometry(row) /\ row \in Row
        /\ Reads(client[h].shapes, row["geometry"], DOMAIN row["geometry"] \ {})
        /\ client[h].values # Missing =>
             /\ HasProperties(row)
             /\ Reads(client[h].values, row["properties"], DOMAIN row["geometry"] \ {})
    BY <1>1, InCall, LoadIsRead DEF CallOK, ReadOK, ShapesRead
  <2>2. DOMAIN row["geometry"] \ {} = DOMAIN row["geometry"]
    OBVIOUS
  <2> QED
    BY <2>1, <2>2
<1>3. client[h].shapes = row["geometry"]
  BY <1>2, ReadAll, StoredParts
<1>4. client[h].values \in {Missing, row["properties"]}
  <2>1. CASE client[h].values # Missing
    <3>1. DOMAIN row["properties"] = DOMAIN row["geometry"]
      BY <1>1, <1>2, <2>1, InCall, LoadIsRead, IndexesAgree
    <3> QED
      BY <1>2, <2>1, <3>1, ReadAll, StoredParts
  <2> QED
    BY <2>1
<1>5. known \in [Handle -> 0..MaxRevision]
  BY <1>1, InCall, LoadIsRead
<1> QED
  BY <1>1, <1>3, <1>4, <1>5, LoadIsRead, TrueReturn

(* The audits of described rows find nothing to report.                    *)
LEMMA AuditAnswers ==
  ASSUME SourceInv, NEW h \in Handle, Audit(h)
  PROVE  AnswerInv'
<1>1. /\ client[h].pc \in AuditPc /\ client[h].pc \notin {"idle", "done"}
      /\ UNCHANGED <<stored, revision, known>>
  BY DEF Audit, AuditGeometry, AuditProperties, At, AuditPc
<1>2. client[h].call.op = "verify_integrity"
  BY <1>1, InCall DEF CallOK, StageOK
<1>3. CASE AuditGeometry(h)
  <2> DEFINE c == [client[h] EXCEPT !.pc = "audit_properties"]
  <2>1. client' = [client EXCEPT ![h] = c] /\ client[h].pc = "audit"
    BY <1>3 DEF AuditGeometry, Go, At
  <2>2. /\ c.pc = "audit_properties" /\ c.call = client[h].call
        /\ c.raced = client[h].raced
        /\ c.left = client[h].left /\ c.outcome = client[h].outcome
        /\ c.shapes = client[h].shapes /\ c.values = client[h].values
    BY <1>1, InCall DEF Whole, Fields
  <2> HIDE DEF c
  <2>3. ClientTypeOK(c) /\ StageOK(c) /\ ReadOK(c, Stored(h))
    BY <1>1, <1>2, <2>2, InCall
       DEF ClientTypeOK, CallOK, StageOK, ReadOK, LoadPc
  <2> QED
    BY <1>1, <2>1, <2>2, <2>3, MovesAlong
<1>4. CASE AuditProperties(h)
  <2>1. \A s \in Source : ~IndexDisagrees(stored[s])
    BY IndexesAgree DEF SourceInv, CatalogInv, RowsOK
  <2>2. Return(h, "ok")
    BY <1>4, <2>1 DEF AuditProperties
  <2>3. client[h].call.op \notin WriteOp
    BY <1>2 DEF WriteOp
  <2> QED
    BY <1>1, <1>2, <2>2, <2>3, InCall, TrueReturn
<1> QED
  BY <1>3, <1>4 DEF Audit

-----------------------------------------------------------------------------
LEMMA AnswersInitially ==
  ASSUME Init
  PROVE  SourceInv
<1>1. CatalogInv
  BY CatalogInitially
<1>2. stored \in [Source -> Row]
  <2>1. Nothing = [provenance |-> Missing, geometry |-> Missing, properties |-> Missing]
    BY DEF Nothing, Part
  <2>2. Nothing \in Row
    BY <2>1 DEF Row
  <2> QED
    BY <2>2 DEF Init
<1>3. /\ revision \in 0..MaxRevision /\ known \in [Handle -> 0..MaxRevision]
  BY SourceAssumption DEF Init
<1>4. \A h \in Handle : ClientInv(h)
  BY IdleClient DEF Init, ClientInv
<1> QED
  BY <1>1, <1>2, <1>3, <1>4 DEF SourceInv, AnswerInv

LEMMA AnswersInductive ==
  ASSUME SourceInv, [ImportNext]_vars
  PROVE  SourceInv'
<1>1. CatalogInv'
  BY CatalogInductive DEF SourceInv
<1>2. AnswerInv'
  <2>1. CASE UNCHANGED vars
    BY <2>1 DEF vars, SourceInv, AnswerInv, ClientInv
  <2>2. CASE \E h \in Handle : Begin(h) \/ Import(h)
    BY <2>2, BeginAnswers
  <2>3. CASE \E h \in Handle : Write(h)
    BY <2>3, TransactionAnswers, ProbeAnswers, RefreshAnswers, CrashAnswers DEF Write
  <2>4. CASE \E h \in Handle : Look(h)
    BY <2>4, MatchAnswers, ExistingAnswers, ExistingValueAnswers, CompareAnswers DEF Look
  <2>5. CASE \E h \in Handle : Load(h)
    BY <2>5, CatalogAnswers, GeometryIndexAnswers, PropertyIndexAnswers,
       ReadShapeAnswers, ReadFeatureValueAnswers, LoadedAnswers DEF Load
  <2>6. CASE \E h \in Handle : Audit(h)
    BY <2>6, AuditAnswers
  <2> QED
    BY <2>1, <2>2, <2>3, <2>4, <2>5, <2>6 DEF ImportNext, Next
<1> QED
  BY <1>1, <1>2 DEF SourceInv

(* Rows, revisions and the locals of every call keep their types.          *)
THEOREM SourceTyping == ImportSpec => []SourceTypeOK
<1>1. SourceInv => SourceTypeOK
  BY DEF SourceInv, AnswerInv, ClientInv, ClientTypeOK, SourceTypeOK
<1> QED
  BY <1>1, AnswersInitially, AnswersInductive, PTL DEF ImportSpec

(* What a store reports is true when its caller hears it, whatever other   *)
(* handles stored, failed at or lost in the meantime: ok, or an error      *)
(* after the commit, only if all it offered is stored; record_exists only  *)
(* if something else is.                                                   *)
THEOREM OutcomesAreTrue == ImportSpec => []OutcomeIsTrue
<1>1. SourceInv => OutcomeIsTrue
  <2> SUFFICES ASSUME SourceInv, NEW h \in Handle, Returned(h, WriteOp)
               PROVE  LET outcome == client[h].outcome
                      IN /\ outcome.status = "ok" \/ outcome.inserted => IsStored(h)
                         /\ outcome.status = "record_exists" =>
                              Conflicting(Stored(h), Offer(h)) # {}
                         /\ outcome.status # "schema_invalid"
    BY DEF OutcomeIsTrue
  <2>1. AnswerOK(client[h], Stored(h))
    BY DEF SourceInv, AnswerInv, ClientInv, Returned, CallOK, Stored
  <2>2. /\ client[h].outcome.status = "ok" \/ client[h].outcome.inserted =>
             Holds(Stored(h), Offer(h))
        /\ client[h].outcome.status = "record_exists" =>
             \E p \in Part : Differs(Stored(h), Offer(h), p)
        /\ client[h].outcome.status # "schema_invalid"
    BY <2>1 DEF AnswerOK, Returned, Offer
  <2> QED
    BY <2>2, HoldsIsStored DEF IsStored, Conflicting
<1> QED
  BY <1>1, AnswersInitially, AnswersInductive, PTL DEF ImportSpec

(* A load that succeeds returns the stored source, with properties for all *)
(* of its features or for none, although every feature is read on a        *)
(* connection of its own; and no load or audit calls a source corrupt      *)
(* because others commit between its reads.                                *)
THEOREM LoadsAreConsistent == ImportSpec => []LoadIsConsistent
<1>1. SourceInv => LoadIsConsistent
  <2> SUFFICES ASSUME SourceInv, NEW h \in Handle, Returned(h, ReadOp)
               PROVE  /\ client[h].outcome.status \notin {"schema_invalid", "record_not_found"}
                      /\ /\ Returned(h, {"load_durable_source_result"})
                         /\ client[h].outcome.status = "ok"
                         => /\ client[h].shapes = Stored(h).geometry
                            /\ client[h].values \in {Missing, Stored(h).properties}
    BY DEF LoadIsConsistent
  <2>1. AnswerOK(client[h], Stored(h))
    BY DEF SourceInv, AnswerInv, ClientInv, Returned, CallOK, Stored
  <2> QED
    BY <2>1 DEF AnswerOK, Returned
<1> QED
  BY <1>1, AnswersInitially, AnswersInductive, PTL DEF ImportSpec

-----------------------------------------------------------------------------
(* What the adapters decode is determined by what a provenance says: the   *)
(* adapter, the snapshot and the bytes.                                    *)
GeometryOf(adapter, resources, snapshot) ==
  DecodedGeometry(adapter, [resources |-> resources, snapshot |-> snapshot])

LEMMA SameBytes ==
  ASSUME NEW adapter, NEW one, NEW other,
         one.resources = other.resources, one.snapshot = other.snapshot
  PROVE  /\ DecodedGeometry(adapter, one) = DecodedGeometry(adapter, other)
         /\ DecodedProperties(adapter, one) = DecodedProperties(adapter, other)
<1>1. \A any : DecodedGeometry(adapter, any) = GeometryOf(adapter, any.resources, any.snapshot)
  BY DEF GeometryOf, DecodedGeometry, StableId
<1>2. DecodedGeometry(adapter, one) = DecodedGeometry(adapter, other)
  BY <1>1
<1>3. DecodedProperties(adapter, one) = DecodedProperties(adapter, other)
  BY <1>2 DEF DecodedProperties
<1> QED
  BY <1>2, <1>3

(* So rows accepted under one provenance are one row.                      *)
LEMMA AcceptedByProvenance ==
  ASSUME NEW row, NEW offer, Accepted(row), Accepted(offer),
         row["provenance"] = offer["provenance"]
  PROVE  \A p \in Part : row[p] = offer[p]
<1>1. ASSUME NEW any, Accepted(any)
      PROVE  \E manifest :
               /\ any["provenance"].snapshot = manifest.snapshot
               /\ any["provenance"].content = manifest.resources
               /\ any["geometry"] = DecodedGeometry(any["provenance"].adapter, manifest)
               /\ any["properties"] = DecodedProperties(any["provenance"].adapter, manifest)
  <2>1. PICK root \in Root, manifest \in Manifest, binding \in Binding :
          \E report \in Reports(binding.adapter, manifest) :
            /\ BridgeVerdict(binding, manifest, report) = "ok"
            /\ \A p \in Part : any[p] = RecordedRow(binding, manifest, report)[p]
    BY <1>1 DEF Accepted
  <2>2. PICK report \in Reports(binding.adapter, manifest) :
            /\ BridgeVerdict(binding, manifest, report) = "ok"
            /\ \A p \in Part : any[p] = RecordedRow(binding, manifest, report)[p]
    BY <2>1
  <2>3. DescribesManifest(report, manifest, binding)
    BY <2>2 DEF BridgeVerdict
  <2>4. /\ any["provenance"] = RecordedProvenance(binding, report)
        /\ any["geometry"] = DecodedGeometry(binding.adapter, manifest)
        /\ any["properties"] = DecodedProperties(binding.adapter, manifest)
    BY <2>2 DEF RecordedRow, Part
  <2>5. /\ any["provenance"].adapter = binding.adapter
        /\ any["provenance"].snapshot = manifest.snapshot
        /\ any["provenance"].content = manifest.resources
    BY <2>3, <2>4 DEF RecordedProvenance, DescribesManifest, ContentHash
  <2> QED
    BY <2>4, <2>5
<1>2. PICK one :
        /\ row["provenance"].snapshot = one.snapshot
        /\ row["provenance"].content = one.resources
        /\ row["geometry"] = DecodedGeometry(row["provenance"].adapter, one)
        /\ row["properties"] = DecodedProperties(row["provenance"].adapter, one)
  BY <1>1
<1>3. PICK other :
        /\ offer["provenance"].snapshot = other.snapshot
        /\ offer["provenance"].content = other.resources
        /\ offer["geometry"] = DecodedGeometry(offer["provenance"].adapter, other)
        /\ offer["properties"] = DecodedProperties(offer["provenance"].adapter, other)
  BY <1>1
<1>4. /\ row["geometry"] = offer["geometry"] /\ row["properties"] = offer["properties"]
  BY <1>2, <1>3, SameBytes
<1> QED
  BY <1>4 DEF Part

(* An accepted row has a provenance and a geometry.                        *)
LEMMA AcceptedHasGeometry ==
  ASSUME NEW row, Accepted(row)
  PROVE  Missing \notin {row["provenance"], row["geometry"]}
<1>1. PICK root \in Root, manifest \in Manifest, binding \in Binding :
        \E report \in Reports(binding.adapter, manifest) :
          /\ BridgeVerdict(binding, manifest, report) = "ok"
          /\ \A p \in Part : row[p] = RecordedRow(binding, manifest, report)[p]
  BY DEF Accepted
<1> QED
  BY <1>1, RecordAssumption DEF RecordedRow, Part

(* Completing a row with an accepted one never mixes the two.              *)
LEMMA MergedIsOneImport ==
  ASSUME NEW row, NEW offer, Promise!Described(row), Conflicting(row, offer) = {},
         Accepted(offer), HasGeometry(row) => Accepted(row)
  PROVE  Accepted(Merged(row, offer))
<1> DEFINE new == Merged(row, offer)
<1>1. \A p \in Part :
        /\ new[p] = IF row[p] = Missing /\ offer[p] # Missing THEN offer[p] ELSE row[p]
        /\ row[p] # Missing /\ offer[p] # Missing => row[p] = offer[p]
  BY DEF Merged, Inserted, Lacking, Conflicting, Differs
<1>2. Missing \notin {offer["provenance"], offer["geometry"]}
  BY AcceptedHasGeometry
<1>3. \A p \in Part : new[p] = offer[p]
  <2>1. CASE HasGeometry(row)
    <3>1. row["provenance"] # Missing
      BY <2>1 DEF HasGeometry, Promise!Described
    <3>2. row["provenance"] = offer["provenance"]
      BY <1>1, <1>2, <3>1 DEF Part
    <3>3. \A p \in Part : row[p] = offer[p]
      BY <2>1, <3>2, AcceptedByProvenance
    <3> QED
      BY <1>1, <3>3
  <2>2. CASE ~HasGeometry(row)
    <3>1. row["geometry"] = Missing /\ row["properties"] = Missing
      BY <2>2 DEF HasGeometry, Promise!Described
    <3> QED
      BY <1>1, <1>2, <3>1 DEF Part
  <2> QED
    BY <2>1, <2>2
<1> QED
  BY <1>3 DEF Accepted

(* Inside a call, or when it is lost, a handle offers nothing else.        *)
LEMMA OffersStay ==
  ASSUME SourceInv, NEW h \in Handle, Write(h) \/ Look(h) \/ Load(h) \/ Audit(h)
  PROVE  \A g \in Handle : client'[g].call \in {client[g].call, NoCall}
<1>0. /\ client = [g \in Handle |-> client[g]]
      /\ Whole(client[h])
  BY DEF SourceInv, CatalogInv
<1>1. ASSUME NEW c, client' = [client EXCEPT ![h] = c], c.call \in {client[h].call, NoCall}
      PROVE  \A g \in Handle : client'[g].call \in {client[g].call, NoCall}
  BY <1>0, <1>1
<1>2. ASSUME NEW status, Return(h, status)
      PROVE  \A g \in Handle : client'[g].call \in {client[g].call, NoCall}
  <2>1. Finished(h, status).call = client[h].call
    BY DEF Finished, Idle
  <2> QED
    BY <1>1, <1>2, <2>1 DEF Return
<1>3. ASSUME NEW status, ReturnAfterRefresh(h, status)
      PROVE  \A g \in Handle : client'[g].call \in {client[g].call, NoCall}
  BY <1>0, <1>3 DEF ReturnAfterRefresh, Whole, Fields
<1>4. ASSUME NEW pc, Go(h, pc)
      PROVE  \A g \in Handle : client'[g].call \in {client[g].call, NoCall}
  BY <1>0, <1>4 DEF Go, Whole, Fields
<1>5. ASSUME NEW then, ReadValue(h, then)
      PROVE  \A g \in Handle : client'[g].call \in {client[g].call, NoCall}
  BY <1>0, <1>2, <1>5 DEF ReadValue, Whole, Fields
<1>6. CASE Write(h)
  <2>1. CASE Commit(h)
    BY <1>0, <2>1 DEF Commit, Whole, Fields
  <2>2. CASE Probe(h)
    BY <1>0, <2>1, <2>2 DEF Probe, Whole, Fields
  <2>3. CASE Crash(h)
    BY <1>1, <2>3 DEF Crash, Idle
  <2> QED
    BY <1>2, <1>3, <1>6, <2>1, <2>2, <2>3 DEF Write, Transaction, Refresh, Fails
<1>7. CASE Look(h)
  <2>1. CASE Existing(h)
    BY <1>0, <1>2, <1>4, <2>1 DEF Existing, Whole, Fields
  <2> QED
    BY <1>2, <1>3, <1>4, <1>5, <1>7, <2>1
       DEF Look, Match, ExistingValue, CompareExisting
<1>8. CASE Load(h)
  <2>1. CASE GeometryIndex(h)
    BY <1>0, <1>2, <2>1 DEF GeometryIndex, Whole, Fields
  <2>2. CASE PropertyIndex(h)
    BY <1>0, <1>2, <1>4, <2>2 DEF PropertyIndex, Whole, Fields
  <2>3. CASE ReadShape(h)
    BY <1>0, <1>2, <2>3 DEF ReadShape, Whole, Fields
  <2> QED
    BY <1>2, <1>4, <1>5, <1>8, <2>1, <2>2, <2>3 DEF Load, Catalog, ReadFeatureValue, Loaded
<1>9. CASE Audit(h)
  BY <1>2, <1>4, <1>9 DEF Audit, AuditGeometry, AuditProperties
<1> QED
  BY <1>6, <1>7, <1>8, <1>9

(* A new call offers a row for an imported source only if it imports it.   *)
LEMMA OffersAreImports ==
  ASSUME SourceInv, NEW h \in Handle, Begin(h) \/ Import(h)
  PROVE  OfferOK(client'[h]) /\ \A g \in Handle \ {h} : client'[g] = client[g]
<1>0. client = [g \in Handle |-> client[g]]
  BY DEF SourceInv, CatalogInv
<1>1. CASE Begin(h)
  <2>1. PICK q \in Call : client' = [client EXCEPT ![h] = Called(q)]
    BY <1>1 DEF Begin
  <2>2. client'[h] = Called(q) /\ \A g \in Handle \ {h} : client'[g] = client[g]
    BY <1>0, <2>1
  <2>3. client'[h].call = q
    BY <2>2, CalledClient
  <2>4. q.source \in ImportSource /\ q.op \in WriteOp => q.op = "store_source_snapshot"
    BY ImportAssumption DEF ReadOp, WriteOp
  <2> QED
    BY <2>2, <2>3, <2>4 DEF OfferOK
<1>2. CASE Import(h)
  <2>1. PICK reached \in Imports : client' = [client EXCEPT ![h] = reached]
    BY <1>2 DEF Import
  <2>2. client'[h] = reached /\ \A g \in Handle \ {h} : client'[g] = client[g]
    BY <1>0, <2>1
  <2>3. CASE \E verdict : reached = Rejected(verdict)
    BY <2>2, <2>3, RejectedClient DEF OfferOK
  <2>4. CASE \E s \in ImportSource, row \in Row : reached = Recorded(s, row) /\ Accepted(row)
    <3>1. PICK s \in ImportSource, row \in Row : reached = Recorded(s, row) /\ Accepted(row)
      BY <2>4
    <3>2. reached.call = [op |-> "store_source_dataset", source |-> s, row |-> row]
      BY <3>1, CalledClient DEF Recorded
    <3> QED
      BY <2>2, <3>1, <3>2 DEF OfferOK
  <2> QED
    BY <2>2, <2>3, <2>4, ImportedIs
<1> QED
  BY <1>1, <1>2

(* The rows of imported sources after a step: only a transaction writes    *)
(* one, and what it writes is one import.                                  *)
LEMMA RowsAreImports ==
  ASSUME SourceInv, ImportInv, NEW h \in Handle, Write(h), NEW s \in ImportSource,
         HasGeometry(stored'[s])
  PROVE  Accepted(stored'[s])
<1> DEFINE q == client[h].call
<1>1. CASE stored'[s] = stored[s]
  BY <1>1 DEF ImportInv
<1>2. CASE stored'[s] # stored[s]
  <2>1. Commit(h) /\ (Transaction(h) \/ Probe(h))
    BY <1>2 DEF Write, Transaction, Probe, Refresh, Fails, Crash
  <2>2. /\ q.source \in Source /\ Offered(q) /\ q # NoCall
        /\ client[h].pc \notin {"idle", "done"}
        /\ q.op \in WriteOp
    <3>1. client[h].pc \in {"transaction", "probe"}
      BY <2>1 DEF Transaction, Probe, At
    <3>2. /\ q.source \in Source /\ Offered(q)
          /\ q.op \in WriteOp
      BY <3>1 DEF SourceInv, CatalogInv, ClientOK, PropertyPc, Matched, WriteOp
    <3> QED
      BY <3>1, <3>2, InCall
  <2>3. /\ stored[s] = [p \in Part |-> stored[s][p]] /\ Promise!Described(stored[s])
        /\ stored = [t \in Source |-> stored[t]]
    BY ImportAssumption DEF SourceInv, CatalogInv, RowsOK
  <2>4. q.source = s /\ stored'[s] = Merged(stored[s], Offer(h)) /\ Stored(h) = stored[s]
    <3>1. stored' = [stored EXCEPT ![q.source] = Merged(@, Offer(h))]
      BY <2>1 DEF Commit
    <3> QED
      BY <1>2, <2>2, <2>3, <3>1, ImportAssumption DEF Stored
  <2>5. OfferOK(client[h])
    BY DEF ImportInv
  <2>6. q.op \in {"store_source_snapshot", "store_source_dataset"}
    BY <2>2, <2>4, <2>5 DEF OfferOK
  <2>7. Verdict(q.op, Stored(h), Offer(h)) = "commit"
    <3>1. Transaction(h)
      BY <2>1, <2>2, <2>6 DEF Probe, At, SourceInv, CatalogInv, ClientOK, PropertyPc, Matched
    <3> QED
      BY <1>2, <2>1, <2>4, <3>1 DEF Transaction
  <2>8. Conflicting(stored[s], Offer(h)) = {} /\ Lacking(stored[s], Offer(h)) # {}
    BY <2>4, <2>7 DEF Verdict, Decide
  <2>9. CASE q.op = "store_source_dataset"
    <3>1. Accepted(Offer(h))
      BY <2>2, <2>4, <2>5, <2>9 DEF OfferOK, Offer
    <3>2. HasGeometry(stored[s]) => Accepted(stored[s])
      BY DEF ImportInv
    <3> QED
      BY <2>3, <2>4, <2>8, <3>1, <3>2, MergedIsOneImport
  <2>10. CASE q.op = "store_source_snapshot"
    <3>1. Offer(h)["geometry"] = Missing /\ Offer(h)["properties"] = Missing
      BY <2>2, <2>10 DEF Offered, Part, Offer
    <3>2. stored[s]["geometry"] # Missing
      BY <2>4, <3>1 DEF Merged, Inserted, Lacking, Part, HasGeometry
    <3>3. stored[s]["provenance"] # Missing
      BY <2>3, <3>2 DEF Promise!Described
    <3> QED
      BY <2>8, <3>1, <3>3 DEF Lacking, Part
  <2> QED
    BY <2>6, <2>9, <2>10
<1> QED
  BY <1>1, <1>2

LEMMA ImportsInductive ==
  ASSUME SourceInv, ImportInv, [ImportNext]_vars
  PROVE  ImportInv'
<1>1. CASE UNCHANGED vars
  BY <1>1 DEF vars, ImportInv, OfferOK
<1>2. CASE \E h \in Handle : Begin(h) \/ Import(h)
  <2>1. PICK h \in Handle : Begin(h) \/ Import(h)
    BY <1>2
  <2>2. UNCHANGED stored
    BY <2>1 DEF Begin, Import
  <2>3. \A g \in Handle : OfferOK(client'[g])
    BY <2>1, OffersAreImports DEF ImportInv
  <2> QED
    BY <2>2, <2>3 DEF ImportInv
<1>3. CASE \E h \in Handle : Write(h) \/ Look(h) \/ Load(h) \/ Audit(h)
  <2>1. PICK h \in Handle : Write(h) \/ Look(h) \/ Load(h) \/ Audit(h)
    BY <1>3
  <2>2. \A g \in Handle : OfferOK(client'[g])
    BY <2>1, OffersStay DEF ImportInv, OfferOK
  <2>3. ASSUME NEW s \in ImportSource, HasGeometry(stored'[s])
        PROVE  Accepted(stored'[s])
    <3>1. CASE Write(h)
      BY <2>3, <3>1, RowsAreImports
    <3>2. CASE Look(h) \/ Load(h) \/ Audit(h)
      <4>1. UNCHANGED stored
        BY <3>2 DEF Look, Match, Existing, ExistingValue, CompareExisting, Load, Catalog,
           GeometryIndex, PropertyIndex, ReadShape, ReadFeatureValue, Loaded,
           Audit, AuditGeometry, AuditProperties
      <4> QED
        BY <2>3, <4>1 DEF ImportInv
    <3> QED
      BY <2>1, <3>1, <3>2
  <2> QED
    BY <2>2, <2>3 DEF ImportInv
<1> QED
  BY <1>1, <1>2, <1>3 DEF ImportNext, Next

LEMMA ImportsInitially ==
  ASSUME Init
  PROVE  ImportInv
<1>1. \A h \in Handle : OfferOK(client[h])
  BY IdleClient DEF Init, OfferOK
<1>2. \A s \in ImportSource : ~HasGeometry(stored[s])
  BY ImportAssumption DEF Init, Nothing, Part, HasGeometry
<1> QED
  BY <1>1, <1>2 DEF ImportInv

(* What is stored under an imported source, geometry and properties, is    *)
(* what one accepted import decoded, whole: imports of other snapshots,    *)
(* bindings or adapters into the same source never mix with it, and        *)
(* neither do failures and retries.                                        *)
ImportedWhole ==
  \A s \in ImportSource : HasGeometry(stored[s]) => Accepted(stored[s])

THEOREM ImportsAreWhole == ImportSpec => []ImportedWhole
<1>1. Init => SourceInv /\ ImportInv
  BY AnswersInitially, ImportsInitially
<1>2. SourceInv /\ ImportInv /\ [ImportNext]_vars => (SourceInv /\ ImportInv)'
  BY AnswersInductive, ImportsInductive
<1>3. ImportInv => ImportedWhole
  BY DEF ImportInv, ImportedWhole
<1> QED
  BY <1>1, <1>2, <1>3, PTL DEF ImportSpec

(* A geometry is recorded only under a manifest that describes it, in      *)
(* dataset, origin and content, and whose local files were verified: an    *)
(* adapter that passes the registry cannot give another acquisition to     *)
(* what it returns.                                                        *)
THEOREM RecordedAreAcquired == ImportSpec => []RecordedIsAcquired
<1>1. ImportedWhole => RecordedIsAcquired
  <2> SUFFICES ASSUME ImportedWhole, NEW s \in ImportSource, stored[s].geometry # Missing
               PROVE  \E manifest \in Manifest, root \in Root :
                        /\ VerifyVerdict(root, manifest) = "ok"
                        /\ LET from == stored[s].provenance
                           IN /\ from.content = manifest.resources
                              /\ from.origin = manifest.origin
                              /\ from.dataset = manifest.dataset
    BY DEF RecordedIsAcquired
  <2>1. PICK root \in Root, manifest \in Manifest, binding \in Binding :
          \E report \in Reports(binding.adapter, manifest) :
            /\ VerifyVerdict(root, manifest) = "ok"
            /\ BridgeVerdict(binding, manifest, report) = "ok"
            /\ \A p \in Part : stored[s][p] = RecordedRow(binding, manifest, report)[p]
    BY DEF ImportedWhole, HasGeometry, Accepted
  <2>2. PICK report \in Reports(binding.adapter, manifest) :
            /\ BridgeVerdict(binding, manifest, report) = "ok"
            /\ stored[s]["provenance"] = RecordedProvenance(binding, report)
    BY <2>1 DEF RecordedRow, Part
  <2>3. DescribesManifest(report, manifest, binding)
    BY <2>2 DEF BridgeVerdict
  <2>4. LET from == stored[s]["provenance"]
        IN /\ from.content = manifest.resources
           /\ from.origin = manifest.origin
           /\ from.dataset = manifest.dataset
    BY <2>2, <2>3 DEF RecordedProvenance, DescribesManifest, ContentHash
  <2> QED
    BY <2>1, <2>4
<1> QED
  BY <1>1, ImportsAreWhole, PTL

-----------------------------------------------------------------------------
(* Recursive functions.                                                    *)

LEMMA LeastNumber ==
  ASSUME NEW T, T \subseteq Nat, T # {}
  PROVE  \E m \in T : \A k \in T : m <= k
<1> DEFINE R == OpToRel(<, Nat)
<1>1. PICK m \in T : \A k \in T : ~(<<k, m>> \in R)
  <2>1. IsWellFoundedOn(R, Nat)
    BY NatLessThanWellFounded
  <2> HIDE DEF R
  <2> QED
    BY <2>1, WFMin
<1>2. \A k \in T : ~ k < m
  BY <1>1 DEF OpToRel
<1> QED
  BY <1>2

(* Induction, over a set instead of a predicate.                           *)
LEMMA UpTo ==
  ASSUME NEW m \in Nat, NEW n \in Nat, NEW T,
         m \in T, \A i \in m + 1 .. n : i - 1 \in T => i \in T
  PROVE  m .. n \subseteq T
<1> DEFINE Bad == {i \in m .. n : i \notin T}
<1> SUFFICES ASSUME Bad # {} PROVE FALSE
  OBVIOUS
<1>1. Bad \subseteq Nat
  OBVIOUS
<1>2. PICK i \in Bad : \A k \in Bad : i <= k
  <2> HIDE DEF Bad
  <2> QED
    BY <1>1, LeastNumber
<1>3. i # m /\ i \in m + 1 .. n
  BY <1>2
<1>4. i - 1 \in m .. n /\ i - 1 \notin Bad
  BY <1>2, <1>3
<1> QED
  BY <1>2, <1>3, <1>4

(***************************************************************************)
(* Recursive functions: what each value follows from the one before by     *)
(* step[i], a function, is defined.                                        *)
(***************************************************************************)
Follows(f, m, n, b, step) ==
  f[m] = b /\ \A i \in m + 1 .. n : f[i] = step[i][f[i - 1]]

LEMMA Recursion ==
  ASSUME NEW S, NEW m \in Nat, NEW n \in Nat, m <= n,
         NEW b \in S, NEW step \in [m + 1 .. n -> [S -> S]]
  PROVE  \E f \in [m .. n -> S] : Follows(f, m, n, b, step)
<1> DEFINE T == {k \in m .. n : \E f \in [m .. k -> S] : Follows(f, m, k, b, step)}
<1>1. m \in T
  <2>1. [i \in m .. m |-> b] \in [m .. m -> S]
    OBVIOUS
  <2>2. Follows([i \in m .. m |-> b], m, m, b, step)
    <3>1. m \in m .. m /\ \A i \in m + 1 .. m : FALSE
      OBVIOUS
    <3> QED
      BY <3>1 DEF Follows
  <2>3. PICK f \in [m .. m -> S] : Follows(f, m, m, b, step)
    BY <2>1, <2>2
  <2>4. m \in m .. n
    OBVIOUS
  <2> QED
    BY <2>3, <2>4
<1>2. ASSUME NEW k \in m + 1 .. n, k - 1 \in T
      PROVE  k \in T
  <2>1. PICK f \in [m .. k - 1 -> S] : Follows(f, m, k - 1, b, step)
    BY <1>2
  <2> DEFINE g == [i \in m .. k |-> IF i = k THEN step[k][f[k - 1]] ELSE f[i]]
  <2>2. k - 1 \in m .. k - 1 /\ k \in m .. n /\ m # k /\ m \in m .. k
    OBVIOUS
  <2>3. step[k][f[k - 1]] \in S
    BY <2>2
  <2>4. g \in [m .. k -> S]
    <3>1. ASSUME NEW i \in m .. k, i # k PROVE f[i] \in S
      <4>1. i \in m .. k - 1
        BY <3>1
      <4> QED
        BY <4>1
    <3> QED
      BY <2>3, <3>1
  <2>5. g[m] = b
    BY <2>1, <2>2 DEF Follows
  <2>6. ASSUME NEW i \in m + 1 .. k PROVE g[i] = step[i][g[i - 1]]
    <3>1. i - 1 \in m .. k /\ i - 1 # k /\ i \in m .. k
      OBVIOUS
    <3>2. i # k => i \in m + 1 .. k - 1
      OBVIOUS
    <3> QED
      BY <2>1, <3>1, <3>2 DEF Follows
  <2> HIDE DEF g
  <2>7. Follows(g, m, k, b, step)
    BY <2>5, <2>6 DEF Follows
  <2> QED
    BY <2>2, <2>4, <2>7
<1>3. n \in T
  <2>1. m .. n \subseteq T
    <3> HIDE DEF T
    <3> QED
      BY <1>1, <1>2, UpTo
  <2>2. n \in m .. n
    OBVIOUS
  <2> HIDE DEF T
  <2> QED
    BY <2>1, <2>2
<1> QED
  BY <1>3

-----------------------------------------------------------------------------
(* The records of a Shapefile.                                             *)

Records(shp) == [number : DOMAIN shp, rings : {shp[n] : n \in DOMAIN shp}]

(* What has been read when the file was read up to shape n.                *)
ReadUpTo(read, shp, n) ==
  /\ read \in Seq(Records(shp))
  /\ \A k \in DOMAIN read :
       /\ read[k].number \in 1 .. n
       /\ read[k].rings = shp[read[k].number] /\ read[k].rings # NullShape
  /\ \A m \in 1 .. n : shp[m] # NullShape => \E k \in DOMAIN read : read[k].number = m
  /\ \A j, k \in DOMAIN read : read[j].number = read[k].number => j = k

LEMMA ReadOneShape ==
  ASSUME NEW shp, NEW N \in Nat, DOMAIN shp = 1 .. N, NEW n \in 1 .. N, NEW read,
         ReadUpTo(read, shp, n - 1)
  PROVE  ReadUpTo(IF shp[n] = NullShape THEN read
                  ELSE Append(read, [number |-> n, rings |-> shp[n]]), shp, n)
<1>1. CASE shp[n] = NullShape
  <2>1. \A m \in 1 .. n : m # n => m \in 1 .. n - 1
    OBVIOUS
  <2> QED
    BY <1>1, <2>1 DEF ReadUpTo
<1>2. CASE shp[n] # NullShape
  <2> DEFINE record == [number |-> n, rings |-> shp[n]]
  <2>1. PICK all : all = Append(read, record)
    OBVIOUS
  <2>2. record \in Records(shp) /\ read \in Seq(Records(shp))
    BY DEF Records, ReadUpTo
  <2>3. PICK size \in Nat : size = Len(read)
    BY <2>2
  <2>4. /\ all \in Seq(Records(shp))
        /\ DOMAIN all = 1 .. size + 1 /\ DOMAIN read = 1 .. size
        /\ \A k \in 1 .. size : all[k] = read[k]
        /\ all[size + 1] = record
    <3> HIDE DEF record
    <3> QED
      BY <2>1, <2>2, <2>3, AppendProperties
  <2>5. record.number = n /\ record.rings = shp[n]
    OBVIOUS
  <2> HIDE DEF record
  <2>6. ASSUME NEW k \in DOMAIN all
        PROVE  /\ all[k].number \in 1 .. n
               /\ all[k].rings = shp[all[k].number] /\ all[k].rings # NullShape
    <3>1. CASE k = size + 1
      BY <1>2, <2>4, <2>5, <3>1
    <3>2. CASE k # size + 1
      <4>1. k \in DOMAIN read /\ all[k] = read[k]
        BY <2>3, <2>4, <3>2
      <4>2. read[k].number \in 1 .. n - 1
        BY <4>1 DEF ReadUpTo
      <4> QED
        BY <4>1, <4>2 DEF ReadUpTo
    <3> QED
      BY <3>1, <3>2
  <2>7. ASSUME NEW m \in 1 .. n, shp[m] # NullShape
        PROVE  \E k \in DOMAIN all : all[k].number = m
    <3>1. CASE m = n
      <4>1. size + 1 \in DOMAIN all
        BY <2>3, <2>4
      <4> QED
        BY <2>4, <2>5, <3>1, <4>1
    <3>2. CASE m # n
      <4>1. m \in 1 .. n - 1
        BY <3>2
      <4>2. PICK k \in DOMAIN read : read[k].number = m
        BY <2>7, <4>1 DEF ReadUpTo
      <4>3. k \in DOMAIN all /\ all[k] = read[k]
        BY <2>3, <2>4, <4>2
      <4> QED
        BY <4>2, <4>3
    <3> QED
      BY <3>1, <3>2
  <2>8. ASSUME NEW j \in DOMAIN all, NEW k \in DOMAIN all, all[j].number = all[k].number
        PROVE  j = k
    <3>1. ASSUME NEW i \in DOMAIN all
          PROVE  \/ i = size + 1 /\ all[i].number = n
                 \/ i \in DOMAIN read /\ all[i] = read[i] /\ all[i].number \in 1 .. n - 1
      <4>1. i # size + 1 => i \in DOMAIN read /\ all[i] = read[i]
        BY <2>3, <2>4
      <4> QED
        BY <2>4, <2>5, <4>1 DEF ReadUpTo
    <3>2. n \notin 1 .. n - 1
      OBVIOUS
    <3> QED
      BY <2>8, <3>1, <3>2 DEF ReadUpTo
  <2>9. ReadUpTo(all, shp, n)
    BY <2>4, <2>6, <2>7, <2>8 DEF ReadUpTo
  <2> QED
    BY <1>2, <2>1, <2>9 DEF record
<1> QED
  BY <1>1, <1>2

LEMMA ShapesAreRead ==
  ASSUME NEW shp, shp \in Seq({shp[n] : n \in DOMAIN shp})
  PROVE  ReadUpTo(ShapeRecords(shp), shp, Len(shp))
<1>1. PICK N \in Nat : N = Len(shp) /\ DOMAIN shp = 1 .. N
  OBVIOUS
<1> DEFINE S == Seq(Records(shp))
           Rule(read, n) == IF n = 0 THEN <<>>
                            ELSE IF shp[n] = NullShape THEN read[n - 1]
                            ELSE Append(read[n - 1], [number |-> n, rings |-> shp[n]])
           step == [n \in 0 + 1 .. N |-> [sofar \in S |->
                      IF shp[n] = NullShape THEN sofar
                      ELSE Append(sofar, [number |-> n, rings |-> shp[n]])]]
<1>2. step \in [0 + 1 .. N -> [S -> S]]
  <2>1. ASSUME NEW n \in 0 + 1 .. N, NEW sofar \in S
        PROVE  Append(sofar, [number |-> n, rings |-> shp[n]]) \in S
    <3>1. [number |-> n, rings |-> shp[n]] \in Records(shp)
      BY <1>1 DEF Records
    <3> QED
      BY <3>1
  <2> HIDE DEF S
  <2> QED
    BY <2>1
<1>3. <<>> \in S
  OBVIOUS
<1>4. PICK f \in [0 .. N -> S] : Follows(f, 0, N, <<>>, step)
  <2>1. 0 \in Nat /\ 0 <= N
    OBVIOUS
  <2> HIDE DEF S, step
  <2> QED
    BY <1>2, <1>3, <2>1, Recursion
<1>5. f = [n \in 0 .. N |-> Rule(f, n)]
  <2>1. ASSUME NEW n \in 0 .. N PROVE f[n] = Rule(f, n)
    <3>1. CASE n = 0
      BY <1>4, <3>1 DEF Follows
    <3>2. CASE n # 0
      <4>1. n \in 0 + 1 .. N /\ n - 1 \in 0 .. N
        BY <3>2
      <4>2. f[n] = step[n][f[n - 1]] /\ f[n - 1] \in S
        BY <1>4, <4>1 DEF Follows
      <4> HIDE DEF S
      <4> QED
        BY <3>2, <4>1, <4>2
    <3> QED
      BY <3>1, <3>2
  <2>2. f = [n \in 0 .. N |-> f[n]]
    OBVIOUS
  <2> HIDE DEF Rule
  <2> QED
    BY <2>1, <2>2
<1> DEFINE read == CHOOSE g : g = [n \in 0 .. N |-> Rule(g, n)]
<1>6. read = [n \in 0 .. N |-> Rule(read, n)]
  <2> HIDE DEF Rule
  <2> QED
    BY <1>5
<1>7. ShapeRecords(shp) = read[N]
  BY <1>1 DEF ShapeRecords
<1> DEFINE T == {n \in 0 .. N : ReadUpTo(read[n], shp, n)}
<1> HIDE DEF read
<1>8. 0 \in T
  <2>1. read[0] = <<>> /\ 0 \in 0 .. N
    BY <1>6
  <2>2. ReadUpTo(<<>>, shp, 0)
    BY <1>3 DEF ReadUpTo
  <2> QED
    BY <2>1, <2>2
<1>9. ASSUME NEW n \in 0 + 1 .. N, n - 1 \in T
      PROVE  n \in T
  <2>1. n \in 1 .. N /\ n \in 0 .. N /\ n # 0
    OBVIOUS
  <2>2. ReadUpTo(read[n - 1], shp, n - 1)
    BY <1>9
  <2>3. read[n] = IF shp[n] = NullShape THEN read[n - 1]
                  ELSE Append(read[n - 1], [number |-> n, rings |-> shp[n]])
    BY <1>6, <2>1
  <2>4. ReadUpTo(read[n], shp, n)
    BY <1>1, <2>1, <2>2, <2>3, ReadOneShape
  <2> QED
    BY <2>1, <2>4
<1>10. N \in T
  <2>1. 0 \in Nat /\ N \in 0 .. N
    OBVIOUS
  <2>2. 0 .. N \subseteq T
    <3> HIDE DEF T
    <3> QED
      BY <1>8, <1>9, <2>1, UpTo
  <2> QED
    BY <2>1, <2>2
<1> QED
  BY <1>1, <1>7, <1>10

(* What an import that is accepted has found of its files.                 *)
LEMMA AcceptedFiles ==
  ASSUME NEW manifest \in Manifest, NEW binding \in Binding,
         NEW report \in Reports(binding.adapter, manifest),
         BridgeVerdict(binding, manifest, report) = "ok"
  PROVE  LET adapter == binding.adapter
             content == manifest.resources
             records == ShapeRecords(content["shp"])
         IN /\ binding.capability = Capability(adapter)
            /\ ContentHash(report) = content
            /\ content["shp"] \in Seq({content["shp"][n] : n \in DOMAIN content["shp"]})
            /\ adapter \in Political =>
                 /\ content["dbf"] \in Seq({content["dbf"][n] : n \in DOMAIN content["dbf"]})
                 /\ Joined(records, content["dbf"])
<1> DEFINE adapter == binding.adapter
           content == manifest.resources
<1>1. /\ binding.capability = Capability(adapter)
      /\ ContentHash(report) = ContentHash(manifest)
      /\ RequestError(adapter, binding, manifest) = "none"
      /\ DecodeError(adapter, content) = "none"
  BY DEF BridgeVerdict, RegistryVerdict
<1>2. Required(adapter) \subseteq DOMAIN content /\ ~Undecodable(adapter, content)
  BY <1>1 DEF RequestError
<1>3. "shp" \in DOMAIN content /\ content["shp"] # Malformed
  BY <1>2 DEF Required, Undecodable
<1>4. adapter \in Political => "dbf" \in DOMAIN content /\ content["dbf"] # Malformed
  BY <1>2 DEF Required, Undecodable
<1>5. adapter \in Political => Joined(ShapeRecords(content["shp"]), content["dbf"])
  BY <1>1 DEF DecodeError
<1>6. \A name \in {"shp", "dbf"} \cap DOMAIN content : IsTable(content[name])
  BY ImportAssumption
<1> QED
  BY <1>1, <1>3, <1>4, <1>5, <1>6 DEF IsTable, ContentHash

(* Joined tables number their records from one, and describe each of them. *)
LEMMA JoinedRows ==
  ASSUME NEW shp, shp \in Seq({shp[n] : n \in DOMAIN shp}),
         NEW rows, rows \in Seq({rows[n] : n \in DOMAIN rows}),
         Joined(ShapeRecords(shp), rows)
  PROVE  LET records == ShapeRecords(shp) IN
         /\ DOMAIN records = DOMAIN rows
         /\ \A n \in DOMAIN rows : records[n].number = n /\ ~rows[n].deleted
         /\ \A m, n \in DOMAIN rows : rows[m].ne_id = rows[n].ne_id => m = n
<1>1. ShapeRecords(shp) \in Seq(Records(shp))
  BY ShapesAreRead DEF ReadUpTo
<1>2. Len(ShapeRecords(shp)) = Len(rows)
  BY DEF Joined
<1>3. \A S, T : \A s \in Seq(S), t \in Seq(T) : Len(s) = Len(t) => DOMAIN s = DOMAIN t
  OBVIOUS
<1>4. DOMAIN ShapeRecords(shp) = DOMAIN rows
  <2> DEFINE records == ShapeRecords(shp)
  <2>1. records \in Seq(Records(shp)) /\ Len(records) = Len(rows)
    BY <1>1, <1>2
  <2> HIDE DEF records
  <2>2. DOMAIN records = DOMAIN rows
    BY <1>3, <2>1
  <2> QED
    BY <2>2 DEF records
<1> QED
  BY <1>4 DEF Joined

(* The features of an accepted import: no two records have one ID.         *)
LEMMA FeaturesAreRecords ==
  ASSUME NEW manifest \in Manifest, NEW binding \in Binding,
         NEW report \in Reports(binding.adapter, manifest),
         BridgeVerdict(binding, manifest, report) = "ok"
  PROVE  LET adapter == binding.adapter
             records == ShapeRecords(manifest.resources["shp"])
             id(n) == StableId(adapter, manifest, records[n], n)
             geometry == DecodedGeometry(adapter, manifest)
         IN /\ DOMAIN geometry = {id(n) : n \in DOMAIN records}
            /\ \A n \in DOMAIN records :
                 geometry[id(n)] = [source_id |-> records[n].number, rings |-> records[n].rings]
<1> DEFINE adapter == binding.adapter
           content == manifest.resources
           shp == content["shp"]
           records == ShapeRecords(shp)
           id(n) == StableId(adapter, manifest, records[n], n)
           geometry == DecodedGeometry(adapter, manifest)
<1>1. /\ shp \in Seq({shp[n] : n \in DOMAIN shp})
      /\ adapter \in Political =>
           /\ content["dbf"] \in Seq({content["dbf"][n] : n \in DOMAIN content["dbf"]})
           /\ Joined(records, content["dbf"])
  BY AcceptedFiles
<1>2. ASSUME NEW m \in DOMAIN records, NEW n \in DOMAIN records, id(m) = id(n)
      PROVE  m = n
  <2>1. CASE adapter \in Political
    <3>1. content["dbf"][m].ne_id = content["dbf"][n].ne_id
      BY <1>2, <2>1 DEF StableId
    <3> HIDE DEF shp
    <3> QED
      BY <1>1, <2>1, <3>1, JoinedRows
  <2>2. CASE adapter \notin Political
    <3>1. records[m].number = records[n].number
      BY <1>2, <2>2 DEF StableId
    <3> HIDE DEF shp
    <3> QED
      BY <1>1, <3>1, ShapesAreRead DEF ReadUpTo
  <2> QED
    BY <2>1, <2>2
<1>3. geometry = [f \in {id(n) : n \in DOMAIN records} |->
                    LET n == CHOOSE k \in DOMAIN records : id(k) = f
                    IN [source_id |-> records[n].number, rings |-> records[n].rings]]
  BY DEF DecodedGeometry
<1> HIDE DEF id, records, geometry
<1>4. ASSUME NEW n \in DOMAIN records
      PROVE  geometry[id(n)] = [source_id |-> records[n].number, rings |-> records[n].rings]
  <2>1. (CHOOSE k \in DOMAIN records : id(k) = id(n)) = n
    BY <1>2
  <2> QED
    BY <1>3, <2>1
<1> QED
  BY <1>3, <1>4 DEF id, records, geometry

(* Every record of the file is a feature, and no other is.                 *)
LEMMA GeometryIsTheFile ==
  ASSUME NEW manifest \in Manifest, NEW binding \in Binding,
         NEW report \in Reports(binding.adapter, manifest),
         BridgeVerdict(binding, manifest, report) = "ok"
  PROVE  LET shp == manifest.resources["shp"]
             geometry == DecodedGeometry(binding.adapter, manifest)
         IN {geometry[f] : f \in DOMAIN geometry} =
              {[source_id |-> n, rings |-> shp[n]] : n \in {k \in DOMAIN shp : shp[k] # NullShape}}
<1> DEFINE shp == manifest.resources["shp"]
           records == ShapeRecords(shp)
           id(n) == StableId(binding.adapter, manifest, records[n], n)
           geometry == DecodedGeometry(binding.adapter, manifest)
           Shaped == {k \in DOMAIN shp : shp[k] # NullShape}
<1>1. /\ DOMAIN geometry = {id(n) : n \in DOMAIN records}
      /\ \A n \in DOMAIN records :
           geometry[id(n)] = [source_id |-> records[n].number, rings |-> records[n].rings]
  BY FeaturesAreRecords
<1>2. /\ \A k \in DOMAIN records :
           records[k].number \in Shaped /\ records[k].rings = shp[records[k].number]
      /\ \A m \in Shaped : \E k \in DOMAIN records : records[k].number = m
  <2>1. shp \in Seq({shp[n] : n \in DOMAIN shp})
    BY AcceptedFiles
  <2> HIDE DEF shp
  <2>2. ReadUpTo(ShapeRecords(shp), shp, Len(shp)) /\ DOMAIN shp = 1 .. Len(shp)
    BY <2>1, ShapesAreRead
  <2> QED
    BY <2>2 DEF ReadUpTo
<1> HIDE DEF id, records, geometry, shp
<1>3. ASSUME NEW f \in DOMAIN geometry
      PROVE  \E m \in Shaped : geometry[f] = [source_id |-> m, rings |-> shp[m]]
  BY <1>1, <1>2
<1>4. ASSUME NEW m \in Shaped
      PROVE  \E f \in DOMAIN geometry : geometry[f] = [source_id |-> m, rings |-> shp[m]]
  <2>1. PICK k \in DOMAIN records : records[k].number = m
    BY <1>2
  <2> QED
    BY <1>1, <1>2, <2>1
<1> HIDE DEF Shaped
<1>5. {geometry[f] : f \in DOMAIN geometry} = {[source_id |-> m, rings |-> shp[m]] : m \in Shaped}
  BY <1>3, <1>4
<1> QED
  BY <1>5 DEF geometry, shp, Shaped

(* Each country has the properties of the row of its own record.           *)
LEMMA PropertiesAreOfTheirRecords ==
  ASSUME NEW manifest \in Manifest, NEW binding \in Binding,
         NEW report \in Reports(binding.adapter, manifest),
         BridgeVerdict(binding, manifest, report) = "ok", binding.adapter \in Political
  PROVE  LET rows == manifest.resources["dbf"]
             geometry == DecodedGeometry(binding.adapter, manifest)
             properties == DecodedProperties(binding.adapter, manifest)
         IN /\ DOMAIN properties = DOMAIN geometry
            /\ \A f \in DOMAIN geometry :
                 LET n == geometry[f].source_id
                 IN /\ n \in DOMAIN rows
                    /\ f = <<"ne_id", rows[n].ne_id>> /\ ~rows[n].deleted
                    /\ properties[f] = CountryProperties(binding.adapter, rows[n])
<1> DEFINE adapter == binding.adapter
           rows == manifest.resources["dbf"]
           shp == manifest.resources["shp"]
           records == ShapeRecords(shp)
           id(n) == <<"ne_id", rows[n].ne_id>>
           geometry == DecodedGeometry(adapter, manifest)
           properties == DecodedProperties(adapter, manifest)
<1>1. /\ DOMAIN records = DOMAIN rows
      /\ \A n \in DOMAIN rows : records[n].number = n /\ ~rows[n].deleted
      /\ \A m, n \in DOMAIN rows : rows[m].ne_id = rows[n].ne_id => m = n
  <2>1. /\ shp \in Seq({shp[n] : n \in DOMAIN shp})
        /\ rows \in Seq({rows[n] : n \in DOMAIN rows})
        /\ Joined(records, rows)
    BY AcceptedFiles
  <2> HIDE DEF shp, rows
  <2> QED
    BY <2>1, JoinedRows
<1>2. \A n : StableId(adapter, manifest, records[n], n) = id(n)
  BY DEF StableId
<1>3. /\ DOMAIN geometry = {id(n) : n \in DOMAIN rows}
      /\ \A n \in DOMAIN rows : geometry[id(n)].source_id = n
  <2>1. /\ DOMAIN geometry = {StableId(adapter, manifest, records[n], n) : n \in DOMAIN records}
        /\ \A n \in DOMAIN records :
             geometry[StableId(adapter, manifest, records[n], n)] =
               [source_id |-> records[n].number, rings |-> records[n].rings]
    BY FeaturesAreRecords
  <2> HIDE DEF id, records, geometry, rows
  <2>2. \A n \in DOMAIN rows : geometry[id(n)].source_id = n
    <3>1. ASSUME NEW n \in DOMAIN rows
          PROVE  geometry[id(n)].source_id = n
      <4>1. n \in DOMAIN records /\ records[n].number = n
        BY <1>1, <3>1
      <4>2. geometry[StableId(adapter, manifest, records[n], n)] =
              [source_id |-> records[n].number, rings |-> records[n].rings]
        BY <2>1, <4>1
      <4>3. geometry[id(n)] = [source_id |-> n, rings |-> records[n].rings]
        BY <1>2, <4>1, <4>2
      <4> QED
        BY <4>3
    <3> QED
      BY <3>1
  <2>3. DOMAIN geometry = {id(n) : n \in DOMAIN rows}
    BY <1>1, <1>2, <2>1
  <2> QED
    BY <2>2, <2>3
<1>4. properties = [f \in {id(n) : n \in DOMAIN rows} |->
                      CountryProperties(adapter, rows[CHOOSE k \in DOMAIN rows : id(k) = f])]
  BY DEF DecodedProperties
<1>5. \A m, n \in DOMAIN rows : id(m) = id(n) => m = n
  BY <1>1
<1>6. \A n : id(n) = <<"ne_id", rows[n].ne_id>>
  OBVIOUS
<1> HIDE DEF id, records, geometry, properties, rows
<1>7. ASSUME NEW n \in DOMAIN rows
      PROVE  properties[id(n)] = CountryProperties(adapter, rows[n])
  <2>1. (CHOOSE k \in DOMAIN rows : id(k) = id(n)) = n
    BY <1>5
  <2> QED
    BY <1>4, <2>1
<1>8. ASSUME NEW f \in DOMAIN geometry
      PROVE  LET n == geometry[f].source_id
             IN /\ n \in DOMAIN rows
                /\ f = <<"ne_id", rows[n].ne_id>> /\ ~rows[n].deleted
                /\ properties[f] = CountryProperties(adapter, rows[n])
  <2>1. PICK n \in DOMAIN rows : f = id(n)
    BY <1>3
  <2>2. geometry[f].source_id = n
    BY <1>3, <2>1
  <2> QED
    BY <1>1, <1>6, <1>7, <2>1, <2>2
<1> QED
  BY <1>3, <1>4, <1>8 DEF geometry, properties, rows

(* What is stored of an imported source comes from one snapshot: every     *)
(* record of the bytes its provenance names, with the properties of its    *)
(* own row.                                                                *)
THEOREM PartsAlwaysAgree == ImportSpec => []PartsAgree
<1>1. ImportedWhole => PartsAgree
  <2> SUFFICES ASSUME ImportedWhole, NEW s \in ImportSource, stored[s].geometry # Missing
               PROVE  LET content == stored[s].provenance.content
                          shp == content["shp"]
                          geometry == stored[s].geometry
                          properties == stored[s].properties
                      IN /\ {geometry[f] : f \in DOMAIN geometry} =
                              {[source_id |-> n, rings |-> shp[n]] :
                                 n \in {k \in DOMAIN shp : shp[k] # NullShape}}
                         /\ stored[s].provenance.capability = "admin0" =>
                              /\ DOMAIN properties = DOMAIN geometry
                              /\ \A f \in DOMAIN geometry :
                                   LET n == geometry[f].source_id
                                       row == content["dbf"][n]
                                   IN /\ n \in DOMAIN content["dbf"]
                                      /\ f = <<"ne_id", row.ne_id>> /\ ~row.deleted
                                      /\ properties[f] =
                                           CountryProperties(stored[s].provenance.adapter, row)
                         /\ stored[s].provenance.capability = "surface" =>
                              properties = [f \in DOMAIN geometry |-> FloatingIceShelf]
                         /\ stored[s].provenance.capability = "land" => properties = Missing
    BY DEF PartsAgree
  <2>1. Accepted(stored[s])
    BY DEF ImportedWhole, HasGeometry
  <2>2. PICK root \in Root, manifest \in Manifest, binding \in Binding :
          \E report \in Reports(binding.adapter, manifest) :
            /\ BridgeVerdict(binding, manifest, report) = "ok"
            /\ \A p \in Part : stored[s][p] = RecordedRow(binding, manifest, report)[p]
    BY <2>1 DEF Accepted
  <2>3. PICK report \in Reports(binding.adapter, manifest) :
            /\ BridgeVerdict(binding, manifest, report) = "ok"
            /\ \A p \in Part : stored[s][p] = RecordedRow(binding, manifest, report)[p]
    BY <2>2
  <2>4. /\ stored[s].provenance = RecordedProvenance(binding, report)
        /\ stored[s].geometry = DecodedGeometry(binding.adapter, manifest)
        /\ stored[s].properties = DecodedProperties(binding.adapter, manifest)
    BY <2>3 DEF RecordedRow, Part
  <2>5. /\ binding.capability = Capability(binding.adapter)
        /\ ContentHash(report) = manifest.resources
    BY <2>3, AcceptedFiles
  <2>6. /\ stored[s].provenance.content = manifest.resources
        /\ stored[s].provenance.adapter = binding.adapter
        /\ stored[s].provenance.capability = Capability(binding.adapter)
    BY <2>4, <2>5 DEF RecordedProvenance
  <2>7. /\ Capability(binding.adapter) = "admin0" => binding.adapter \in Political
        /\ Capability(binding.adapter) = "surface" =>
             binding.adapter = "shelves" /\ binding.adapter \notin Political
        /\ Capability(binding.adapter) = "land" =>
             binding.adapter \notin Political /\ binding.adapter # "shelves"
    BY DEF Capability
  <2>8. {stored[s].geometry[f] : f \in DOMAIN stored[s].geometry} =
          {[source_id |-> n, rings |-> manifest.resources["shp"][n]] :
             n \in {k \in DOMAIN manifest.resources["shp"] :
                      manifest.resources["shp"][k] # NullShape}}
    BY <2>3, <2>4, GeometryIsTheFile
  <2>9. stored[s].provenance.capability = "admin0" =>
          /\ DOMAIN stored[s].properties = DOMAIN stored[s].geometry
          /\ \A f \in DOMAIN stored[s].geometry :
               LET n == stored[s].geometry[f].source_id
                   row == manifest.resources["dbf"][n]
               IN /\ n \in DOMAIN manifest.resources["dbf"]
                  /\ f = <<"ne_id", row.ne_id>> /\ ~row.deleted
                  /\ stored[s].properties[f] = CountryProperties(binding.adapter, row)
    BY <2>3, <2>4, <2>6, <2>7, PropertiesAreOfTheirRecords
  <2>10. stored[s].provenance.capability = "surface" =>
           stored[s].properties = [f \in DOMAIN stored[s].geometry |-> FloatingIceShelf]
    BY <2>4, <2>6, <2>7 DEF DecodedProperties
  <2>11. stored[s].provenance.capability = "land" => stored[s].properties = Missing
    BY <2>4, <2>6, <2>7 DEF DecodedProperties
  <2> QED
    BY <2>6, <2>8, <2>9, <2>10, <2>11
<1> QED
  BY <1>1, ImportsAreWhole, PTL

=============================================================================
