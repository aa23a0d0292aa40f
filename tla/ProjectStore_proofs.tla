------------------------- MODULE ProjectStore_proofs -------------------------
(***************************************************************************)
(* Any number of ProjectStore handles over one database implement the      *)
(* serial document, and what a handle caches is a committed row.           *)
(*                                                                         *)
(* The argument: the write lock is held exactly by the handle inside a     *)
(* transaction (LockNotLeaked), so nobody commits between the SELECTs of a *)
(* body and its COMMIT (TransactionReadsFresh), so a COMMIT is one serial  *)
(* mutation of the document.  StoreInv is inductive; the lock is needed    *)
(* for the freshness, the freshness for the document and for the cache.    *)
(***************************************************************************)
EXTENDS ProjectStore, ProjectDocument_proofs

StoreInv ==
  /\ StoreTypeOK
  /\ DocumentInv
  /\ LockNotLeaked
  /\ TransactionReadsFresh
  /\ CacheCoherent

(* Steps of a handle that take no part in a transaction.                   *)
ReadStep(h) ==
  \/ LoadMetadata(h) \/ ValidateFrozenClaim(h)
  \/ ReadProjection(h) \/ ValidateMetadataSync(h)
  \/ LoadAllResources(h) \/ ReadRevisionFrozen(h) \/ VerifyEachResource(h)
  \/ BusyTimeout(h) \/ Install(h) \/ ReturnSuccess(h)
  \/ OpenProject(h) \/ CallProject(h)

(* Only a COMMIT changes the document.                                     *)
LEMMA OnlyCommitWrites ==
  ASSUME StoreNext
  PROVE  UNCHANGED doc \/ \E h \in Handle : Commit(h)
BY DEF StoreNext, OpenProject, CallProject, Start, Step, LoadMetadata,
       ValidateFrozenClaim, ReadProjection, ValidateMetadataSync,
       LoadAllResources, ReadRevisionFrozen, VerifyEachResource,
       BeginImmediate, BusyTimeout, ReadTransaction, RollbackRetry,
       RollbackRefused, Install, ReturnSuccess, StatementFails, Stop

(* A COMMIT is one mutation of the document that is current.               *)
LEMMA CommitIsMutation ==
  ASSUME StoreInv, NEW h \in Handle, Commit(h)
  PROVE  request[h] \in MutationType /\ Mutate(request[h])
BY DEF StoreInv, StoreTypeOK, StatementFitsCall, TransactionReadsFresh, Commit,
       Decided, Mutate

(* DocumentInv is preserved because every COMMIT is a mutation.            *)
LEMMA DocumentPreserved ==
  ASSUME StoreInv, [StoreNext]_storeVars
  PROVE  DocumentInv' /\ [\E q \in MutationType : Mutate(q)]_doc
<1> USE DEF DocumentInv, DocumentTypeOK, FrozenClaim, ProjectionSynchronized
<1>1. CASE UNCHANGED doc
  BY <1>1 DEF StoreInv, Stored, FrozenClaimHolds
<1>2. CASE \E h \in Handle : Commit(h)
  <2>1. PICK h \in Handle : Commit(h)
    BY <1>2
  <2>2. request[h] \in MutationType /\ Mutate(request[h])
    BY <2>1, CommitIsMutation
  <2>3. WellFormed(doc)
    BY DEF StoreInv, WellFormed
  <2>4. WellFormed(doc')
    BY <2>2, <2>3, BodiesWellFormed DEF Mutate
  <2> QED
    BY <2>2, <2>4 DEF WellFormed, Stored, FrozenClaimHolds
<1> QED
  BY <1>1, <1>2, OnlyCommitWrites DEF storeVars

-----------------------------------------------------------------------------
(* A step of one handle leaves the private state of the others alone.      *)
Others(h) ==
  \A g \in Handle \ {h} :
    /\ pc'[g] = pc[g]
    /\ request'[g] = request[g]
    /\ local'[g] = local[g]
    /\ cache'[g] = cache[g]
    /\ result'[g] = result[g]

HandleStep(h) ==
  OpenProject(h) \/ CallProject(h) \/ Step(h) \/ StatementFails(h) \/ Stop(h)

(* Reads and ends of calls stay outside transactions.                      *)
LEMMA ReadStepsOutsideTransactions ==
  ASSUME StoreTypeOK, NEW h \in Handle, ReadStep(h)
  PROVE  /\ writer' = writer
         /\ doc' = doc
         /\ ~InTransaction(h)
         /\ ~InTransaction(h)'
BY DEF StoreTypeOK, ReadStep, LoadMetadata, ValidateFrozenClaim, ReadProjection,
       ValidateMetadataSync, LoadAllResources, ReadRevisionFrozen,
       VerifyEachResource, BusyTimeout, Install, ReturnSuccess, OpenProject,
       CallProject, Start, Continue, Fetch, Return, Goto, FirstStatement,
       AfterProjectionCheck, InTransaction

LEMMA OthersUntouched ==
  ASSUME StoreTypeOK, NEW h \in Handle, HandleStep(h)
  PROVE  Others(h)
<1> USE DEF StoreTypeOK, Others, Goto, Continue, Fetch, Return
<1>1. CASE OpenProject(h) \/ CallProject(h)
  BY <1>1 DEF OpenProject, CallProject, Start
<1>2. CASE LoadMetadata(h) \/ ValidateFrozenClaim(h) \/ ReadProjection(h)
             \/ ValidateMetadataSync(h)
  BY <1>2 DEF LoadMetadata, ValidateFrozenClaim, ReadProjection, ValidateMetadataSync
<1>3. CASE LoadAllResources(h) \/ ReadRevisionFrozen(h) \/ VerifyEachResource(h)
  BY <1>3 DEF LoadAllResources, ReadRevisionFrozen, VerifyEachResource
<1>4. CASE BeginImmediate(h) \/ BusyTimeout(h) \/ ReadTransaction(h)
  BY <1>4 DEF BeginImmediate, BusyTimeout, ReadTransaction
<1>5. CASE Commit(h) \/ RollbackRetry(h) \/ RollbackRefused(h)
  BY <1>5 DEF Commit, RollbackRetry, RollbackRefused
<1>6. CASE Install(h) \/ ReturnSuccess(h) \/ StatementFails(h) \/ Stop(h)
  BY <1>6 DEF Install, ReturnSuccess, StatementFails, Stop
<1> QED
  BY <1>1, <1>2, <1>3, <1>4, <1>5, <1>6 DEF HandleStep, Step

(* The lock and the transaction begin and end together.                    *)
LEMMA LockPreserved ==
  ASSUME StoreTypeOK, LockNotLeaked, NEW h \in Handle, HandleStep(h)
  PROVE  LockNotLeaked'
<1>1. Others(h)
  BY OthersUntouched
<1>2. \A g \in Handle \ {h} : InTransaction(g)' <=> InTransaction(g)
  BY <1>1 DEF Others, InTransaction
<1>3. h # NoHandle
  BY StoreAssumption
<1>4. CASE ReadStep(h)
  BY <1>2, <1>4, ReadStepsOutsideTransactions DEF LockNotLeaked
<1>5. CASE BeginImmediate(h)
  <2>1. writer = NoHandle /\ writer' = h /\ InTransaction(h)'
    BY <1>5 DEF BeginImmediate, Continue, Goto, InTransaction, StoreTypeOK
  <2> QED
    BY <1>2, <2>1, StoreAssumption DEF LockNotLeaked
<1>6. CASE ReadTransaction(h)
  <2>1. writer' = writer /\ InTransaction(h) /\ InTransaction(h)'
    BY <1>6 DEF ReadTransaction, Fetch, Goto, InTransaction, StoreTypeOK
  <2> QED
    BY <1>2, <2>1 DEF LockNotLeaked
<1>7. CASE Commit(h) \/ RollbackRetry(h) \/ RollbackRefused(h)
  <2>1. writer' = NoHandle /\ InTransaction(h) /\ ~InTransaction(h)'
    BY <1>7 DEF Commit, RollbackRetry, RollbackRefused, Return, Fetch, Goto,
      AfterCommit, AfterRetry, InTransaction, StoreTypeOK
  <2> QED
    BY <1>2, <2>1, StoreAssumption DEF LockNotLeaked
<1>8. CASE StatementFails(h) \/ Stop(h)
  <2>1. writer' = Released(h) /\ ~InTransaction(h)'
    BY <1>8 DEF StatementFails, Stop, Return, Goto, InTransaction, StoreTypeOK
  <2> QED
    BY <1>2, <2>1, StoreAssumption DEF LockNotLeaked, Released
<1> QED
  BY <1>4, <1>5, <1>6, <1>7, <1>8 DEF HandleStep, Step, ReadStep

(* Nobody commits while another handle is between its SELECTs and COMMIT.  *)
LEMMA FreshnessPreserved ==
  ASSUME StoreTypeOK, LockNotLeaked, TransactionReadsFresh,
         NEW h \in Handle, HandleStep(h)
  PROVE  TransactionReadsFresh'
<1>1. Others(h)
  BY OthersUntouched
<1>2. CASE ReadStep(h)
  BY <1>1, <1>2, ReadStepsOutsideTransactions
  DEF TransactionReadsFresh, Others, InTransaction
<1>3. CASE ReadTransaction(h)
  <2>1. doc' = doc /\ local'[h].snapshot = doc
    BY <1>3 DEF ReadTransaction, Fetch, StoreTypeOK, Local
  <2> QED
    BY <1>1, <2>1 DEF TransactionReadsFresh, Others
<1>4. CASE Commit(h) \/ RollbackRetry(h) \/ RollbackRefused(h)
  <2>1. InTransaction(h) /\ pc'[h] # "decide"
    BY <1>4 DEF Commit, RollbackRetry, RollbackRefused, Return, Fetch, Goto,
      AfterCommit, AfterRetry, InTransaction, StoreTypeOK
  <2>2. \A g \in Handle \ {h} : pc'[g] # "decide"
    BY <1>1, <2>1 DEF LockNotLeaked, Others, InTransaction
  <2> QED
    BY <2>1, <2>2 DEF TransactionReadsFresh
<1>5. CASE BeginImmediate(h) \/ StatementFails(h) \/ Stop(h)
  <2>1. doc' = doc /\ pc'[h] # "decide"
    BY <1>5 DEF BeginImmediate, StatementFails, Stop, Continue, Return, Goto,
      StoreTypeOK
  <2> QED
    BY <1>1, <2>1 DEF TransactionReadsFresh, Others
<1> QED
  BY <1>2, <1>3, <1>4, <1>5 DEF HandleStep, Step, ReadStep

-----------------------------------------------------------------------------
(* Types.  Records a call may read from a well-typed document.             *)
LEMMA MetadataOfType ==
  ASSUME NEW d \in Document
  PROVE  MetadataOf(d) \in Metadata
BY DEF MetadataOf, Metadata, Document

LEMMA NoLocalType == NoLocal \in Local
BY DocumentAssumption DEF NoLocal, Local

(* What OthersUntouched and the new values of h give for TypeOK.           *)
Typed(h) ==
  /\ pc[h] \in Statement
  /\ request[h] \in CallType \cup {Open}
  /\ local[h] \in Local
  /\ cache[h] \in Metadata \cup {NoMetadata}
  /\ result[h] \in Result
  /\ StatementFitsCall(h)

Functions ==
  /\ pc = [h \in Handle |-> pc[h]]
  /\ request = [h \in Handle |-> request[h]]
  /\ local = [h \in Handle |-> local[h]]
  /\ cache = [h \in Handle |-> cache[h]]
  /\ result = [h \in Handle |-> result[h]]

(* A result is well typed whatever the call was.                           *)
LEMMA ResultType ==
  ASSUME NEW l \in Local, NEW e \in Error
  PROVE  [error |-> e, committed |-> l.committed,
          seen |-> IF e = "none" THEN l.seen ELSE 0] \in Result
BY DocumentAssumption DEF Result, Local

(* After Return(h, e) everything h holds is typed.                         *)
LEMMA ReturnTyped ==
  ASSUME StoreTypeOK, NEW h \in Handle, NEW e \in Error, Return(h, e),
         request' = request, cache'[h] \in Metadata \cup {NoMetadata}
  PROVE  Typed(h)'
<1>1. pc'[h] = "idle" /\ local'[h] = NoLocal /\ request'[h] = request[h]
  BY DEF Return, Goto, StoreTypeOK
<1>2. result'[h] \in Result
  <2>1. local[h] \in Local
    BY DEF StoreTypeOK
  <2> QED
    BY <2>1, ResultType DEF Return, StoreTypeOK
<1> QED
  BY <1>1, <1>2, NoLocalType DEF Typed, StatementFitsCall, Statement, StoreTypeOK

(* A verdict that is no commit and no retry is an error.                   *)
LEMMA VerdictType ==
  ASSUME NEW d, NEW q
  PROVE  Verdict(d, q) \in (Error \ {"none"}) \cup {"commit", "retry"}
<1>1. VerdictOnProjection(d, q.projection) \in {"schema_invalid", "retry", "commit"}
  BY DEF VerdictOnProjection
<1>2. VerdictOnFreeze(d) \in {"invalid_argument", "retry", "commit"}
  BY DEF VerdictOnFreeze
<1>3. VerdictOnResource(d, q) \in {"record_exists", "integrity_failed", "retry", "commit"}
  BY DEF VerdictOnResource
<1> QED
  BY <1>1, <1>2, <1>3 DEF Verdict, Error

(* Which call a statement may belong to.                                   *)
LEMMA StatementsOfCalls ==
  ASSUME NEW q \in CallType \cup {Open}
  PROVE  /\ FirstStatement(q) \in Statement
         /\ AfterProjectionCheck(q) \in Statement
         /\ AfterCommit(q) \in Statement
         /\ FirstStatement(q) = "begin" => q \in MutationType
         /\ AfterProjectionCheck(q) = "begin" => q \in MutationType
         /\ FirstStatement(q) \in {"read_projection", "load_metadata", "begin"}
         /\ FirstStatement(q) = "read_projection" =>
              q.op \in {"update_metadata", "load_project_projection"}
         /\ AfterProjectionCheck(q) = "install" =>
              q.op \notin {"update_metadata", "load_project_projection"}
BY DEF CallType, ReadCall, Open, MutationType, MetadataUpdate, ProjectionChange,
       ExternalResource, EmbeddedResource, Freeze, FirstStatement,
       AfterProjectionCheck, AfterCommit, Statement

-----------------------------------------------------------------------------
(* Reads keep the state of their handle typed.                             *)
LEMMA ReadsTyped ==
  ASSUME StoreTypeOK, DocumentInv, NEW h \in Handle,
         \/ LoadMetadata(h) \/ ReadProjection(h) \/ LoadAllResources(h)
         \/ ReadRevisionFrozen(h) \/ ReadTransaction(h)
  PROVE  Typed(h)'
<1> USE DEF StoreTypeOK, Fetch, Goto
<1>1. local[h] \in Local /\ doc \in Document
  BY DEF DocumentInv, DocumentTypeOK
<1>2. CASE LoadMetadata(h)
  <2>1. MetadataOf(doc) \in Metadata /\ MetadataOf(doc) # NoMetadata
    BY <1>1, MetadataOfType, StoreAssumption
  <2>2. local'[h] = [local[h] EXCEPT !.current = MetadataOf(doc)]
    BY <1>2 DEF LoadMetadata
  <2>3. local'[h] \in Local /\ local'[h].current # NoMetadata
    BY <1>1, <2>1, <2>2 DEF Local
  <2> QED
    BY <1>2, <2>3 DEF LoadMetadata, Typed, StatementFitsCall, Statement
<1>3. CASE ReadProjection(h)
  <2>1. doc.projection.model \in Model
    BY <1>1 DEF Document, Projection
  <2>2. local'[h] = [local[h] EXCEPT !.model = doc.projection.model]
    BY <1>3 DEF ReadProjection
  <2>3. local'[h] \in Local /\ local'[h].current = local[h].current
    BY <1>1, <2>1, <2>2 DEF Local
  <2> QED
    BY <1>3, <2>3 DEF ReadProjection, Typed, StatementFitsCall, Statement
<1>4. CASE LoadAllResources(h)
  <2>1. doc.required \in SUBSET Resource
        /\ Stored(doc) \ doc.embedded \in SUBSET Resource
    BY <1>1 DEF Document, Stored
  <2>2. local'[h] = [local[h] EXCEPT !.required = doc.required,
                                     !.external = Stored(doc) \ doc.embedded]
    BY <1>4 DEF LoadAllResources
  <2>3. local'[h] \in Local
    BY <1>1, <2>1, <2>2 DEF Local
  <2> QED
    BY <1>4, <2>3 DEF LoadAllResources, Typed, StatementFitsCall, Statement
<1>5. CASE ReadRevisionFrozen(h)
  <2>1. local'[h] = [local[h] EXCEPT !.frozen = doc.frozen]
    BY <1>5 DEF ReadRevisionFrozen
  <2>2. local'[h] \in Local
    BY <1>1, <2>1 DEF Local, Document
  <2> QED
    BY <1>5, <2>2 DEF ReadRevisionFrozen, Typed, StatementFitsCall, Statement
<1>6. CASE ReadTransaction(h)
  <2>1. local'[h] = [local[h] EXCEPT !.snapshot = doc]
    BY <1>6 DEF ReadTransaction
  <2>2. local'[h] \in Local /\ local'[h].snapshot = doc
    BY <1>1, <2>1 DEF Local
  <2>3. local'[h].snapshot # NoDocument
    BY <1>1, <2>2, StoreAssumption
  <2> QED
    BY <1>6, <2>2, <2>3 DEF ReadTransaction, Typed, StatementFitsCall, Statement
<1> QED
  BY <1>2, <1>3, <1>4, <1>5, <1>6

(* Branches, starts and ends of calls keep the state of h typed.           *)
LEMMA BranchesTyped ==
  ASSUME StoreTypeOK, NEW h \in Handle,
         \/ ValidateFrozenClaim(h) \/ ValidateMetadataSync(h)
         \/ VerifyEachResource(h) \/ BeginImmediate(h) \/ BusyTimeout(h)
         \/ RollbackRefused(h) \/ Install(h) \/ ReturnSuccess(h)
         \/ StatementFails(h)
  PROVE  Typed(h)'
<1> USE DEF StoreTypeOK
<1>1. CASE ValidateFrozenClaim(h)
  <2>1. CASE Continue(h, "read_projection")
    BY <1>1, <2>1 DEF ValidateFrozenClaim, Continue, Goto, Typed,
      StatementFitsCall, Statement
  <2>2. CASE Return(h, "false_frozen_claim")
    BY <1>1, <2>2, ReturnTyped DEF ValidateFrozenClaim, Error
  <2> QED
    BY <1>1, <2>1, <2>2 DEF ValidateFrozenClaim
<1>2. CASE ValidateMetadataSync(h)
  <2>1. CASE Continue(h, AfterProjectionCheck(request[h]))
    <3>1. request[h] \in CallType \cup {Open} /\ StatementFitsCall(h)
      OBVIOUS
    <3>2. /\ pc'[h] = AfterProjectionCheck(request[h])
          /\ local' = local /\ result' = result
          /\ request' = request /\ cache' = cache
      BY <1>2, <2>1 DEF ValidateMetadataSync, Continue, Goto
    <3>3. AfterProjectionCheck(request[h])
            \in {"begin", "return", "load_all_resources", "install"}
      BY DEF AfterProjectionCheck
    <3>4. pc[h] = "validate_metadata_sync"
      BY <1>2 DEF ValidateMetadataSync
    <3>5. StatementFitsCall(h)'
      BY <3>1, <3>2, <3>3, <3>4, StatementsOfCalls DEF StatementFitsCall
    <3> QED
      BY <3>2, <3>3, <3>5 DEF Typed, Statement
  <2>2. CASE Return(h, "projection_disagrees")
    BY <1>2, <2>2, ReturnTyped DEF ValidateMetadataSync, Error
  <2> QED
    BY <1>2, <2>1, <2>2 DEF ValidateMetadataSync
<1>3. CASE VerifyEachResource(h)
  <2>1. CASE Continue(h, "return")
    BY <1>3, <2>1 DEF VerifyEachResource, Continue, Goto, Typed,
      StatementFitsCall, Statement
  <2>2. CASE Return(h, "integrity_failed") \/ Return(h, "schema_invalid")
    BY <1>3, <2>2, ReturnTyped DEF VerifyEachResource, Error
  <2> QED
    BY <1>3, <2>1, <2>2 DEF VerifyEachResource
<1>4. CASE BeginImmediate(h)
  BY <1>4 DEF BeginImmediate, Continue, Goto, Typed, StatementFitsCall, Statement
<1>5. CASE BusyTimeout(h) \/ StatementFails(h)
  BY <1>5, ReturnTyped DEF BusyTimeout, StatementFails, Error
<1>6. CASE RollbackRefused(h)
  <2>1. Decided(h) \in Error
    BY <1>6, VerdictType DEF RollbackRefused, Decided
  <2> QED
    BY <1>6, <2>1, ReturnTyped DEF RollbackRefused
<1>7. CASE Install(h)
  <2>1. cache'[h] \in Metadata \cup {NoMetadata}
    BY <1>7 DEF Install, Local
  <2> QED
    BY <1>7, <2>1, ReturnTyped DEF Install, Error
<1>8. CASE ReturnSuccess(h)
  BY <1>8, ReturnTyped DEF ReturnSuccess, Error
<1> QED
  BY <1>1, <1>2, <1>3, <1>4, <1>5, <1>6, <1>7, <1>8

(* A call starts with fresh locals: nothing has been read.                 *)
LEMMA StartsTyped ==
  ASSUME StoreTypeOK, NEW h \in Handle, OpenProject(h) \/ CallProject(h)
  PROVE  Typed(h)'
<1>1. PICK q \in CallType \cup {Open} : Start(h, q)
  BY StoreAssumption DEF OpenProject, CallProject
<1>2. /\ pc'[h] = FirstStatement(q) /\ request'[h] = q
      /\ local' = local /\ cache' = cache /\ result' = result
  BY <1>1 DEF Start, Continue, Goto, StoreTypeOK
<1>3. StatementFitsCall(h)'
  BY <1>2, StatementsOfCalls DEF StatementFitsCall
<1> QED
  BY <1>2, <1>3, StatementsOfCalls DEF Typed, StoreTypeOK

(* After a transaction the revision it saw is in range.                    *)
LEMMA TransactionsTyped ==
  ASSUME StoreInv, NEW h \in Handle, Commit(h) \/ RollbackRetry(h)
  PROVE  Typed(h)'
<1> USE DEF StoreInv, StoreTypeOK
<1> DEFINE d == local[h].snapshot
           q == request[h]
<1>1. /\ d = doc /\ d \in Document /\ WellFormed(d)
      /\ q \in MutationType /\ local[h] \in Local
  BY DEF Commit, RollbackRetry, TransactionReadsFresh, DocumentInv,
    DocumentTypeOK, FrozenClaim, ProjectionSynchronized, WellFormed,
    StatementFitsCall
<1>2. CASE Commit(h)
  <2>1. Verdict(d, q) = "commit"
    BY <1>2 DEF Commit, Decided
  <2>2. d.revision + 1 \in 0..MaxRevision
    BY <1>1, <2>1, CommitHasRoom
  <2>3. MetadataOf(Written(d, q)) \in Metadata
    BY <1>1, <2>1, BodiesWellFormed, MetadataOfType DEF WellFormed
  <2>4. /\ Remembered(h, q) \in Metadata \cup {NoMetadata}
        /\ q.op = "update_metadata" => Remembered(h, q) # NoMetadata
    BY <2>3, StoreAssumption DEF Remembered
  <2>5. local'[h] = [local[h] EXCEPT !.current = Remembered(h, q),
          !.snapshot = NoDocument, !.committed = TRUE, !.seen = d.revision + 1]
    BY <1>2 DEF Commit, Fetch
  <2>6. local'[h] \in Local /\ local'[h].current = Remembered(h, q)
    BY <1>1, <2>2, <2>4, <2>5 DEF Local
  <2>7. pc'[h] = AfterCommit(q) /\ request' = request /\ cache' = cache
        /\ result' = result
    BY <1>2 DEF Commit, Fetch, Goto
  <2>8. StatementFitsCall(h)'
    BY <2>4, <2>6, <2>7 DEF StatementFitsCall, AfterCommit
  <2> QED
    BY <2>6, <2>7, <2>8 DEF Typed, Statement, AfterCommit
<1>3. CASE RollbackRetry(h)
  <2>1. local'[h] = [local[h] EXCEPT !.snapshot = NoDocument, !.seen = d.revision]
    BY <1>3 DEF RollbackRetry, Fetch
  <2>2. local'[h] \in Local
    BY <1>1, <2>1 DEF Local, Document
  <2>3. pc'[h] = "load_metadata" /\ request' = request /\ cache' = cache
        /\ result' = result
    BY <1>3 DEF RollbackRetry, Fetch, Goto, AfterRetry
  <2> QED
    BY <2>2, <2>3 DEF Typed, Statement, StatementFitsCall
<1> QED
  BY <1>2, <1>3

LEMMA StopTyped ==
  ASSUME StoreTypeOK, NEW h \in Handle, Stop(h)
  PROVE  Typed(h)'
<1>1. NoResult \in Result
  BY DocumentAssumption DEF NoResult, Result, Error
<1> QED
  BY <1>1, NoLocalType DEF Stop, Goto, Typed, StatementFitsCall, Statement,
    StoreTypeOK

LEMMA TypesPreserved ==
  ASSUME StoreInv, NEW h \in Handle, HandleStep(h)
  PROVE  StoreTypeOK'
<1>1. StoreTypeOK /\ DocumentInv
  BY DEF StoreInv
<1>2. Typed(h)'
  BY <1>1, StartsTyped, ReadsTyped, BranchesTyped, TransactionsTyped, StopTyped
  DEF HandleStep, Step
<1>3. \A g \in Handle \ {h} : Typed(g)'
  BY <1>1, OthersUntouched DEF Others, Typed, StatementFitsCall, StoreTypeOK
<1>4. Functions'
  <2> USE DEF Functions, StoreTypeOK, Goto, Continue, Fetch, Return
  <2>1. CASE OpenProject(h) \/ CallProject(h)
    BY <1>1, <2>1 DEF OpenProject, CallProject, Start
  <2>2. CASE LoadMetadata(h) \/ ReadProjection(h) \/ LoadAllResources(h)
               \/ ReadRevisionFrozen(h) \/ ReadTransaction(h)
    BY <1>1, <2>2 DEF LoadMetadata, ReadProjection, LoadAllResources,
      ReadRevisionFrozen, ReadTransaction
  <2>3. CASE ValidateFrozenClaim(h) \/ ValidateMetadataSync(h)
               \/ VerifyEachResource(h)
    BY <1>1, <2>3 DEF ValidateFrozenClaim, ValidateMetadataSync, VerifyEachResource
  <2>4. CASE BeginImmediate(h) \/ BusyTimeout(h) \/ RollbackRefused(h)
    BY <1>1, <2>4 DEF BeginImmediate, BusyTimeout, RollbackRefused
  <2>5. CASE Commit(h) \/ RollbackRetry(h)
    BY <1>1, <2>5 DEF Commit, RollbackRetry
  <2>6. CASE Install(h) \/ ReturnSuccess(h) \/ StatementFails(h) \/ Stop(h)
    BY <1>1, <2>6 DEF Install, ReturnSuccess, StatementFails, Stop
  <2> QED
    BY <2>1, <2>2, <2>3, <2>4, <2>5, <2>6 DEF HandleStep, Step
<1>5. writer' \in Handle \cup {NoHandle}
  <2>1. CASE ReadStep(h)
    BY <1>1, <2>1, ReadStepsOutsideTransactions DEF StoreTypeOK
  <2>2. CASE ~ReadStep(h)
    BY <1>1, <2>2 DEF StoreTypeOK, HandleStep, Step, ReadStep, BeginImmediate,
      ReadTransaction, Commit, RollbackRetry, RollbackRefused, StatementFails,
      Stop, Released
  <2> QED
    BY <2>1, <2>2
<1> QED
  BY <1>2, <1>3, <1>4, <1>5 DEF StoreTypeOK, Functions, Typed

-----------------------------------------------------------------------------
(* Cached and freshly read metadata stay rows of committed documents: a    *)
(* commit moves the document to a revision no handle has seen.             *)
LEMMA CoherencePreserved ==
  ASSUME StoreInv, NEW h \in Handle, HandleStep(h)
  PROVE  CacheCoherent'
<1> USE DEF StoreInv, StoreTypeOK
<1>1. Others(h)
  BY OthersUntouched
<1>2. \A m \in Metadata \cup {NoMetadata} : Snapshot(m) => Snapshot(m)'
  <2>1. CASE UNCHANGED doc
    BY <2>1 DEF Snapshot, MetadataOf
  <2>2. CASE Commit(h)
    <3>1. WellFormed(doc)
      BY DEF DocumentInv, DocumentTypeOK, FrozenClaim, ProjectionSynchronized,
        WellFormed
    <3>2. doc'.revision = doc.revision + 1
      BY <2>2, <3>1, CommitIsMutation, BodiesMonotone DEF Mutate
    <3>3. doc.revision \in Nat
      BY <3>1, DocumentAssumption DEF WellFormed, Document
    <3>4. \A m \in Metadata : m.revision \in Nat
      BY DocumentAssumption DEF Metadata
    <3> QED
      BY <3>2, <3>3, <3>4 DEF Snapshot
  <2>3. ~Commit(h) => UNCHANGED doc
    BY DEF HandleStep, OpenProject, CallProject, Start, Step, LoadMetadata,
       ValidateFrozenClaim, ReadProjection, ValidateMetadataSync,
       LoadAllResources, ReadRevisionFrozen, VerifyEachResource,
       BeginImmediate, BusyTimeout, ReadTransaction, RollbackRetry,
       RollbackRefused, Install, ReturnSuccess, StatementFails, Stop
  <2> QED
    BY <2>1, <2>2, <2>3
<1>3. \A g \in Handle : /\ cache[g] \in Metadata \cup {NoMetadata}
                         /\ local[g].current \in Metadata \cup {NoMetadata}
  BY DEF Local
<1>4. \A g \in Handle : (Snapshot(cache[g])' /\ Snapshot(local[g].current)')
      \/ cache'[g] # cache[g] \/ local'[g].current # local[g].current
  BY <1>2, <1>3 DEF CacheCoherent, Snapshot
<1>5. \A g \in Handle \ {h} : Snapshot(cache[g])' /\ Snapshot(local[g].current)'
  BY <1>1, <1>4 DEF Others
<1>6. Snapshot(cache[h])' /\ Snapshot(local[h].current)'
  <2> USE DEF Goto, Continue, Fetch, Return, NoLocal
  <2>1. CASE LoadMetadata(h)
    <3>1. local'[h].current = MetadataOf(doc) /\ doc' = doc /\ cache' = cache
      BY <2>1 DEF LoadMetadata, Local
    <3>2. MetadataOf(doc).revision = doc.revision /\ doc.revision \in Nat
      BY DocumentAssumption DEF MetadataOf, DocumentInv, DocumentTypeOK, Document
    <3>3. Snapshot(local[h].current)'
      BY <3>1, <3>2 DEF Snapshot, MetadataOf
    <3> QED
      BY <1>2, <1>3, <3>1, <3>3 DEF CacheCoherent, Snapshot
  <2>2. CASE Commit(h)
    <3>1. /\ local'[h].current = Remembered(h, request[h]) /\ cache' = cache
          /\ doc' = Written(local[h].snapshot, request[h])
      BY <2>2 DEF Commit, Local
    <3>2. Remembered(h, request[h]) \in {NoMetadata, MetadataOf(doc')}
      BY <3>1 DEF Remembered
    <3>3. MetadataOf(doc').revision = doc'.revision /\ doc'.revision \in Nat
      <4>1. doc' \in Document
        BY DocumentPreserved, <2>2 DEF DocumentInv, DocumentTypeOK, StoreNext, Step
      <4> QED
        BY <4>1, DocumentAssumption DEF MetadataOf, Document
    <3>4. Snapshot(local[h].current)'
      BY <3>1, <3>2, <3>3 DEF Snapshot, MetadataOf
    <3> QED
      BY <1>2, <1>3, <3>1, <3>4 DEF CacheCoherent, Snapshot
  <2>3. CASE Install(h)
    <3>1. /\ cache'[h] = local[h].current /\ doc' = doc
          /\ local'[h].current = NoMetadata
      BY <2>3 DEF Install
    <3> QED
      BY <1>2, <1>3, <3>1 DEF CacheCoherent, Snapshot, MetadataOf
  <2>4. CASE OpenProject(h) \/ CallProject(h) \/ BeginImmediate(h)
               \/ ReadProjection(h) \/ LoadAllResources(h)
               \/ ReadRevisionFrozen(h) \/ ReadTransaction(h) \/ RollbackRetry(h)
    <3>1. cache'[h] = cache[h] /\ local'[h].current = local[h].current
      BY <2>4 DEF OpenProject, CallProject, Start, BeginImmediate,
        ReadProjection, LoadAllResources, ReadRevisionFrozen, ReadTransaction,
        RollbackRetry, Local
    <3> QED
      BY <1>4, <3>1
  <2>5. CASE ValidateFrozenClaim(h) \/ ValidateMetadataSync(h)
               \/ VerifyEachResource(h) \/ BusyTimeout(h) \/ RollbackRefused(h)
               \/ ReturnSuccess(h) \/ StatementFails(h) \/ Stop(h)
    <3>1. /\ cache'[h] \in {cache[h], NoMetadata}
          /\ local'[h].current \in {local[h].current, NoMetadata}
      BY <2>5 DEF ValidateFrozenClaim, ValidateMetadataSync, VerifyEachResource,
        BusyTimeout, RollbackRefused, ReturnSuccess, StatementFails, Stop
    <3> QED
      BY <1>2, <1>3, <3>1 DEF CacheCoherent, Snapshot
  <2> QED
    BY <2>1, <2>2, <2>3, <2>4, <2>5 DEF HandleStep, Step
<1> QED
  BY <1>5, <1>6 DEF CacheCoherent

-----------------------------------------------------------------------------
LEMMA StoreInitInv == StoreInit => StoreInv
<1> SUFFICES ASSUME StoreInit PROVE StoreInv
  OBVIOUS
<1>1. DocumentInv
  BY NewDocumentWellFormed
  DEF StoreInit, DocumentInit, DocumentInv, DocumentTypeOK, FrozenClaim,
      ProjectionSynchronized, WellFormed
<1>2. NoResult \in Result
  BY DocumentAssumption DEF NoResult, Result, Error
<1>3. StoreTypeOK
  BY <1>2, NoLocalType DEF StoreInit, StoreTypeOK, Statement, StatementFitsCall
<1>4. LockNotLeaked /\ TransactionReadsFresh
  BY StoreAssumption DEF StoreInit, LockNotLeaked, InTransaction,
    TransactionReadsFresh
<1>5. CacheCoherent
  BY DEF StoreInit, CacheCoherent, Snapshot, NoLocal
<1> QED
  BY <1>1, <1>3, <1>4, <1>5 DEF StoreInv

LEMMA StoreStepInv == StoreInv /\ [StoreNext]_storeVars => StoreInv'
<1> SUFFICES ASSUME StoreInv, [StoreNext]_storeVars PROVE StoreInv'
  OBVIOUS
<1>1. CASE StoreNext
  <2>1. PICK h \in Handle : HandleStep(h)
    BY <1>1 DEF StoreNext, HandleStep
  <2> QED
    BY <1>1, <2>1, TypesPreserved, DocumentPreserved, LockPreserved,
      FreshnessPreserved, CoherencePreserved DEF StoreInv
<1>2. CASE UNCHANGED storeVars
  <2>1. DocumentInv'
    BY DocumentPreserved
  <2>2. StoreTypeOK'
    BY <1>2 DEF StoreInv, StoreTypeOK, StatementFitsCall, storeVars
  <2>3. LockNotLeaked' /\ TransactionReadsFresh' /\ CacheCoherent'
    BY <1>2 DEF StoreInv, LockNotLeaked, InTransaction, TransactionReadsFresh,
      CacheCoherent, Snapshot, MetadataOf, storeVars
  <2> QED
    BY <2>1, <2>2, <2>3 DEF StoreInv
<1> QED
  BY <1>1, <1>2

LEMMA StoreInvariance == StoreSpec => []StoreInv
BY StoreInitInv, StoreStepInv, PTL DEF StoreSpec

(* Every handle, call and local is well typed, and no statement uses       *)
(* metadata or a transaction's reads before they were read.                *)
THEOREM StoreTypes == StoreSpec => []StoreTypeOK
BY StoreInvariance, PTL DEF StoreInv

(* No path through any call returns while it holds the write lock, and no  *)
(* two handles are ever inside a transaction.                              *)
THEOREM LockDiscipline == StoreSpec => []LockNotLeaked
BY StoreInvariance, PTL DEF StoreInv

(* A body decides on the committed document, whatever the other handles do.*)
THEOREM NoStaleTransaction == StoreSpec => []TransactionReadsFresh
BY StoreInvariance, PTL DEF StoreInv

(* A cached record is a committed row, and the current one at its revision.*)
THEOREM CachesAreRows == StoreSpec => []CacheCoherent
BY StoreInvariance, PTL DEF StoreInv

(* Handles in any number of processes, with failing statements and crashes,*)
(* implement one serial document.                                          *)
THEOREM StoreImplementsDocument == StoreSpec => DocumentSpec
<1>1. StoreInit => DocumentInit
  BY DEF StoreInit
<1>2. StoreInv /\ [StoreNext]_storeVars => [DocumentNext]_doc
  <2>1. (\E q \in MutationType : Mutate(q)) => DocumentNext
    BY DEF MutationType, DocumentNext
  <2> QED
    BY <2>1, DocumentPreserved
<1> QED
  BY <1>1, <1>2, StoreInvariance, PTL DEF StoreSpec, DocumentSpec

(* A project that says it is frozen has the bytes of every required        *)
(* resource, through any interleaving of handles.                          *)
COROLLARY FrozenClaimIsKept == StoreSpec => []FrozenClaim
BY StoreImplementsDocument, DocumentSafety, PTL DEF DocumentInv

(* The projection row and its summary in aeris_meta agree, through any     *)
(* interleaving of handles.                                                *)
COROLLARY ProjectionIsKept == StoreSpec => []ProjectionSynchronized
BY StoreImplementsDocument, DocumentSafety, PTL DEF DocumentInv

-----------------------------------------------------------------------------
(* What an answer promises.  A call carries its promise from the end of its*)
(* transaction through the checks of the refresh to its return: the row it *)
(* asked for stays in effect, because rows are monotone, and what it       *)
(* refreshes from is not older than what it committed or found.            *)

ResourceCall == {"store_external_resource", "embed_resource_file"}

Done(d, q) ==
  q.op \in ResourceCall =>
    /\ RowHas(d, q)
    /\ q.op = "embed_resource_file" => q.resource \in d.embedded

(* The statements of a mutation after its transaction.                     *)
Refreshing ==
  {"load_metadata", "validate_frozen_claim", "read_projection",
   "validate_metadata_sync", "install"}

Carried(h) ==
  /\ pc[h] = "idle" => local[h] = NoLocal
  /\ pc[h] \in {"begin", "read_transaction", "decide", "load_metadata"} =>
       local[h].current = NoMetadata
  /\ request[h].op = "update_metadata" =>
       /\ pc[h] \notin {"load_metadata", "validate_frozen_claim"}
       /\ pc[h] \in {"read_projection", "validate_metadata_sync"} =>
            local[h].current = NoMetadata
  /\ pc[h] \in {"load_all_resources", "read_revision_frozen",
                "verify_each_resource", "return"} => request[h] \in ReadCall
  /\ local[h].seen <= doc.revision
  /\ local[h].current # NoMetadata => local[h].seen <= local[h].current.revision
  /\ local[h].committed \/ pc[h] \in Refreshing => Done(doc, request[h])

Answered(h) ==
  pc[h] = "idle" =>
    /\ result[h].error = "none" /\ IsMutation(request[h]) =>
         result[h].seen <= cache[h].revision
    /\ result[h].error = "none" \/ result[h].committed => Done(doc, request[h])

PromiseInv == \A h \in Handle : Carried(h) /\ Answered(h)

(* A verdict says what the document holds before or after the body.        *)
LEMMA VerdictDone ==
  ASSUME NEW d, WellFormed(d), NEW q \in MutationType
  PROVE  /\ Verdict(d, q) = "commit" => Done(Written(d, q), q)
         /\ Verdict(d, q) = "retry" => Done(d, q) /\ q.op # "update_metadata"
<1>1. CASE q.op \in ResourceCall
  <2>1. q \in ExternalResource \cup EmbeddedResource
    BY <1>1 DEF ResourceCall, MutationType, MetadataUpdate, ProjectionChange, Freeze
  <2>2. /\ Verdict(d, q) = "retry" => VerdictOnResource(d, q) = "retry"
    BY <2>1 DEF Verdict, ExternalResource, EmbeddedResource
  <2>3. VerdictOnResource(d, q) = "retry" => Done(d, q)
    BY DEF VerdictOnResource, Done
  <2>4. /\ Written(d, q).identity = [d.identity EXCEPT ![q.resource] = q.identity]
        /\ Written(d, q).required = Promote(d, q)
        /\ q.op = "embed_resource_file" =>
             Written(d, q).embedded = d.embedded \cup {q.resource}
    BY <2>1 DEF ExternalResource, EmbeddedResource, Written, StoreExternalResource,
      EmbedResourceFile, Advance, WellFormed, Document
  <2>5. Done(Written(d, q), q)
    BY <2>1, <2>4 DEF Done, RowHas, Promote, ExternalResource, EmbeddedResource,
      WellFormed, Document
  <2> QED
    BY <1>1, <2>2, <2>3, <2>5 DEF ResourceCall
<1>2. CASE q.op \notin ResourceCall
  BY <1>2 DEF Done, Verdict
<1> QED
  BY <1>1, <1>2

(* What is in effect stays in effect, and revisions never go back.         *)
LEMMA DoneStays ==
  ASSUME StoreInv, [StoreNext]_storeVars
  PROVE  /\ doc.revision \in Nat /\ doc'.revision \in Nat
         /\ doc.revision <= doc'.revision
         /\ \A q \in CallType \cup {Open} : Done(doc, q) => Done(doc', q)
<1>1. WellFormed(doc)
  BY DEF StoreInv, DocumentInv, DocumentTypeOK, FrozenClaim, ProjectionSynchronized,
    WellFormed
<1>2. doc.revision \in Nat
  BY <1>1, DocumentAssumption DEF WellFormed, Document
<1>3. CASE doc' = doc
  BY <1>2, <1>3
<1>4. CASE doc' # doc
  <2>1. PICK m \in MutationType : Mutate(m)
    BY <1>4, DocumentPreserved
  <2>2. /\ doc'.revision = doc.revision + 1
        /\ \A r \in Stored(doc) : doc'.identity[r] = doc.identity[r]
        /\ doc.required \subseteq doc'.required
        /\ doc.embedded \subseteq doc'.embedded
    BY <1>1, <2>1, BodiesMonotone DEF Mutate
  <2>3. ASSUME NEW q \in CallType \cup {Open}, Done(doc, q), q.op \in ResourceCall
        PROVE  Done(doc', q)
    <3>1. q \in ExternalResource \cup EmbeddedResource
      BY <2>3 DEF ResourceCall, CallType, ReadCall, Open, MutationType, MetadataUpdate,
        ProjectionChange, Freeze
    <3>2. q.resource \in Resource /\ q.identity \in Identity
      BY <3>1 DEF ExternalResource, EmbeddedResource
    <3>3. q.resource \in Stored(doc)
      BY <2>3, <3>2, DocumentAssumption DEF Done, RowHas, Stored
    <3> QED
      BY <2>2, <2>3, <3>3 DEF Done, RowHas
  <2> QED
    BY <1>2, <2>2, <2>3 DEF Done
<1> QED
  BY <1>3, <1>4

(* Opening a project promises nothing.                                     *)
LEMMA OpenPromisesNothing ==
  /\ ~IsMutation(Open) /\ Open.op \notin {"update_metadata"} \cup ResourceCall
  /\ \A d : Done(d, Open)
BY DEF Open, IsMutation, MutationType, MetadataUpdate, ProjectionChange,
       ExternalResource, EmbeddedResource, Freeze, Done, ResourceCall

(* The other handles keep their promises.                                  *)
LEMMA OthersPromise ==
  ASSUME StoreInv, PromiseInv, NEW h \in Handle, HandleStep(h), NEW g \in Handle \ {h}
  PROVE  Carried(g)' /\ Answered(g)'
<1>1. /\ pc'[g] = pc[g] /\ request'[g] = request[g] /\ local'[g] = local[g]
      /\ cache'[g] = cache[g] /\ result'[g] = result[g]
  BY OthersUntouched DEF StoreInv, Others
<1>2. request[g] \in CallType \cup {Open} /\ local[g].seen \in Nat
  BY DocumentAssumption DEF StoreInv, StoreTypeOK, Local
<1>3. /\ doc.revision \in Nat /\ doc'.revision \in Nat /\ doc.revision <= doc'.revision
      /\ Done(doc, request[g]) => Done(doc', request[g])
  <2>1. StoreNext
    BY DEF HandleStep, StoreNext
  <2> QED
    BY <1>2, <2>1, DoneStays
<1>4. Carried(g) /\ Answered(g)
  BY DEF PromiseInv
<1>5. Carried(g)'
  BY <1>1, <1>2, <1>3, <1>4 DEF Carried
<1>6. Answered(g)'
  BY <1>1, <1>3, <1>4 DEF Answered
<1> QED
  BY <1>5, <1>6

(* A call that returns leaves nothing behind but its answer.               *)
LEMMA ReturnPromise ==
  ASSUME StoreInv, PromiseInv, NEW h \in Handle, NEW e \in Error, Return(h, e),
         doc' = doc, request' = request,
         e = "none" =>
           /\ Done(doc, request[h])
           /\ IsMutation(request[h]) => local[h].seen <= cache'[h].revision
  PROVE  Carried(h)' /\ Answered(h)'
<1>1. /\ pc'[h] = "idle" /\ local'[h] = NoLocal /\ request'[h] = request[h]
      /\ result'[h] = [error |-> e, committed |-> local[h].committed,
                       seen |-> IF e = "none" THEN local[h].seen ELSE 0]
  BY DEF Return, Goto, StoreInv, StoreTypeOK
<1>2. doc.revision \in Nat
  BY DocumentAssumption DEF StoreInv, DocumentInv, DocumentTypeOK, Document
<1>3. local[h].committed => Done(doc, request[h])
  BY DEF PromiseInv, Carried
<1>4. Carried(h)'
  BY <1>1, <1>2 DEF Carried, NoLocal, Refreshing
<1>5. Answered(h)'
  BY <1>1, <1>3 DEF Answered
<1> QED
  BY <1>4, <1>5

LEMMA StepPromise ==
  ASSUME StoreInv, PromiseInv, NEW h \in Handle, HandleStep(h)
  PROVE  Carried(h)' /\ Answered(h)'
<1> DEFINE q == request[h]
<1>1. /\ StoreTypeOK /\ Carried(h) /\ Answered(h)
      /\ q \in CallType \cup {Open} /\ local[h] \in Local
      /\ doc \in Document /\ WellFormed(doc)
      /\ doc.revision \in Nat /\ local[h].seen \in Nat
  BY DocumentAssumption DEF StoreInv, StoreTypeOK, PromiseInv, DocumentInv,
    DocumentTypeOK, FrozenClaim, ProjectionSynchronized, WellFormed, Document, Local
<1>2. ASSUME pc'[h] # "idle"
      PROVE  Answered(h)'
  BY <1>2 DEF Answered
<1>3. CASE OpenProject(h) \/ CallProject(h)
  <2>1. PICK call \in CallType \cup {Open} : Start(h, call)
    BY <1>3, StoreAssumption DEF OpenProject, CallProject
  <2>2. /\ pc[h] = "idle" /\ pc'[h] = FirstStatement(call) /\ request'[h] = call
        /\ local' = local /\ doc' = doc
    BY <1>1, <2>1 DEF Start, Continue, Goto, StoreTypeOK
  <2>3. local[h] = NoLocal
    BY <1>1, <2>2 DEF Carried
  <2>4. /\ FirstStatement(call) \in {"read_projection", "load_metadata", "begin"}
        /\ FirstStatement(call) # "begin" => call.op \notin ResourceCall
        /\ FirstStatement(call) = "load_metadata" => call.op # "update_metadata"
    BY StatementsOfCalls DEF FirstStatement, ResourceCall
  <2> QED
    BY <1>1, <1>2, <2>2, <2>3, <2>4 DEF Carried, NoLocal, Refreshing, Done
<1>4. CASE LoadMetadata(h)
  <2>1. /\ pc[h] = "load_metadata" /\ pc'[h] = "validate_frozen_claim"
        /\ local'[h] = [local[h] EXCEPT !.current = MetadataOf(doc)]
        /\ request'[h] = q /\ doc' = doc
    BY <1>1, <1>4 DEF LoadMetadata, Fetch, Goto, StoreTypeOK
  <2>2. /\ local'[h].current.revision = doc.revision
        /\ local'[h].seen = local[h].seen /\ local'[h].committed = local[h].committed
    BY <1>1, <2>1 DEF Local, MetadataOf
  <2> QED
    BY <1>1, <1>2, <2>1, <2>2 DEF Carried, Refreshing
<1>5. CASE ReadProjection(h)
  <2>1. /\ pc[h] = "read_projection" /\ pc'[h] = "validate_metadata_sync"
        /\ local'[h] = [local[h] EXCEPT !.model = doc.projection.model]
        /\ request'[h] = q /\ doc' = doc
    BY <1>1, <1>5 DEF ReadProjection, Fetch, Goto, StoreTypeOK
  <2>2. /\ local'[h].current = local[h].current
        /\ local'[h].seen = local[h].seen /\ local'[h].committed = local[h].committed
    BY <1>1, <2>1 DEF Local
  <2> QED
    BY <1>1, <1>2, <2>1, <2>2 DEF Carried, Refreshing
<1>6. CASE LoadAllResources(h) \/ ReadRevisionFrozen(h)
  <2>1. /\ pc[h] \in {"load_all_resources", "read_revision_frozen"}
        /\ pc'[h] \in {"read_revision_frozen", "verify_each_resource"}
        /\ request'[h] = q /\ doc' = doc
    BY <1>1, <1>6 DEF LoadAllResources, ReadRevisionFrozen, Fetch, Goto, StoreTypeOK
  <2>2. /\ local'[h].current = local[h].current
        /\ local'[h].seen = local[h].seen /\ local'[h].committed = local[h].committed
    BY <1>1, <1>6 DEF LoadAllResources, ReadRevisionFrozen, Fetch, StoreTypeOK, Local
  <2>3. q \in ReadCall
    BY <1>1, <2>1 DEF Carried
  <2> QED
    BY <1>1, <1>2, <2>1, <2>2, <2>3 DEF Carried, Refreshing, ReadCall
<1>7. CASE ValidateFrozenClaim(h)
  <2>1. CASE Continue(h, "read_projection")
    <3>1. /\ pc[h] = "validate_frozen_claim" /\ pc'[h] = "read_projection"
          /\ local' = local /\ request' = request /\ doc' = doc
      BY <1>1, <1>7, <2>1 DEF ValidateFrozenClaim, Continue, Goto, StoreTypeOK
    <3> QED
      BY <1>1, <1>2, <3>1 DEF Carried, Refreshing
  <2>2. CASE Return(h, "false_frozen_claim")
    BY <1>7, <2>2, ReturnPromise DEF ValidateFrozenClaim, Error
  <2> QED
    BY <1>7, <2>1, <2>2 DEF ValidateFrozenClaim
<1>8. CASE ValidateMetadataSync(h)
  <2>1. CASE Continue(h, AfterProjectionCheck(q))
    <3>1. /\ pc[h] = "validate_metadata_sync" /\ pc'[h] = AfterProjectionCheck(q)
          /\ local' = local /\ request' = request /\ doc' = doc
      BY <1>1, <1>8, <2>1 DEF ValidateMetadataSync, Continue, Goto, StoreTypeOK
    <3>2. /\ AfterProjectionCheck(q) \in {"begin", "return", "load_all_resources", "install"}
          /\ AfterProjectionCheck(q) = "begin" => q.op = "update_metadata"
          /\ AfterProjectionCheck(q) \in {"return", "load_all_resources"} => q \in ReadCall
      BY <1>1 DEF AfterProjectionCheck, CallType, ReadCall, Open, MutationType,
        MetadataUpdate, ProjectionChange, ExternalResource, EmbeddedResource, Freeze
    <3> QED
      BY <1>1, <1>2, <3>1, <3>2 DEF Carried, Refreshing
  <2>2. CASE Return(h, "projection_disagrees")
    BY <1>8, <2>2, ReturnPromise DEF ValidateMetadataSync, Error
  <2> QED
    BY <1>8, <2>1, <2>2 DEF ValidateMetadataSync
<1>9. CASE VerifyEachResource(h)
  <2>1. CASE Continue(h, "return")
    <3>1. /\ pc[h] = "verify_each_resource" /\ pc'[h] = "return"
          /\ local' = local /\ request' = request /\ doc' = doc
      BY <1>1, <1>9, <2>1 DEF VerifyEachResource, Continue, Goto, StoreTypeOK
    <3> QED
      BY <1>1, <1>2, <3>1 DEF Carried, Refreshing
  <2>2. CASE Return(h, "integrity_failed") \/ Return(h, "schema_invalid")
    BY <1>9, <2>2, ReturnPromise DEF VerifyEachResource, Error
  <2> QED
    BY <1>9, <2>1, <2>2 DEF VerifyEachResource
<1>10. CASE BeginImmediate(h)
  <2>1. /\ pc[h] = "begin" /\ pc'[h] = "read_transaction"
        /\ local' = local /\ request' = request /\ doc' = doc
    BY <1>1, <1>10 DEF BeginImmediate, Continue, Goto, StoreTypeOK
  <2> QED
    BY <1>1, <1>2, <2>1 DEF Carried, Refreshing
<1>11. CASE ReadTransaction(h)
  <2>1. /\ pc[h] = "read_transaction" /\ pc'[h] = "decide"
        /\ local'[h] = [local[h] EXCEPT !.snapshot = doc]
        /\ request' = request /\ doc' = doc
    BY <1>1, <1>11 DEF ReadTransaction, Fetch, Goto, StoreTypeOK
  <2>2. /\ local'[h].current = local[h].current
        /\ local'[h].seen = local[h].seen /\ local'[h].committed = local[h].committed
    BY <1>1, <2>1 DEF Local
  <2> QED
    BY <1>1, <1>2, <2>1, <2>2 DEF Carried, Refreshing
<1>12. CASE Commit(h)
  <2>1. /\ pc[h] = "decide" /\ local[h].snapshot = doc /\ q \in MutationType
        /\ Verdict(doc, q) = "commit" /\ doc' = Written(doc, q)
        /\ local'[h] = [local[h] EXCEPT !.current = Remembered(h, q),
              !.snapshot = NoDocument, !.committed = TRUE, !.seen = doc.revision + 1]
        /\ pc'[h] = AfterCommit(q) /\ request' = request
    BY <1>1, <1>12 DEF Commit, Decided, Fetch, Goto, StoreInv, TransactionReadsFresh,
      StoreTypeOK, StatementFitsCall
  <2>2. Done(doc', q) /\ doc'.revision = doc.revision + 1
    BY <1>1, <2>1, VerdictDone, BodiesMonotone
  <2>3. /\ local'[h].current = Remembered(h, q) /\ local'[h].committed = TRUE
        /\ local'[h].seen = doc.revision + 1
    BY <1>1, <2>1 DEF Local
  <2>4. CASE q.op = "update_metadata"
    <3>1. local'[h].current.revision = doc'.revision
      BY <2>1, <2>3, <2>4 DEF Remembered, MetadataOf
    <3> QED
      BY <1>1, <1>2, <2>1, <2>2, <2>3, <2>4, <3>1 DEF Carried, AfterCommit, Refreshing
  <2>5. CASE q.op # "update_metadata"
    BY <1>1, <1>2, <2>1, <2>2, <2>3, <2>5 DEF Carried, AfterCommit, Refreshing, Remembered
  <2> QED
    BY <2>4, <2>5
<1>13. CASE RollbackRetry(h)
  <2>1. /\ pc[h] = "decide" /\ local[h].snapshot = doc /\ q \in MutationType
        /\ Verdict(doc, q) = "retry" /\ doc' = doc
        /\ local'[h] = [local[h] EXCEPT !.snapshot = NoDocument, !.seen = doc.revision]
        /\ pc'[h] = "load_metadata" /\ request' = request
    BY <1>1, <1>13 DEF RollbackRetry, Decided, Fetch, Goto, AfterRetry, StoreInv,
      TransactionReadsFresh, StoreTypeOK, StatementFitsCall
  <2>2. Done(doc, q) /\ q.op # "update_metadata"
    BY <1>1, <2>1, VerdictDone
  <2>3. /\ local'[h].current = local[h].current /\ local'[h].seen = doc.revision
    BY <1>1, <2>1 DEF Local
  <2> QED
    BY <1>1, <1>2, <2>1, <2>2, <2>3 DEF Carried, Refreshing
<1>14. CASE RollbackRefused(h)
  <2>1. Decided(h) \in Error \ {"none"}
    BY <1>14, VerdictType DEF RollbackRefused, Decided, Error
  <2> QED
    BY <1>14, <2>1, ReturnPromise DEF RollbackRefused
<1>15. CASE BusyTimeout(h) \/ StatementFails(h)
  BY <1>15, ReturnPromise DEF BusyTimeout, StatementFails, Error
<1>16. CASE Install(h)
  <2>1. /\ pc[h] = "install" /\ cache'[h] = local[h].current
        /\ Return(h, "none") /\ doc' = doc /\ request' = request
    BY <1>1, <1>16 DEF Install, StoreTypeOK
  <2>2. local[h].current # NoMetadata
    BY <1>1, <2>1 DEF StoreTypeOK, StatementFitsCall
  <2> QED
    BY <1>1, <2>1, <2>2, ReturnPromise DEF Carried, Refreshing, Error
<1>17. CASE ReturnSuccess(h)
  <2>1. /\ pc[h] = "return" /\ Return(h, "none") /\ doc' = doc /\ request' = request
    BY <1>17 DEF ReturnSuccess
  <2>2. q \in ReadCall
    BY <1>1, <2>1 DEF Carried
  <2>3. Done(doc, q) /\ ~IsMutation(q)
    BY <2>2 DEF ReadCall, Done, ResourceCall, IsMutation, MutationType, MetadataUpdate,
      ProjectionChange, ExternalResource, EmbeddedResource, Freeze
  <2> QED
    BY <2>1, <2>3, ReturnPromise DEF Error
<1>18. CASE Stop(h)
  <2>1. /\ pc'[h] = "idle" /\ local'[h] = NoLocal /\ request'[h] = Open
        /\ result'[h] = NoResult /\ doc' = doc
    BY <1>1, <1>18 DEF Stop, Goto, StoreTypeOK
  <2> QED
    BY <1>1, <2>1, OpenPromisesNothing DEF Carried, Answered, NoLocal, Refreshing
<1> QED
  BY <1>3, <1>4, <1>5, <1>6, <1>7, <1>8, <1>9, <1>10, <1>11, <1>12, <1>13, <1>14,
    <1>15, <1>16, <1>17, <1>18 DEF HandleStep, Step

LEMMA PromisesKept == StoreSpec => []PromiseInv
<1>1. StoreInit => PromiseInv
  <2> SUFFICES ASSUME StoreInit, NEW h \in Handle PROVE Carried(h) /\ Answered(h)
    BY DEF PromiseInv
  <2>1. doc.revision = 0
    BY DEF StoreInit, DocumentInit, NewDocument
  <2> QED
    BY <2>1, OpenPromisesNothing DEF StoreInit, Carried, Answered, NoLocal, Refreshing
<1>2. StoreInv /\ PromiseInv /\ [StoreNext]_storeVars => PromiseInv'
  <2> SUFFICES ASSUME StoreInv, PromiseInv, [StoreNext]_storeVars PROVE PromiseInv'
    OBVIOUS
  <2>1. CASE StoreNext
    <3>1. PICK h \in Handle : HandleStep(h)
      BY <2>1 DEF StoreNext, HandleStep
    <3> QED
      BY <3>1, OthersPromise, StepPromise DEF PromiseInv
  <2>2. CASE UNCHANGED storeVars
    BY <2>2 DEF storeVars, PromiseInv, Carried, Answered
  <2> QED
    BY <2>1, <2>2
<1> QED
  BY <1>1, <1>2, StoreInvariance, PTL DEF StoreSpec

(* refresh_metadata after a commit and after an exact retry: a successful  *)
(* mutation leaves the handle at no older a revision than it wrote or      *)
(* found, for any number of handles and failing statements.                *)
THEOREM HandlesReadTheirWrites == StoreSpec => []ReadYourWrites
<1>1. PromiseInv => ReadYourWrites
  BY DEF PromiseInv, Answered, ReadYourWrites, Idle
<1> QED
  BY <1>1, PromisesKept, PTL

(* durably_committed and success: a resource mutation that was acknowledged*)
(* stays in effect whatever any other handle commits.                      *)
THEOREM AcknowledgedStays == StoreSpec => []AcknowledgedInEffect
<1>1. PromiseInv => AcknowledgedInEffect
  BY DEF PromiseInv, Answered, AcknowledgedInEffect, Idle, Done, ResourceCall
<1> QED
  BY <1>1, PromisesKept, PTL

=============================================================================
