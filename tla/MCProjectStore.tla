---------------------------- MODULE MCProjectStore ----------------------------
(* Two handles; each run makes the calls one question needs.               *)
EXTENDS ProjectStore, TLC

CONSTANTS h1, h2, r1, i1, i2, w1, w2, Sinusoidal

Project(model) ==
  [op |-> "set_project_projection",
   projection |-> [model |-> model, meridian |-> Zero]]
UpdateTo(w) == [op |-> "update_metadata", worldview |-> w]
External(i, require) ==
  [op |-> "store_external_resource", resource |-> r1, identity |-> i,
   required |-> require]
Embed(i, require, input) ==
  [op |-> "embed_resource_file", resource |-> r1, identity |-> i,
   required |-> require, input |-> input]
FreezeCall == [op |-> "freeze_project"]
Audit == [op |-> "verify_integrity"]

(* One handle adds external resources, the other embeds one under the same *)
(* ID with another content and freezes the project.                        *)
StoreCalls ==
  (h1 :> {External(i2, TRUE), UpdateTo(w2)})
    @@ (h2 :> {Audit, Embed(i1, FALSE, i1), FreezeCall})

(* The two mutations of tests/provenance_race.cpp, each on a handle of its *)
(* own that has been opened before either starts.                          *)
RaceCalls == (h1 :> {Project(Sinusoidal)}) @@ (h2 :> {UpdateTo(w2)})

RaceInit ==
  /\ DocumentInit
  /\ writer = NoHandle
  /\ pc = [h \in Handle |-> "idle"]
  /\ request = [h \in Handle |-> Open]
  /\ local = [h \in Handle |-> NoLocal]
  /\ cache = [h \in Handle |-> MetadataOf(doc)]
  /\ result = [h \in Handle |-> NoResult]

RaceSpec == RaceInit /\ [][StoreNext]_storeVars

=============================================================================
