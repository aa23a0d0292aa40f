------------------------------- MODULE Catalog -------------------------------
(***************************************************************************)
(* What the source stores promise: a catalog of sources, each described by *)
(* up to three parts.  A part is written once and never replaced, no part  *)
(* is visible without the part it describes, and every addition is one     *)
(* revision, however many handles, retries, failures and crashes it took   *)
(* (src/include/aeris/storage/dataset.hpp, geometry.hpp, provenance.hpp    *)
(* and feature_property.hpp).  SourceDataset implements it.                *)
(***************************************************************************)
EXTENDS Naturals

CONSTANTS
  Source,       (* source IDs.                                             *)
  Missing       (* a part that is not stored.                              *)

VARIABLES
  catalog,      (* the parts of each source.                               *)
  revision      (* how often the catalog changed.                          *)

Parts == {"provenance", "geometry", "properties"}

(* A geometry is of a known source; complete properties cover exactly the  *)
(* features of a geometry.                                                 *)
Described(row) ==
  /\ row["geometry"] # Missing => row["provenance"] # Missing
  /\ row["properties"] # Missing =>
       /\ row["geometry"] # Missing
       /\ DOMAIN row["properties"] = DOMAIN row["geometry"]

Extended(row, old) ==
  /\ row # old
  /\ \A part \in Parts : old[part] # Missing => row[part] = old[part]

Add(s) ==
  LET row == catalog'[s]
  IN /\ Extended(row, catalog[s])
     /\ Described(row)
     /\ catalog' = [catalog EXCEPT ![s] = row]
     /\ revision' = revision + 1

Init ==
  /\ catalog = [s \in Source |-> [part \in Parts |-> Missing]]
  /\ revision = 0

Next == \E s \in Source : Add(s)
Spec == Init /\ [][Next]_<<catalog, revision>>

=============================================================================
