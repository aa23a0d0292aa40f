---------------------------- MODULE MCSourceImport ----------------------------
(* Two handles; one source stored part by part, and one source into which  *)
(* snapshots of land, countries and ice shelves may be imported.           *)
EXTENDS SourceImport, TLC

CONSTANTS low, imported, h1, h2

Land == "land"
Countries == "admin0"
Cartography == "cartography"
Shelves == "shelves"

Files(shp, version) == [shp |-> shp, version |-> version, prj |-> "wgs84"]
LandFiles == Files(<<"A", NullShape>>, "v1")
(* No record but null shapes.                                              *)
EmptyFiles == Files(<<NullShape>>, "v1")
Country(adm0, ne_id, value, colored) ==
  [deleted |-> FALSE, adm0 |-> adm0, ne_id |-> ne_id, value |-> value, colored |-> colored]
TwoCountries(color) == <<Country("AAA", 7, "x", "x4"), Country("BBB", 8, "y", color)>>
CountryFiles(shp, dbf) ==
  [shp |-> shp, version |-> "v1", prj |-> "wgs84", cpg |-> "UTF-8", dbf |-> dbf]

Aligned == CountryFiles(<<"A", "B">>, TwoCountries("y4"))
Swapped == CountryFiles(<<"B", "A">>, TwoCountries(Malformed))
(* As many records as rows, of which the first is not the first.           *)
Shifted == CountryFiles(<<NullShape, "A">>, <<TwoCountries("y4")[1]>>)

Acquired(dataset, origin, resources) ==
  [dataset |-> dataset, snapshot |-> "s1", origin |-> origin, resources |-> resources]
Manifests ==
  {Acquired(Land, "today", LandFiles), Acquired(Land, "later", LandFiles),
   Acquired(Countries, "today", Aligned), Acquired(Countries, "today", Swapped),
   Acquired(Countries, "today", Shifted), Acquired(Shelves, "today", LandFiles),
   Acquired(Shelves, "later", EmptyFiles)}
(* Reports on the bytes of the land snapshot that were never acquired.     *)
Claims ==
  Manifests \cup {Acquired(Land, "elsewhere", LandFiles),
                 Acquired(Countries, "today", LandFiles)}
Roots == {LandFiles, EmptyFiles, Aligned, Shifted, Swapped}

Bound(adapter, capability, expected) ==
  [adapter |-> adapter, capability |-> capability, snapshot |-> "s1",
   worldview |-> "", expected |-> expected]
Bindings ==
  {Bound(Land, Land, NoPin), Bound(Countries, Countries, NoPin),
   Bound(Countries, Countries, Aligned), Bound(External, Land, NoPin),
   Bound(Cartography, Countries, NoPin), Bound(Shelves, "surface", NoPin),
   Bound(Land, Countries, NoPin), Bound("unknown", Land, NoPin)}

FeatureIds == {<<"s1", 1>>, <<"s1", 2>>, <<"ne_id", 7>>, <<"ne_id", 8>>}
Shapes == [source_id : {1, 2}, rings : {"A", "B"}]
Contents == {manifest.resources : manifest \in Manifests}
Provenances ==
  [adapter : {Land, Countries, Cartography, Shelves, External},
   capability : {Land, Countries, "surface"}, dataset : {Land, Countries, Shelves},
   snapshot : {"s1"}, origin : {"today", "later", "elsewhere"}, content : Contents]

(* The source stored part by part.                                         *)
CountriesOf(origin, files) ==
  [adapter |-> Countries, capability |-> Countries, dataset |-> Countries,
   snapshot |-> "s1", origin |-> origin, content |-> files]
Shape1 == [source_id |-> 1, rings |-> "A"]
Geometry1 == [f \in {<<"ne_id", 7>>, <<"ne_id", 8>>} |-> Shape1]
Values1 == [f \in {<<"ne_id", 7>>, <<"ne_id", 8>>} |-> "x"]
Values2 == [Values1 EXCEPT ![<<"ne_id", 7>>] = "y"]
Of(provenance, geometry, properties) ==
  [provenance |-> provenance, geometry |-> geometry, properties |-> properties]

CallOf(op, s, row) == [op |-> op, source |-> s, row |-> row]
Calls ==
  {CallOf("store_source_snapshot", low, Of(CountriesOf("today", Aligned), Missing, Missing)),
   CallOf("store_source_snapshot", imported, Of(CountriesOf("today", Swapped), Missing, Missing)),
   CallOf("store_source_geometry", low, Of(Missing, Geometry1, Missing)),
   CallOf("store_source_feature_properties", low, Of(Missing, Missing, Values1)),
   CallOf("store_source_feature_properties", low, Of(Missing, Missing, Values2)),
   CallOf("store_source_dataset", low, Of(CountriesOf("today", Aligned), Geometry1, Missing)),
   CallOf("store_source_dataset", low, Of(CountriesOf("today", Aligned), Geometry1, Values2)),
   CallOf("store_source_dataset", low, Of(CountriesOf("today", Aligned), Geometry1, <<>>)),
   CallOf("load_durable_source_result", low, Nothing),
   CallOf("load_durable_source_result", imported, Nothing),
   CallOf("verify_integrity", low, Nothing)}

(* Sources do not interact: every behaviour uses one of the two.           *)
InPlay == {s \in Source : stored[s] # Nothing}
  \cup {client[h].call.source : h \in {g \in Handle : client[g].call # NoCall}}
OneSourceInPlay == Cardinality(InPlay) <= 1

Symmetry == Permutations({h1, h2})

=============================================================================
