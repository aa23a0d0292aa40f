---------------------------- MODULE MCSessionStore ----------------------------
(* A project at the path, and the one that was there before it.            *)
EXTENDS SessionStore

CONSTANTS Mine, Other, Globe, Mollweide, BadZoom

Projects == {Mine, Other}

(* Two handles on one project, a third of the project that was there first.*)
Handles == {"h1", "h2", "h3"}
Owners == [h1 |-> Mine, h2 |-> Mine, h3 |-> Other]

Views == {Globe, Mollweide, BadZoom}
Writes == {<<Globe, "t1">>, <<Mollweide, "t2">>, <<BadZoom, "t1">>}

(* No file; an old sidecar of the project; one of the other project; files *)
(* that are damaged, of another kind, or with malformed rows.              *)
Old == [NewSidecar(Mine) EXCEPT !.revision = 1, !.view = Globe,
                                !.modified_utc = "t1", !.durable = FALSE]
Files ==
  {NoSidecar, Old, [Old EXCEPT !.project_uuid = Other],
   [Old EXCEPT !.kind = "damaged"], [Old EXCEPT !.kind = "foreign"],
   [Old EXCEPT !.kind = "malformed"]}

=============================================================================
