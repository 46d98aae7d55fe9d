------------------------------- MODULE MCStores --------------------------------
(***************************************************************************)
(* Stores, for TLC: four artifacts that differ in what the filters look    *)
(* at, the clients that call the store, and what is avoided.               *)
(***************************************************************************)
EXTENDS Stores

L(ns, parts) == <<ns, parts>>

\* project:a, project:a/b and another: two kinds under one prefix, two statuses.
MCDrafts ==
    << Artifact(<<L("kind", <<"effort", "task">>), L("project", <<"a">>), L("status", <<"open">>)>>, "text"),
       Artifact(<<L("kind", <<"effort", "goal">>), L("project", <<"a", "b">>), L("status", <<"closed">>),
                  L("tag", <<"x">>)>>, NoText) >>

\* A definition of the schema, and an artifact that belongs to two projects.
MCOddDrafts ==
    << Artifact(<<L("kind", <<"effort", "task">>), L("project", <<"a">>), L("project", <<"b">>)>>, "text"),
       Artifact(<<L("kind", <<"label">>), L("project", SchemaScope)>>, NoText) >>

MCFilters ==
    {NoFilter,
     [NoFilter EXCEPT !.ids = {1, 3}],
     [NoFilter EXCEPT !.kind = <<"effort">>],
     [NoFilter EXCEPT !.scopesOr = {<<"a">>, <<"c">>}],
     [NoFilter EXCEPT !.labels = {L("project", <<"a">>), L("status", <<"open">>)}],
     [NoFilter EXCEPT !.labelsOr = {L("status", <<"open">>), L("tag", <<"x">>)}],
     [NoFilter EXCEPT !.exclude = {L("status", <<"closed">>), L("tag", <<"y">>)},
                      !.kind = <<"effort">>]}

\* What memory does not look at: a bound on a time, a scope with those below it.
MCDateFilters == {[NoFilter EXCEPT !.from = ("updated" :> 3)]}

MCScopeFilters == {[NoFilter EXCEPT !.scopePrefix = TRUE, !.labels = {L("project", <<"a">>)}]}

MCScopeLabels == {<<>>, <<<<"x">>>>, <<<<"x">>, <<"y">>>>}

MCCommaLabels == {<<<<"x", "y">>>>}

MCVecTable == ("model-a" :> "vec_model_a") @@ ("other" :> "vec_other")

MCOneVecTable == ("model-a" :> "vec_model_a") @@ ("model_a" :> "vec_model_a")

MCProfiles ==
    (  {"put", "edit", "delete", "rename", "alias"} :> 3
    @@ {"bulk", "version", "patch", "delete", "prune"} :> 4
    @@ {"edge", "source", "rename", "delete"} :> 3
    @@ {"bulkedge", "source"} :> 2
    @@ {"satellite", "delete", "rename"} :> 4
    @@ {"embed", "rename"} :> 3
    @@ {"put", "bulk", "edit", "delete", "page"} :> 3
    @@ {"edit", "delete", "edge", "capsule"} :> 2
    @@ {"event", "poll"} :> 3)

\* Where the two are known to answer differently.
MCAvoided ==
    {"put over", "shared sections", "empty patch", "rename over", "rename labels",
     "rename edges", "rename alias", "alias again", "edge over", "edge without sources",
     "import times", "error kinds", "total", "text order", "late stamps",
     "walk both", "kind graph", "unset scope", "section keys"}

===============================================================================
