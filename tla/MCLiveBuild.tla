----------------------------- MODULE MCLiveBuild -----------------------------
(* LiveBuild for TLC: a repository with layers of every kind.                 *)
EXTENDS LiveBuild
CONSTANTS c1, c2

Ref(up, down) == [up |-> up, down |-> down]
Refers(resources) == [resources |-> resources, transformers |-> {}]

\* An application, transformers, a layer with a resource group, one with a Live
\* of its own, one with this very Live, one that refers to a directory named like
\* the overlay's, one that has a transformer there, and one below its transformers.
Files(tag) ==
  (<<"kustomization.yaml">> :> Refers({Ref(0, <<"app">>)}))
  @@ (<<"app", "kustomization.yaml">> :> Refers({Ref(0, <<"pod.yaml">>), Ref(0, <<"note.yaml">>)}))
  @@ (<<"app", "pod.yaml">> :> {Object("Pod", "pod", tag)})
  @@ (<<"app", "note.yaml">> :> {[Object("Note", "note", tag) EXCEPT !.local = TRUE]})
  @@ (<<"transformers", "kustomization.yaml">> :> Refers({Ref(0, <<"replace.yaml">>)}))
  @@ (<<"transformers", "replace.yaml">> :> {Object("Transformer", "replace", None)})
  @@ (<<"group", "kustomization.yaml">> :> Refers({Ref(1, <<"app">>), Ref(0, <<"group.yaml">>)}))
  @@ (<<"group", "group.yaml">> :> {Object("ResourceGroup", "group", None)})
  @@ (<<"own", "kustomization.yaml">> :> Refers({Ref(1, <<"app">>), Ref(0, <<"live.yaml">>)}))
  @@ (<<"own", "live.yaml">> :> {Object("Live", "other", tag)})
  @@ (<<"self", "kustomization.yaml">> :> Refers({Ref(1, <<"app">>), Ref(0, <<"live.yaml">>)}))
  @@ (<<"self", "live.yaml">> :> {Object("Live", "live", tag)})
  @@ (<<"env", "b", "kustomization.yaml">> :> Refers({Ref(2, <<"app">>)}))
  @@ (<<"env", "local-config-transform", "replace.yaml">> :> {Object("Transformer", "replace", None)})
  @@ (<<"nest", "kustomization.yaml">> :> Refers({Ref(0, <<"replace.yaml">>)}))
  @@ (<<"nest", "replace.yaml">> :> {Object("Transformer", "replace", None)})
  @@ (<<"nest", "app", "kustomization.yaml">> :> Refers({Ref(2, <<"app">>)}))
  @@ (<<"env", "a", "kustomization.yaml">> :> Refers({Ref(1, <<"local-config-transform">>)}))
  @@ (<<"env", "local-config-transform", "kustomization.yaml">> :> Refers({Ref(2, <<"app">>)}))

\* In c2 the overlay of the application has a second kustomization on disk.
MCTrees ==
  [c \in {c1, c2} |->
     IF c = c1 THEN Files(c)
     ELSE Files(c) @@ (<<"local-config-transform", "kustomization.yml">> :> Refers({}))]

MCIds == {"live", "other", "group", "replace", "pod", "note", "error"}

MCNames ==
  KustomizationNames
  \cup {"app", "transformers", "group", "own", "self", "env", "a", "b", "nest", "nowhere",
        "local-config-transform", "local-config.yaml", "replace.yaml", "pod.yaml",
        "note.yaml", "group.yaml", "live.yaml", c1, c2}

LayerOf(path, transformers) == [path |-> path, transformers |-> transformers]

MCLayers ==
  {LayerOf(p, None) : p \in {<<"app">>, <<"own">>, <<"self">>, <<"env", "a">>}}
  \cup {LayerOf(p, <<"transformers">>) :
          p \in {<<"app">>, <<>>, <<"group">>, <<"own">>, <<"self">>, <<"env", "a">>, <<"nowhere">>}}
  \cup {LayerOf(<<"app">>, t) : t \in {<<>>, <<"transformers", "replace.yaml">>}}
  \cup {LayerOf(<<"env", "b">>, <<"env", "local-config-transform", "replace.yaml">>),
        LayerOf(<<"nest", "app">>, <<"nest">>)}
=============================================================================
