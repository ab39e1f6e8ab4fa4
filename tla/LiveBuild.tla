------------------------------ MODULE LiveBuild ------------------------------
(* From a work tree to what is applied: the kustomize layer of the Live       *)
(* (pkg/kustomize/layer.go), the overlay that lets transformers see the Live  *)
(* (overlay.go), the inventory that is added (pkg/live/live_apply.go) and what*)
(* KptClient.Apply makes of it (client.go), on top of GitRepository.          *)
(*                                                                            *)
(* A path is a sequence of names, starting in the directory of the work trees;*)
(* a file system is a function from the paths of its files to their contents: *)
(* a kustomization, or a set of objects.                                      *)
EXTENDS GitRepository, Sequences, SequencesExt

CONSTANTS
  Names,    \* names of files and directories; a work tree is named after its commit
  Ids,      \* names of objects
  Trees,    \* the file system of each commit
  Layers,   \* spec.path and spec.transformers of Lives; transformers may be None
  LiveName, \* name and namespace of the Live
  Uid,      \* its uid
  Depth     \* bound: how many directories refer to one another in a row

VARIABLES
  layer,     \* path and transformers of the Live
  requested  \* what the last Reconcile that got to build asked kpt to apply, or None

buildVars == <<vars, layer, requested>>

Paths == Seq(Names)

\* The data of an object is the commit that it tells of, if any.
Kinds == {"Live", "ResourceGroup", "Transformer", "Pod", "Note", "Error"}
Objects == [kind: Kinds, id: Ids, data: Commits \cup {None}, local: BOOLEAN]

Object(kind, id, data) == [kind |-> kind, id |-> id, data |-> data, local |-> FALSE]
Error == Object("Error", "error", None)
Failed(objs) == Error \in objs

\* A clean relative path: how often "..", and what comes after.
References == [up: Nat, down: Paths]
Kustomizations == [resources: SUBSET References, transformers: SUBSET References]
KustomizationNames == {"kustomization.yaml", "kustomization.yml"}

IsFileSystem(fs) ==
  \A f \in DOMAIN fs :
    /\ f \in Paths /\ f # <<>>
    /\ IF Last(f) \in KustomizationNames THEN fs[f] \in Kustomizations
                                         ELSE fs[f] \in SUBSET Objects

ASSUME BuildAssumption ==
  /\ \A c \in Commits : IsFileSystem(Trees[c])
  /\ \A l \in Layers : l.path \in Paths /\ l.transformers \in Paths \cup {None}
  /\ KustomizationNames \cup {"local-config.yaml", "local-config-transform"} \cup Commits
       \subseteq Names
  /\ "error" \in Ids /\ LiveName \in Ids \ {"error"}
  /\ Depth \in Nat

-----------------------------------------------------------------------------
\* File systems.

Exists(fs, path) == \E file \in DOMAIN fs : IsPrefix(path, file)

\* LayeredFilesystem asks the first that has the path, be it as a directory.
Layered(upper, lower) ==
  [f \in DOMAIN upper \cup {g \in DOMAIN lower : ~Exists(upper, g)} |->
     IF f \in DOMAIN upper THEN upper[f] ELSE lower[f]]

Join(dir, rel) == SubSeq(dir, 1, Len(dir) - rel.up) \o rel.down
Rel(dir, path) ==
  LET common == Len(LongestCommonPrefix({dir, path}))
  IN  [up |-> Len(dir) - common, down |-> SubSeq(path, common + 1, Len(path))]

\* The work tree of a commit on disk: half a checkout has the kustomizations only.
Disk(commit, state) ==
  LET files == {f \in DOMAIN Trees[commit] :
                  state = "complete" \/ (state = "partial" /\ Last(f) \in KustomizationNames)}
  IN  [f \in {<<commit>> \o g : g \in files} |-> Trees[commit][Tail(f)]]

-----------------------------------------------------------------------------
\* kustomize build.

Singleton(S) == \E x \in S : S = {x}

\* Transformers here copy the commit of the one Live they find into the Pods.
Transform(objs, transformers) ==
  LET sources == {o \in objs : o.kind = "Live"}
      source == CHOOSE l \in sources : TRUE
  IN  IF transformers = {} THEN objs
      ELSE IF (\E t \in transformers : t.kind # "Transformer") \/ ~Singleton(sources)
      THEN {Error}
      ELSE {IF o.kind = "Pod" THEN [o EXCEPT !.data = source.data] ELSE o : o \in objs}

Combine(resources, transformers) ==
  IF Failed(resources) THEN {Error} ELSE Transform(resources, transformers)

\* Resources with the same name are an error; an error in a part is one of the whole.
Merge(parts) ==
  IF \E p, q \in DOMAIN parts : p # q /\ \E a \in parts[p], b \in parts[q] : a.id = b.id
  THEN {Error}
  ELSE UNION {parts[p] : p \in DOMAIN parts}

\* What a reference from a directory to a path stands for. Files must be below the
\* directory, and have objects in them.
Load(fs, below, dir, visited, path) ==
  IF path \notin DOMAIN fs THEN below[path][visited \cup {dir}]
  ELSE IF IsStrictPrefix(dir, path) /\ Last(path) \notin KustomizationNames THEN fs[path]
  ELSE {Error}

\* A directory must have one kustomization and must not contain one that refers
\* to it. `below` is what directories amount to that this one refers to.
AccumulateDir(fs, below, dir, visited) ==
  LET names == {n \in KustomizationNames : Append(dir, n) \in DOMAIN fs}
      k == fs[Append(dir, CHOOSE n \in names : TRUE)]
      LoadAll(refs) == Merge([r \in refs |-> Load(fs, below, dir, visited, Join(dir, r))])
  IN  IF (\E v \in visited : IsPrefix(dir, v)) \/ ~Singleton(names)
      THEN {Error}
      ELSE Combine(LoadAll(k.resources), LoadAll(k.transformers))

\* The directories of a file system, up to a depth.
Accumulate(fs) ==
  LET accumulated[depth \in Nat] ==
        IF depth = 0
        THEN [dir \in Paths |-> [visited \in SUBSET Paths |-> {Error}]]
        ELSE [dir \in Paths |-> [visited \in SUBSET Paths |->
                AccumulateDir(fs, accumulated[depth - 1], dir, visited)]]
  IN  accumulated

LayerBuild(fs, dir, depth) ==
  {o \in Accumulate(fs)[depth][dir][{}] : ~o.local}

-----------------------------------------------------------------------------
\* The overlay: a directory next to the layer, whose kustomization adds the Live
\* to the layer and transforms the two. Its own files go before those on disk.

TransformDir(base) == Append(Front(base), "local-config-transform")

\* Mutant: the Live is not marked as local configuration.
LiveAsResource(commit) == Object("Live", LiveName, commit)

LocalConfig(commit) == [Object("Live", LiveName, commit) EXCEPT !.local = TRUE]

OverlayFiles(base, transformers, commit) ==
  LET dir == TransformDir(base)
      kustomization ==
        [resources |-> {[up |-> 1, down |-> <<Last(base)>>],
                        [up |-> 0, down |-> <<"local-config.yaml">>]},
         transformers |-> {Rel(dir, transformers)}]
  IN  [f \in {Append(dir, "kustomization.yaml"), Append(dir, "local-config.yaml")} |->
         IF Last(f) = "kustomization.yaml" THEN kustomization ELSE {LocalConfig(commit)}]

\* ReconcileApply from its baseLayer to its build.
KustomizeBuild(l, commit, onDisk) ==
  LET base == <<commit>> \o l.path
      overlay == OverlayFiles(base, <<commit>> \o l.transformers, commit)
  IN  IF l.transformers = None
      THEN LayerBuild(onDisk, base, Depth)
      ELSE LayerBuild(Layered(overlay, onDisk), TransformDir(base), Depth + 1)

-----------------------------------------------------------------------------
\* What is applied.

ResourceGroup == Object("ResourceGroup", LiveName, Uid)

NewLiveApply(objs) ==
  IF \E o \in objs : o.kind = "ResourceGroup" THEN {Error} ELSE objs \cup {ResourceGroup}

\* What Apply gives to kpt: the inventory is the one resource group among them.
ApplyRequest(resMap) ==
  LET groups == {o \in resMap : o.kind = "ResourceGroup"}
      group == CHOOSE g \in groups : TRUE
  IN  IF Failed(resMap) \/ ~Singleton(groups)
      THEN None
      ELSE [objects |-> resMap \ groups, inventory |-> <<group.id, group.data>>]

\* The inventory that Destroy asks for.
DestroyInventory == <<LiveName, Uid>>

Requests ==
  [l \in Layers |-> [c \in Commits |-> [state \in {"empty", "partial", "complete"} |->
     LET objs == KustomizeBuild(l, c, Disk(c, state))
     IN  ApplyRequest(IF Failed(objs) THEN objs ELSE NewLiveApply(objs))]]]

BuildAndApply ==
  /\ Build
  /\ requested' = Requests[layer][local.commit][trees[local.commit]]
  /\ UNCHANGED layer

BuildInit == Init /\ layer \in Layers /\ requested = None

BuildReconcile == BuildAndApply \/ (PrepareTree /\ UNCHANGED <<layer, requested>>)

BuildNext == BuildReconcile \/ (Outside /\ UNCHANGED <<layer, requested>>)

BuildSpec == BuildInit /\ [][BuildNext]_buildVars /\ WF_buildVars(BuildReconcile)

-----------------------------------------------------------------------------
\* Properties.

\* The commit's own files, without overlay and layers of file systems: the layer
\* with the Live in it, transformed, and without the Live again. The two are
\* referred to from the directory next to the layer.
Intended ==
  [l \in Layers |-> [c \in Commits |->
     LET whole == Disk(c, "complete")
         accumulated == Accumulate(whole)[Depth]
         base == <<c>> \o l.path
         Referred(path) == Load(whole, accumulated, TransformDir(base), {}, path)
     IN  IF l.transformers = None
         THEN {o \in accumulated[base][{}] : ~o.local}
         ELSE {o \in Combine(Merge(<<Referred(base), {LocalConfig(c)}>>),
                             Referred(<<c>> \o l.transformers)) :
                 ~o.local /\ o.id # LiveName}]]

\* Has the commit something where the overlay puts its files, or another
\* kustomization beside them?
Reserved(l, commit) ==
  /\ l.transformers # None
  /\ \E name \in KustomizationNames \cup {"local-config.yaml"} :
       Exists(Disk(commit, "complete"), Append(TransformDir(<<commit>> \o l.path), name))

\* What is applied is what the commit's layer and its transformers say, with the
\* Live's own data in it but not the Live, under the inventory that Destroy will
\* look for; when they say nothing that can be applied, nothing is. A directory
\* named like the overlay's may be in the way, but never gets anything else
\* applied (live_controller.go, ReconcileApply).
AppliesTheCommit ==
  built # None =>
    LET objs == Intended[layer][built.commit]
        applicable == ~Failed(objs) /\ \A o \in objs : o.kind # "ResourceGroup"
    IN  \/ applicable /\ requested = [objects |-> objs, inventory |-> DestroyInventory]
        \/ (applicable => Reserved(layer, built.commit)) /\ requested = None
=============================================================================
