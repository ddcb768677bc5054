--------------------------- MODULE TerraformLoad ---------------------------
(***************************************************************************)
(* terraform.Load (pkg/terraform/load.go 18-61): the module manifest of    *)
(* the working directory is read, the root module parsed, the module tree  *)
(* built by configs.BuildConfig with the walker of getWalker               *)
(* (load_walker.go 15-110), and the overrides merged (OverrideMerge).      *)
(*                                                                         *)
(* A working directory, as Load sees it, is a record                       *)
(*   [mfile, manifest, root, installed, overrides]                         *)
(*   mfile      .terraform/modules/modules.json: "absent", "ok", "corrupt" *)
(*              (ReadManifestSnapshot fails) or "unopenable" (Open fails   *)
(*              with an error other than not-exist, e.g. permission)       *)
(*   manifest   when "ok": a function from module keys to records          *)
(*              [source, version, dir]; an empty function for an empty     *)
(*              file                                                       *)
(*   root       the root module                                            *)
(*   installed  a function from the directories of the records to modules  *)
(*   overrides  whether mergeOverrides succeeds                            *)
(* A module is [exists, ok, calls]: exists is FALSE when LoadConfigDir     *)
(* returns nil (the directory cannot be read), ok FALSE when it reports    *)
(* errors; calls is a sequence of module calls [name, source, constraint], *)
(* names unique (the parser rejects duplicates).  A constraint is          *)
(* [req, ok]: req whether it has any Required part, ok the versions it     *)
(* accepts.  A record's version is NoVersion for a local module.           *)
(*                                                                         *)
(* configs.BuildConfig, which lives upstream, is modelled at its           *)
(* interface: every call of a loaded module becomes a request to the       *)
(* walker with its full path; a nil module ends that branch; all           *)
(* diagnostics are collected.  Module sources form a tree here.            *)
(* LoadConfigDir(".") returns a nil root (Load's nil, nil, 46-48) only     *)
(* when the directory cannot be read; Setup calls Load on a directory      *)
(* tap.Load has just read, so that branch is left out.                     *)
(***************************************************************************)
EXTENDS Integers, Sequences, FiniteSets

NoVersion == "none"

\* The outcome of Load: [kind, paths], kind "ok", "err" or "panic"; on
\* "ok" paths is the set of module paths of the Config (<<>> the root).
Err      == [kind |-> "err", paths |-> {}]
Panicked == [kind |-> "panic", paths |-> {}]
NoModule == [exists |-> FALSE, ok |-> FALSE, calls |-> <<>>]

\* modsdir.Manifest.ModuleKey: the path's names joined with ".".
RECURSIVE ModuleKey(_)
ModuleKey(path) ==
    IF Len(path) <= 1 THEN IF path = <<>> THEN "" ELSE Head(path)
    ELSE ModuleKey(SubSeq(path, 1, Len(path) - 1)) \o "." \o path[Len(path)]

\* version.Constraints.Check: every Required constraint accepts v (none
\* accepts everything).
Check(c, v) == ~c.req \/ v \in c.ok

\* A walker that looks the record up by the call's own name (req.Name)
\* rather than by the key of its whole path.
WalkOwnKey(m, installed, req) ==
    LET key == req.path[Len(req.path)] IN
    IF DOMAIN m = {} THEN [mod |-> NoModule, diags |-> FALSE]
    ELSE IF key \notin DOMAIN m THEN [mod |-> NoModule, diags |-> TRUE]
    ELSE LET r == m[key] IN
         IF ~installed[r.dir].exists THEN [mod |-> NoModule, diags |-> TRUE]
         ELSE [mod |-> installed[r.dir],
               diags |-> \/ req.source # r.source
                         \/ req.constraint.req /\ r.version = NoVersion
                         \/ r.version # NoVersion /\ ~Check(req.constraint, r.version)
                         \/ ~installed[r.dir].ok]

\* The walker's answer to a request [path, source, constraint]:
\* [mod, diags].  With an empty manifest it is nullWalker (16-18, 108-110).
\* A key without a record is "Module not installed" (26-38); otherwise the
\* source (46-54) and version (56-79) checks add errors but the module is
\* still loaded (81-84) unless its directory cannot be read (86-102).
Walk(m, installed, req) ==
    LET key == ModuleKey(req.path) IN
    IF DOMAIN m = {} THEN [mod |-> NoModule, diags |-> FALSE]
    ELSE IF key \notin DOMAIN m THEN [mod |-> NoModule, diags |-> TRUE]
    ELSE LET r   == m[key]
             mod == installed[r.dir]
             stale == \/ req.source # r.source
                      \/ req.constraint.req /\ r.version = NoVersion
                      \/ r.version # NoVersion /\ ~Check(req.constraint, r.version)
         IN  IF ~mod.exists THEN [mod |-> NoModule, diags |-> TRUE]
             ELSE [mod |-> mod, diags |-> stale \/ ~mod.ok]

\* buildChildModules and loadModule: each call of the module at path is
\* requested with path ++ <<name>>; a module the walker returns is walked
\* in turn.  The result: [diags, paths] of the subtree below path.
RECURSIVE BuildChildModules(_, _, _, _)
BuildChildModules(m, installed, path, mod) ==
    LET child(c) ==
          LET req == [path |-> Append(path, c.name), source |-> c.source,
                      constraint |-> c.constraint]
              w   == Walk(m, installed, req)
              sub == BuildChildModules(m, installed, req.path, w.mod)
          IN  IF ~w.mod.exists THEN [diags |-> w.diags, paths |-> {}]
              ELSE [diags |-> w.diags \/ sub.diags, paths |-> {req.path} \cup sub.paths]
        rs == {child(mod.calls[i]) : i \in DOMAIN mod.calls}
    IN  [diags |-> \E r \in rs : r.diags, paths |-> UNION {r.paths : r \in rs}]

\* Load (18-61): a manifest that does not exist is an empty one; one that
\* cannot be opened leaves f nil, and ReadManifestSnapshot(f) reads from a
\* nil io.Reader and panics (27-31); one that does not parse is an error
\* (33-35).  Then the root module (41-44), BuildConfig (50-53) and
\* mergeOverrides (55-58), each error returned.
Load(ws) ==
    LET m == IF ws.mfile = "ok" THEN ws.manifest ELSE <<>>
        b == BuildChildModules(m, ws.installed, <<>>, ws.root)
    IN  IF ws.mfile = "unopenable" THEN Panicked
        ELSE IF ws.mfile = "corrupt" THEN Err
        ELSE IF ~ws.root.ok THEN Err
        ELSE IF b.diags THEN Err
        ELSE IF ~ws.overrides THEN Err
        ELSE [kind |-> "ok", paths |-> {<<>>} \cup b.paths]

-----------------------------------------------------------------------------
(***************************************************************************)
(* What the loader promises (spec.md 88): the merged configuration of the  *)
(* root and every installed module, or a fatal, diagnostic failure when    *)
(* the manifest cannot be read or disagrees with the configuration ("module *)
(* not installed" prompts re-initialization).  Without a manifest nothing  *)
(* is installed and the root stands alone.  Stated over the set of module  *)
(* paths, without the walk: a path is in the tree when every call on it is *)
(* a call of the module its prefix resolves to.                            *)
(***************************************************************************)
ReferenceLoad(ws) ==
    LET m        == IF ws.mfile = "ok" THEN ws.manifest ELSE <<>>
        Pre(p, i) == SubSeq(p, 1, i)
        Resolves(p) == ModuleKey(p) \in DOMAIN m /\ ws.installed[m[ModuleKey(p)].dir].exists
        ModAt(p) == IF p = <<>> THEN ws.root ELSE ws.installed[m[ModuleKey(p)].dir]
        CallOf(p) == LET cs == ModAt(Pre(p, Len(p) - 1)).calls
                     IN  cs[CHOOSE i \in DOMAIN cs : cs[i].name = p[Len(p)]]
        Names    == UNION {{c[i].name : i \in DOMAIN c} :
                           c \in {ws.root.calls} \cup {ws.installed[d].calls : d \in DOMAIN ws.installed}}
        Depth    == Cardinality(DOMAIN ws.installed) + 1
        InTree(p) == \A i \in 1..Len(p) :
                        /\ i > 1 => Resolves(Pre(p, i - 1))
                        /\ \E j \in DOMAIN ModAt(Pre(p, i - 1)).calls :
                              ModAt(Pre(p, i - 1)).calls[j].name = p[i]
        Tree     == {p \in UNION {[1..n -> Names] : n \in 1..Depth} : InTree(p)}
        Agrees(p) == LET r == m[ModuleKey(p)] IN
                     /\ Resolves(p)
                     /\ CallOf(p).source = r.source
                     /\ IF r.version = NoVersion THEN ~CallOf(p).constraint.req
                        ELSE r.version \in CallOf(p).constraint.ok \/ ~CallOf(p).constraint.req
                     /\ ws.installed[r.dir].ok
    IN  IF ws.mfile \in {"unopenable", "corrupt"} \/ ~ws.root.ok \/ ~ws.overrides THEN Err
        ELSE IF DOMAIN m = {} THEN [kind |-> "ok", paths |-> {<<>>}]
        ELSE IF \E p \in Tree : ~Agrees(p) THEN Err
        ELSE [kind |-> "ok", paths |-> {<<>>} \cup Tree]

=============================================================================
