--------------------------- MODULE OverrideMerge ---------------------------
(***************************************************************************)
(* The override merge of the Terraform loader (pkg/terraform/load.go Load  *)
(* and load_overrider.go).  After Terraform's parser has built the root    *)
(* module, a resource declared again in an override file has as its body a *)
(* configs.MergeBody{Base, Override}; mergeOverrides replaces each such    *)
(* body by one *hclsyntax.Body, resource by resource, first the managed    *)
(* and then the data resources, each map in Go map order.                  *)
(*                                                                         *)
(* Bodies are trees:                                                       *)
(*   [kind |-> "native", attrs, blocks]  an *hclsyntax.Body: attribute     *)
(*        name -> value, and a list of blocks [type, label, id];           *)
(*   [kind |-> "json"]                   a body of another syntax (.tf.json)*)
(*   [kind |-> "merge", base, override]  a configs.MergeBody;              *)
(*   [kind |-> "nil"]                    a resource without Config.        *)
(* A block's own body is never merged, so a block is its type, its first   *)
(* label and an id telling the file it came from.                          *)
(***************************************************************************)
EXTENDS Integers, Sequences, FiniteSets, TLC

CONSTANTS Managed,       \* names of the managed resources
          Data,          \* names of the data resources
          Configs        \* the bodies a resource can have after parsing

VARIABLES cfg,           \* resource -> Resource.Config
          orig,          \* resource -> the body Load started from (history)
          phase,         \* "managed", "data", "done" or "failed"
          todo           \* resources of the current map not yet ranged over

vars == <<cfg, orig, phase, todo>>

Resources == Managed \cup Data

Dynamic == "dynamic"

-----------------------------------------------------------------------------
(* mergeBody                                                               *)

\* The override's block types, a dynamic block counted as "dynamic".
OverrideTypesByType(ob) == {ob.blocks[i].type : i \in DOMAIN ob.blocks}

\* The block identities of the override (load_overrider.go 120-131): a
\* dynamic block counts as the type of its label.
OverrideTypes(ob) ==
    {IF ob.blocks[i].type = Dynamic THEN ob.blocks[i].label ELSE ob.blocks[i].type
        : i \in DOMAIN ob.blocks}

\* A base block survives unless its type, or for a dynamic block its
\* label, is overridden (133-143).
KeepBlock(blk, obts) ==
    /\ ~(blk.type = Dynamic /\ blk.label \in obts)
    /\ blk.type \notin obts

Failure == [err |-> TRUE]

\* for n, attr := range ob.Attributes { bb.Attributes[n] = attr } (115-117)
MergeAttrs(bb, ob) == ob.attrs @@ bb.attrs

\* The result of mergeBody: [err |-> FALSE, body |-> ...] or Failure.  The
\* default case returns any body that is not a MergeBody as it is (59-66);
\* either side is resolved first (68-77, 91-100) and must then be an
\* *hclsyntax.Body (79-89, 102-112).
RECURSIVE MergeBody(_)
MergeBody(t) ==
    IF t.kind # "merge" THEN [err |-> FALSE, body |-> t]
    ELSE LET bbo == MergeBody(t.base)
             obo == MergeBody(t.override)
         IN  IF bbo.err \/ bbo.body.kind # "native" THEN Failure
             ELSE IF obo.err \/ obo.body.kind # "native" THEN Failure
             ELSE LET bb   == bbo.body
                      ob   == obo.body
                      obts == OverrideTypes(ob)
                  IN  [err  |-> FALSE,
                       body |-> [kind   |-> "native",
                                 attrs  |-> MergeAttrs(bb, ob),
                                 blocks |-> SelectSeq(bb.blocks, LAMBDA k : KeepBlock(k, obts))
                                            \o ob.blocks]]

-----------------------------------------------------------------------------
(* mergeOverrides and mergeResources                                       *)

Init == /\ cfg \in [Resources -> Configs]
        /\ orig = cfg
        /\ phase = "managed"
        /\ todo = Managed

\* An iteration that goes on after a failed merge, with the nil body
\* mergeBody returned assigned to r.Config (45).
MergeResourceNoReturn(r) ==
    /\ phase \in {"managed", "data"}
    /\ r \in todo
    /\ todo' = todo \ {r}
    /\ cfg[r].kind # "nil" =>
         cfg' = [cfg EXCEPT ![r] = IF MergeBody(cfg[r]).err THEN [kind |-> "nil"]
                                   ELSE MergeBody(cfg[r]).body]
    /\ cfg[r].kind = "nil" => UNCHANGED cfg
    /\ UNCHANGED <<phase, orig>>

\* One iteration of mergeResources' loop (38-51): a resource without
\* Config is skipped; a failed merge returns the error, which mergeOverrides
\* (20-22, 28-30) and Load (55-58) pass up: Load fails.
MergeResource(r) ==
    /\ phase \in {"managed", "data"}
    /\ r \in todo
    /\ todo' = todo \ {r}
    /\ IF cfg[r].kind = "nil"
       THEN UNCHANGED <<cfg, phase>>
       ELSE LET m == MergeBody(cfg[r]) IN
            IF m.err THEN /\ phase' = "failed"
                          /\ UNCHANGED cfg
                     ELSE /\ cfg' = [cfg EXCEPT ![r] = m.body]
                          /\ UNCHANGED phase
    /\ UNCHANGED orig

\* The data map left out.
MergeDataResourcesSkipped ==
    /\ phase = "managed"
    /\ todo = {}
    /\ phase' = "done"
    /\ UNCHANGED <<cfg, orig, todo>>

\* The managed map is done: range over the data resources (26-32).
MergeDataResources ==
    /\ phase = "managed"
    /\ todo = {}
    /\ phase' = "data"
    /\ todo' = Data
    /\ UNCHANGED <<cfg, orig>>

\* mergeOverrides returns cfg, and Load returns it (34, 55-60).
LoadDone ==
    /\ phase = "data"
    /\ todo = {}
    /\ phase' = "done"
    /\ UNCHANGED <<cfg, orig, todo>>

Next == \/ \E r \in Resources : MergeResource(r)
        \/ MergeDataResources
        \/ LoadDone

\* mergeOverrides runs to completion: some step is enabled until Load
\* returns, and it is the only thing the process is doing.
Spec == Init /\ [][Next]_vars /\ WF_vars(Next)

-----------------------------------------------------------------------------
(* Properties                                                              *)

LO == INSTANCE LoadOverrides
        WITH cfg   <- IF phase = "done" THEN cfg ELSE orig,
             phase <- IF phase \in {"managed", "data"} THEN "loading" ELSE phase

\* Once Load returns, no resource body is still a MergeBody: the writer and
\* the patch engine only ever see merged bodies (spec §4.5, both the
\* managed and the data map are ranged over).
TypeOK ==
    /\ phase \in {"managed", "data", "done", "failed"}
    /\ todo \subseteq Resources
    /\ orig \in [Resources -> Configs]
    /\ phase = "done" => \A r \in Resources : cfg[r].kind \in {"native", "json", "nil"}

\* The index of the last layer of t that has attribute n, or block
\* identity d; 0 if none has.
LastWithAttr(L, n)  == LET I == {i \in DOMAIN L : n \in DOMAIN L[i].attrs}
                       IN  IF I = {} THEN 0 ELSE CHOOSE i \in I : \A j \in I : j <= i
LastWithIdent(L, d) == LET I == {i \in DOMAIN L : d \in LO!Idents(L[i])}
                       IN  IF I = {} THEN 0 ELSE CHOOSE i \in I : \A j \in I : j <= i

\* The layer a block of t came from.
LayerOf(L, blk) == CHOOSE i \in DOMAIN L : \E k \in DOMAIN L[i].blocks : L[i].blocks[k] = blk

BlocksOf(b, d) == SelectSeq(b.blocks, LAMBDA k : LO!Ident(k) = d)

\* When Load returns, each merged resource has, for every attribute name,
\* the value of the last file that sets it, and for every block type the
\* blocks of the last file that has a block of that type (counting a
\* dynamic block as its label), in that file's order and nothing else;
\* blocks of earlier files come first.  Checked against mergeBody's
\* recursion over nested MergeBodies, its identity map and its filter.
LastLayerWins ==
    phase = "done" =>
    \A r \in Resources : orig[r].kind = "merge" /\ ~LO!CannotMerge(orig[r]) =>
        LET L == LO!Layers(orig[r])
            b == cfg[r]
        IN  /\ DOMAIN b.attrs = UNION {DOMAIN L[i].attrs : i \in DOMAIN L}
            /\ \A n \in DOMAIN b.attrs : b.attrs[n] = L[LastWithAttr(L, n)].attrs[n]
            /\ \A i \in DOMAIN L : \A d \in LO!Idents(L[i]) :
                  BlocksOf(b, d) = BlocksOf(L[LastWithIdent(L, d)], d)
            /\ \A i, j \in DOMAIN b.blocks :
                  i < j => LayerOf(L, b.blocks[i]) <= LayerOf(L, b.blocks[j])

\* mergeOverrides with mergeResources implements the loader's promise
\* (LoadOverrides): Load ends, either failing exactly when some resource
\* has a body of another syntax under a MergeBody, or having merged every
\* resource's layers; the resource-by-resource loop, in any map order, is
\* never observable half done.
LoadSpec == LO!Spec

=============================================================================
