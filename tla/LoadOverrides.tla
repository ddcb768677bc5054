--------------------------- MODULE LoadOverrides ---------------------------
(***************************************************************************)
(* What the Terraform loader promises about override files (spec §4.5):    *)
(* Load either fails, leaving nothing behind, or replaces every resource   *)
(* body by the merge of its layers, all at once.  A body with overrides is *)
(* a tree of "merge" nodes whose leaves are the bodies of the files, in    *)
(* file order; the merge folds the layers left to right:                   *)
(*   - attributes: a later layer's attribute replaces an earlier one by    *)
(*     name;                                                               *)
(*   - blocks: a later layer's blocks replace every earlier block of the   *)
(*     same identity (a dynamic block's identity is its label), and come   *)
(*     after the kept ones in their own order.                             *)
(* Only native HCL bodies can be merged; a body of another syntax under a  *)
(* merge node makes Load fail.                                             *)
(***************************************************************************)
EXTENDS Sequences, FiniteSets, TLC
LOCAL SX == INSTANCE SequencesExt

CONSTANTS Resources,     \* the managed and data resources of the root module
          Configs        \* the bodies a resource can have after parsing

VARIABLES cfg,           \* resource -> its body (Resource.Config)
          phase          \* "loading", "done" or "failed"

Dynamic == "dynamic"

\* The layers of a body: the file bodies, depth-first, override side last.
RECURSIVE Layers(_)
Layers(t) == IF t.kind = "merge" THEN Layers(t.base) \o Layers(t.override) ELSE <<t>>

Ident(blk) == IF blk.type = Dynamic THEN blk.label ELSE blk.type

Idents(b) == {Ident(b.blocks[i]) : i \in DOMAIN b.blocks}

\* One layer o laid over the merged body b.
Overlay(b, o) ==
    [kind   |-> "native",
     attrs  |-> o.attrs @@ b.attrs,
     blocks |-> SelectSeq(b.blocks, LAMBDA k : Ident(k) \notin Idents(o)) \o o.blocks]

\* The merge fails when a layer under a merge node is not a native body.
CannotMerge(t) == t.kind = "merge" /\ \E i \in DOMAIN Layers(t) : Layers(t)[i].kind # "native"

Merged(t) ==
    IF t.kind # "merge" THEN t
    ELSE SX!FoldLeft(Overlay, Head(Layers(t)), Tail(Layers(t)))

Init == /\ cfg \in [Resources -> Configs]
        /\ phase = "loading"

Load == /\ phase = "loading"
        /\ \A r \in Resources : ~CannotMerge(cfg[r])
        /\ cfg' = [r \in Resources |-> Merged(cfg[r])]
        /\ phase' = "done"

Fail == /\ phase = "loading"
        /\ \E r \in Resources : CannotMerge(cfg[r])
        /\ phase' = "failed"
        /\ UNCHANGED cfg

Next == Load \/ Fail

Spec == Init /\ [][Next]_<<cfg, phase>> /\ WF_<<cfg, phase>>(Next)

=============================================================================
