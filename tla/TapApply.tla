------------------------------ MODULE TapApply ------------------------------
(***************************************************************************)
(* The patch dispatcher: tap.Apply (pkg/tap/apply.go) selecting resources  *)
(* for each patch and tap.Operate (pkg/tap/operate.go) applying each       *)
(* operation of the patch to every selected resource, in Go map order,     *)
(* through the JSON-pointer operator.  The run ends in                     *)
(*   "done"    Apply returned the mutated configuration (Setup writes it), *)
(*   "failed"  Apply returned an error (Setup aborts, nothing written),    *)
(*   "crashed" the operator panicked (the process dies).                   *)
(*                                                                         *)
(* Each operation is chosen from the library Ops and given a selector from *)
(* Selectors; a sequence of such choices is the patch file in which every  *)
(* operation is a patch block of its own, so every configuration the       *)
(* loader can produce from these operations and selectors is explored, up  *)
(* to MaxOps operations.  The value of an operation is allocated when the  *)
(* operation begins; the loader allocated it earlier, but nothing can      *)
(* reach it before the operation uses it.                                  *)
(***************************************************************************)
EXTENDS JsonPointerPathOperator, Naturals, FiniteSets
LOCAL SX == INSTANCE SequencesExt

CONSTANTS
    Res,         \* resource key -> [mode, type, name, doc |-> initial body tree]
    Ops,         \* library of operations [mode, path, val |-> value tree]
    Selectors,   \* library of selectors [mode, types, names, coe]
    PathSyntax,  \* Config.PathSyntax
    MaxOps       \* bound on the number of operations of one run

Resources == DOMAIN Res

Modes == {"add", "replace", "remove", "set"}

Final == {"done", "failed", "crashed"}

\* The configuration tree parser.LoadConfigDir hands to Apply: every
\* resource body its own tree, allocated into one heap one after another.
InitAlloc ==
    LET rs    == SX!SetToSeq(Resources)
        part  == [i \in DOMAIN rs |-> Alloc(<<>>, Res[rs[i]].doc)]
        off   == [i \in DOMAIN rs |-> SX!FoldLeft(LAMBDA acc, j : acc + Len(part[j].h), 0,
                                                 [j \in 1..(i - 1) |-> j])]
        total == off[Len(rs)] + Len(part[Len(rs)].h)
        at(x) == CHOOSE i \in DOMAIN rs : off[i] < x /\ x <= off[i] + Len(part[i].h)
    IN  [h |-> [x \in 1..total |-> Relocate(part[at(x)].h[x - off[at(x)]], off[at(x)])],
         root |-> [r \in Resources |->
                     LET i == CHOOSE i \in DOMAIN rs : rs[i] = r IN part[i].id + off[i]]]

\* Search's target for a resource: its Config as an *hclsyntax.Body.  The
\* error for a body of another type (JSON) is left out: the bodies here
\* are native.
Root == InitAlloc.root

VARIABLES
    heap,     \* the configuration's syntax nodes
    status,   \* "idle" between operations, "running" inside Operate, or Final
    cur,      \* the operation being applied: mode, path, value handles, coe
    todo,     \* selected resources the current operation has not visited
    nOps,     \* operations begun
    hist,     \* history: per begun operation, its library entry, selector,
              \* the resources' trees when it began and where it succeeded
    last      \* mode, resource and result of the last per-resource step

vars == <<heap, status, cur, todo, nOps, hist, last>>

NoStep == [mode |-> "none", r |-> "none", err |-> Ok]

-----------------------------------------------------------------------------
(* Selection (apply.go)                                                    *)

\* originalRess: the managed or the data resources of the root module.
OfMode(mode) == {r \in Resources : Res[r].mode = mode}

\* The type must be one of the patch's types; the name must be one of its
\* names when it names any.
Selected(sel) ==
    {r \in OfMode(sel.mode) :
        /\ Res[r].type \in sel.types
        /\ sel.names # {} => Res[r].name \in sel.names}

\* The value buildValue stores in the operation: an Attribute's expression
\* or a Block's body, allocated in the heap; Remove carries none.  The
\* decoding checks are TapLoad's BuildValue.
AllocValue(h, v) ==
    CASE v.kind = "attr" ->
            LET a == Alloc(h, v.expr)
            IN  [h |-> a.h, val |-> [kind |-> "attr", expr |-> a.id]]
      [] v.kind = "block" ->
            LET a == Alloc(h, v.body)
            IN  [h |-> a.h, val |-> [kind |-> "block", label |-> v.label, body |-> a.id]]
      [] OTHER -> [h |-> h, val |-> v]

-----------------------------------------------------------------------------
(* Actions                                                                 *)

Init ==
    /\ heap = InitAlloc.h
    /\ status = "idle"
    /\ cur = [mode |-> "none", path |-> <<>>, val |-> [kind |-> "none"], coe |-> FALSE]
    /\ todo = {}
    /\ nOps = 0
    /\ hist = <<>>
    /\ last = NoStep

\* len(originalRess) == 0: the patch is skipped before its operations are
\* even parsed.
SkipPatch(op, sel) ==
    /\ status = "idle" /\ nOps < MaxOps
    /\ OfMode(sel.mode) = {}
    /\ nOps' = nOps + 1
    /\ UNCHANGED <<heap, status, cur, todo, hist, last>>

\* getPathOperator fails (operate.go 67-74: an unknown path syntax, or
\* NewJSONPointerPathOperator finding no token): Operate returns the
\* error whatever continue_on_error says.
RejectPath(op, sel) ==
    /\ status = "idle" /\ nOps < MaxOps
    /\ OfMode(sel.mode) # {}
    /\ PathSyntax # "json_pointer" \/ NewJSONPointerPathOperator(op.path).err # Ok
    /\ status' = "failed"
    /\ nOps' = nOps + 1
    /\ UNCHANGED <<heap, cur, todo, hist, last>>

\* Operate begins an operation on the selected resources.
BeginOp(op, sel) ==
    /\ status = "idle" /\ nOps < MaxOps
    /\ OfMode(sel.mode) # {}
    /\ PathSyntax = "json_pointer"
    /\ NewJSONPointerPathOperator(op.path).err = Ok
    /\ LET a == AllocValue(heap, op.val)
       IN  /\ heap' = a.h
           /\ cur' = [mode |-> op.mode, path |-> Segments(NewJSONPointerPathOperator(op.path).tks),
                      val |-> a.val, coe |-> sel.coe]
    /\ todo' = Selected(sel)
    /\ hist' = Append(hist, [op |-> op, sel |-> sel, ok |-> {},
                              pre |-> [r \in Resources |-> Den(heap, Root[r])]])
    /\ status' = "running"
    /\ nOps' = nOps + 1
    /\ UNCHANGED last

\* One iteration of Operate's loop over the resources: the outcome o of
\* the operator call on resource r.  An error ends the run unless the
\* patch continues on error; a panic always ends it.
Visit(r, o) ==
    /\ heap' = o.h
    /\ todo' = todo \ {r}
    /\ status' = CASE o.err = Ok      -> "running"
                   [] o.err = "Panic" -> "crashed"
                   [] cur.coe         -> "running"
                   [] OTHER           -> "failed"
    /\ last' = [mode |-> cur.mode, r |-> r, err |-> o.err]
    /\ hist' = IF o.err = Ok
               THEN [hist EXCEPT ![Len(hist)].ok = @ \cup {r}] ELSE hist
    /\ UNCHANGED <<cur, nOps>>

AddStep(r) ==
    /\ status = "running" /\ cur.mode = "add" /\ r \in todo
    /\ \E o \in Add(heap, Root[r], cur.path, cur.val) : Visit(r, o)

ReplaceStep(r) ==
    /\ status = "running" /\ cur.mode = "replace" /\ r \in todo
    /\ \E o \in Replace(heap, Root[r], cur.path, cur.val) : Visit(r, o)

RemoveStep(r) ==
    /\ status = "running" /\ cur.mode = "remove" /\ r \in todo
    /\ \E o \in Remove(heap, Root[r], cur.path) : Visit(r, o)

SetStep(r) ==
    /\ status = "running" /\ cur.mode = "set" /\ r \in todo
    /\ \E o \in Set(heap, Root[r], cur.path, cur.val) : Visit(r, o)

\* Every selected resource visited: the next operation or patch.
EndOp ==
    /\ status = "running" /\ todo = {}
    /\ status' = "idle"
    /\ UNCHANGED <<heap, cur, todo, nOps, hist, last>>

\* Apply returns; Setup writes the configuration.
Finish ==
    /\ status = "idle"
    /\ status' = "done"
    /\ UNCHANGED <<heap, cur, todo, nOps, hist, last>>

Next ==
    \/ \E op \in Ops, sel \in Selectors :
          \/ SkipPatch(op, sel)
          \/ RejectPath(op, sel)
          \/ BeginOp(op, sel)
    \/ \E r \in Resources :
          \/ AddStep(r)
          \/ ReplaceStep(r)
          \/ RemoveStep(r)
          \/ SetStep(r)
    \/ EndOp
    \/ Finish

\* A state in Final has no successor: the process has stopped.
Spec == Init /\ [][Next]_vars

-----------------------------------------------------------------------------
(* Properties                                                              *)

NodeKinds == {"body", "amap", "attr", "block", "object", "tuple", "lit"}

Errors == {Ok, "PathNotFound", "InvalidTarget", "InvalidIndexer", "AlreadyExists",
           "IllegalIndex", "KindMismatch", "Panic"}

TypeOK ==
    /\ status \in {"idle", "running"} \cup Final
    /\ cur.mode \in Modes \cup {"none"} /\ cur.coe \in BOOLEAN
    /\ todo \subseteq Resources
    /\ nOps \in 0..MaxOps
    /\ \A x \in DOMAIN heap : heap[x].kind \in NodeKinds
    /\ WellFormed(heap)
    /\ \A r \in Resources : Kind(heap, Root[r]) = "body"
    /\ Len(hist) <= nOps
    /\ \A k \in DOMAIN hist : hist[k].op \in Ops /\ hist[k].ok \subseteq Resources
    /\ last.err \in Errors

\* The tree of resource r after the k-th operation: when the next one
\* began, or now.
Post(k, r) == IF k = Len(hist) THEN Den(heap, Root[r]) ELSE hist[k + 1].pre[r]

\* The k-th operation has visited all its resources.
Complete(k) == k < Len(hist) \/ status \in {"idle", "done"}

\* Add never takes anything away: whatever a resource had before a step of
\* an "add" operation (attributes, blocks, items and elements, in place) it
\* still has after it, whether the step succeeds, fails half way through a
\* block-group splice, or alters the resource through a shared node.
AddMonotone ==
    [][cur.mode = "add" /\ status = "running" =>
         \A r \in Resources : Embeds(Den(heap, Root[r]), Den(heap', Root[r]))]_vars

\* Testable property of the spec: an Add of an attribute value followed by
\* a Remove of the same path gives back, on every resource where both
\* succeeded, the tree it had before the Add.
AddRemoveInverse ==
    \A k \in 1..(Len(hist) - 1) :
        LET a == hist[k].op
            d == hist[k + 1].op
        IN  (/\ a.mode = "add" /\ a.val.kind = "attr"
             /\ d.mode = "remove" /\ d.path = a.path
             /\ Complete(k + 1))
              => \A r \in hist[k].ok \cap hist[k + 1].ok : Post(k + 1, r) = hist[k].pre[r]

\* getPathOperator in Operate: every operation the dispatcher begins has a
\* path that is an RFC 6901 pointer, and walks exactly RFC 6901's
\* reference tokens of it: the split, the drop of the first piece and the
\* one-pass unescaping agree with the RFC ("~01" is "~1", "a~1b" is "a/b").
PathsFollowRFC ==
    status = "running" =>
        LET p == hist[Len(hist)].op.path IN RFCPointer(p) /\ cur.path = RFCSegments(p)

-----------------------------------------------------------------------------
(* Properties the code does not have (each checked by a violation run).    *)

\* The tree is exclusively owned and each resource is patched on its own:
\* a step of Operate's loop on one resource changes no other resource.
Isolation ==
    [][\A r \in Resources \ {last'.r} : Den(heap', Root[r]) = Den(heap, Root[r])]_vars

\* Remove on a block group deletes that one body instance from its owning
\* body's block list.
RemoveIndexRemovesOne ==
    [][(cur.mode = "remove" /\ status = "running" /\ todo' # todo /\ last'.err = Ok) =>
         LET s == Search(heap, Root[last'.r], cur.path)
         IN  s.tgt.k = "group" =>
                Len(heap'[s.par].blocks) = Len(heap[s.par].blocks) - 1]_vars

\* Every failure of an operation is an error of that (patch, operation,
\* resource) (spec.md 4.3): an out-of-range index is PathNotFound, and no
\* sequence of patches makes the operator panic (Search's index checks,
\* and the Labels[0] of every loop over a body's blocks).
NoPanic == status # "crashed"

=============================================================================
