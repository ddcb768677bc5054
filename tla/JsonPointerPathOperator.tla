----------------------- MODULE JsonPointerPathOperator -----------------------
(***************************************************************************)
(* The JSON-pointer path operator of pkg/tap/operate_with_json_pointer.go: *)
(* Search, which walks a resource body along all but the last path         *)
(* segment, and the four operations Add, Replace, Remove and Set, which    *)
(* branch on the kind of node Search reached.                              *)
(*                                                                         *)
(* Every operation is an operator from a heap to the SET of outcomes       *)
(* [h |-> heap after the call, err |-> Ok or an error tag]; the set has    *)
(* more than one element only where the code iterates a Go map and stops  *)
(* half way (Add into a block group).  A panic of the Go code (an index    *)
(* out of range) is the outcome "Panic".                                   *)
(*                                                                         *)
(* A path is the sequence of decoded segments (strings).  IntSeg maps the  *)
(* segments that strconv.ParseInt accepts to their value; any other        *)
(* segment is not an integer.                                              *)
(***************************************************************************)
EXTENDS HclDocument
LOCAL SX == INSTANCE SequencesExt
LOCAL INSTANCE TLC

CONSTANT IntSeg

Ok == "ok"

Out(h, e) == [h |-> h, err |-> e]

NodeT(x)  == [k |-> "node", id |-> x]
GroupT(s) == [k |-> "group", ids |-> s]

Fail(e) == [err |-> e, tgt |-> NodeT(NoNode), par |-> NoNode]

-----------------------------------------------------------------------------
(* Matching of blocks and object keys.                                     *)

\* The switch on Blocks[j].Type: a dynamic block is matched by its first
\* label, any other block by its type.
BlockMatches(h, blk, seg) ==
    IF h[blk].type = Dynamic THEN h[blk].label = seg ELSE h[blk].type = seg

\* A dynamic block without labels: Labels[0] panics when a loop's switch
\* reaches it.  A value block has no labels (buildValue's schema names
\* none), so every block Add or Set appends at /dynamic is one.
Unlabelled(h, blk) == h[blk].type = Dynamic /\ h[blk].label = NoLabel

\* A loop over all of body b's blocks (Search 65-75, Replace 292-303,
\* Remove 407-417, Set 529-540) panics.
ScanPanics(h, b) == \E j \in DOMAIN h[b].blocks : Unlabelled(h, h[b].blocks[j])

\* Add's loop (169-180) returns at the first block seg names, so it
\* panics only on an unlabelled dynamic block before that one.
AddScanPanics(h, b, seg) ==
    \E j \in DOMAIN h[b].blocks :
        /\ Unlabelled(h, h[b].blocks[j])
        /\ \A k \in 1..j - 1 : ~BlockMatches(h, h[b].blocks[k], seg)

\* Blocks[j].Body.Blocks[0].Body for a dynamic block, Blocks[j].Body otherwise.
ContentBody(h, blk) ==
    IF h[blk].type = Dynamic THEN h[h[h[blk].body].blocks[1]].body
    ELSE h[blk].body

\* Variant of ContentHolder without the dynamic case.
ContentHolderNoUnwrap(h, blk) == blk

\* The handle whose .body field is the content of blk.
ContentHolder(h, blk) ==
    IF h[blk].type = Dynamic THEN h[h[blk].body].blocks[1] ELSE blk

\* hcl.AbsTraversalForExpr(KeyExpr) succeeds, is absolute and names seg:
\* only a bare identifier key, never a quoted one.
KeyIs(item, seg) == ~item.quoted /\ item.key = seg

FirstKey(items, seg) == SX!SelectInSeq(items, LAMBDA it : KeyIs(it, seg))
LastKey(items, seg)  == SX!SelectLastInSeq(items, LAMBDA it : KeyIs(it, seg))

\* The bodies of the blocks of body b that seg names, in order.
Group(h, b, seg) ==
    LET bs == SelectSeq(h[b].blocks, LAMBDA blk : BlockMatches(h, blk, seg))
    IN  [i \in DOMAIN bs |-> ContentBody(h, bs[i])]

\* strconv.ParseInt(seg), with -1 standing for the last of n elements.
\* Result .i is the 0-based index the code then uses.
Index(seg, n) ==
    IF seg \notin DOMAIN IntSeg THEN [err |-> "InvalidIndexer", i |-> 0]
    ELSE [err |-> Ok, i |-> IF IntSeg[seg] = -1 THEN n - 1 ELSE IntSeg[seg]]

\* The bounds check len-1 < idx, then the slice access that panics on a
\* negative index.
Checked(ix, n) ==
    CASE ix.err # Ok   -> ix
      [] n - 1 < ix.i  -> [ix EXCEPT !.err = "PathNotFound"]
      [] ix.i < 0      -> [ix EXCEPT !.err = "Panic"]
      [] OTHER         -> ix

-----------------------------------------------------------------------------
(* Search: all segments but the last.                                      *)

RECURSIVE Walk(_, _, _, _, _)
Walk(h, path, i, tgt, par) ==
    IF i = Len(path) THEN [err |-> Ok, tgt |-> tgt, par |-> par]
    ELSE LET seg == path[i] IN
    IF tgt.k = "group"
    THEN LET ix == Checked(Index(seg, Len(tgt.ids)), Len(tgt.ids))
         IN  IF ix.err # Ok THEN Fail(ix.err)
             ELSE Walk(h, path, i + 1, NodeT(tgt.ids[ix.i + 1]), par)
    ELSE LET x == tgt.id IN
    CASE Kind(h, x) = "body" ->
            IF seg \in DOMAIN AttrMap(h, x)
            THEN Walk(h, path, i + 1, NodeT(h[AttrMap(h, x)[seg]].expr), x)
            ELSE IF ScanPanics(h, x) THEN Fail("Panic")
            ELSE LET g == Group(h, x, seg)
                 IN  IF g = <<>> THEN Fail("PathNotFound")
                     ELSE Walk(h, path, i + 1, GroupT(g), x)
      [] Kind(h, x) = "object" ->
            LET j == FirstKey(h[x].items, seg)
            IN  IF j = 0 THEN Fail("PathNotFound")
                ELSE Walk(h, path, i + 1, NodeT(h[x].items[j].val), x)
      [] Kind(h, x) = "tuple" ->
            LET ix == Checked(Index(seg, Len(h[x].exprs)), Len(h[x].exprs))
            IN  IF ix.err # Ok THEN Fail(ix.err)
                ELSE Walk(h, path, i + 1, NodeT(h[x].exprs[ix.i + 1]), x)
      [] OTHER -> Fail("InvalidTarget")

Search(h, root, path) == Walk(h, path, 1, NodeT(root), NoNode)

-----------------------------------------------------------------------------
(* Heap updates shared by the operations.                                  *)

\* t.Attributes[name] = &hclsyntax.Attribute{Expr: e}: a new Attribute.
NewAttr(h, b, name, e) ==
    LET h1 == Append(h, [kind |-> "attr", expr |-> e])
    IN  [h1 EXCEPT ![h1[b].attrs].m = (name :> Len(h1)) @@ @]

\* t.Blocks = append(t.Blocks, &hclsyntax.Block{Type: seg, Body: value body}).
NewBlock(h, b, seg, val) ==
    LET h1 == Append(h, [kind |-> "block", type |-> seg, label |-> val.label,
                         body |-> val.body])
    IN  [h1 EXCEPT ![b].blocks = Append(@, Len(h1))]

\* t.Attributes[seg].Expr = e: mutates the Attribute, wherever it is shared.
SetAttrExpr(h, b, seg, e) == [h EXCEPT ![AttrMap(h, b)[seg]].expr = e]

\* The blocks of body b that seg names, as handles.
MatchingBlocks(h, b, seg) ==
    {h[b].blocks[j] : j \in {j \in DOMAIN h[b].blocks :
                                 BlockMatches(h, h[b].blocks[j], seg)}}

\* Every matching block (its content block when dynamic) gets body v.
RetargetBlocks(h, b, seg, v) ==
    LET holders == {ContentHolder(h, blk) : blk \in MatchingBlocks(h, b, seg)}
    IN  [y \in DOMAIN h |-> IF y \in holders THEN [h[y] EXCEPT !.body = v]
                                             ELSE h[y]]

\* t[idx].Attributes = bd.Attributes; t[idx].Blocks = bd.Blocks: the map is
\* shared with the patch value, the block slice is copied as a header.
OverwriteBody(h, b, v) ==
    [h EXCEPT ![b].attrs = h[v].attrs, ![b].blocks = h[v].blocks]

AppendItem(h, x, seg, e) ==
    [h EXCEPT ![x].items = Append(@, [key |-> seg, quoted |-> FALSE, val |-> e])]

-----------------------------------------------------------------------------
(* Add                                                                     *)

\* Add into the idx-th body of a block group: splice the value block's
\* attributes one by one (Go map order), failing at the first that exists,
\* then append its blocks.
AddToGroup(h, ids, seg, val) ==
    IF val.kind # "block" THEN {Out(h, "KindMismatch")}
    ELSE LET ix == Checked(Index(seg, Len(ids)), Len(ids)) IN
    IF ix.err # Ok THEN {Out(h, ix.err)}
    ELSE LET b     == ids[ix.i + 1]
             vm    == AttrMap(h, val.body)
             fresh == DOMAIN vm \ DOMAIN AttrMap(h, b)
             Put(S) == [h EXCEPT ![h[b].attrs].m = [k \in S |-> vm[k]] @@ @]
         IN  IF DOMAIN vm \subseteq fresh
             THEN {Out([Put(fresh) EXCEPT ![b].blocks = @ \o h[val.body].blocks], Ok)}
             ELSE {Out(Put(S), "AlreadyExists") : S \in SUBSET fresh}

\* Variant of AddToBody without the t.Attributes[seg] != nil check.
AddToBodyNoCheck(h, x, seg, val) ==
    IF val.kind = "attr" THEN {Out(NewAttr(h, x, seg, val.expr), Ok)}
    ELSE IF AddScanPanics(h, x, seg) THEN {Out(h, "Panic")}
    ELSE IF MatchingBlocks(h, x, seg) # {} THEN {Out(h, "AlreadyExists")}
         ELSE {Out(NewBlock(h, x, seg, val), Ok)}

\* Add at a body: a new attribute, or a new block, unless one of that name
\* exists (attributes and blocks are checked separately).
AddToBody(h, x, seg, val) ==
    IF val.kind = "attr"
    THEN IF seg \in DOMAIN AttrMap(h, x) THEN {Out(h, "AlreadyExists")}
         ELSE {Out(NewAttr(h, x, seg, val.expr), Ok)}
    ELSE IF AddScanPanics(h, x, seg) THEN {Out(h, "Panic")}
    ELSE IF MatchingBlocks(h, x, seg) # {} THEN {Out(h, "AlreadyExists")}
         ELSE {Out(NewBlock(h, x, seg, val), Ok)}

Add(h, root, path, val) ==
    LET s   == Search(h, root, path)
        seg == SX!Last(path)
        x   == s.tgt.id
    IN
    CASE s.err # Ok -> {Out(h, s.err)}
      [] s.tgt.k = "group" -> AddToGroup(h, s.tgt.ids, seg, val)
      [] Kind(h, x) = "body" -> AddToBody(h, x, seg, val)
      [] Kind(h, x) = "object" ->
            CASE val.kind # "attr"               -> {Out(h, "KindMismatch")}
              [] FirstKey(h[x].items, seg) # 0   -> {Out(h, "AlreadyExists")}
              [] OTHER -> {Out(AppendItem(h, x, seg, val.expr), Ok)}
      [] Kind(h, x) = "tuple" ->
            CASE val.kind # "attr"               -> {Out(h, "KindMismatch")}
              [] seg \notin DOMAIN IntSeg        -> {Out(h, "InvalidIndexer")}
              [] IntSeg[seg] # -1                -> {Out(h, "IllegalIndex")}
              [] OTHER -> {Out([h EXCEPT ![x].exprs = Append(@, val.expr)], Ok)}
      [] OTHER -> {Out(h, "InvalidTarget")}

-----------------------------------------------------------------------------
(* Replace                                                                 *)

\* Replace (and Set) on the idx-th body of a block group.
OverwriteInGroup(h, ids, seg, val) ==
    IF val.kind # "block" THEN {Out(h, "KindMismatch")}
    ELSE LET ix == Checked(Index(seg, Len(ids)), Len(ids))
         IN  IF ix.err # Ok THEN {Out(h, ix.err)}
             ELSE {Out(OverwriteBody(h, ids[ix.i + 1], val.body), Ok)}

\* Replace at a body: the attribute's expression, or the body of every
\* matching block, when there is one.
ReplaceInBody(h, x, seg, val) ==
    IF val.kind = "attr"
    THEN IF seg \notin DOMAIN AttrMap(h, x) THEN {Out(h, "PathNotFound")}
         ELSE {Out(SetAttrExpr(h, x, seg, val.expr), Ok)}
    ELSE IF ScanPanics(h, x) THEN {Out(h, "Panic")}
    ELSE IF MatchingBlocks(h, x, seg) = {} THEN {Out(h, "PathNotFound")}
         ELSE {Out(RetargetBlocks(h, x, seg, val.body), Ok)}

Replace(h, root, path, val) ==
    LET s   == Search(h, root, path)
        seg == SX!Last(path)
        x   == s.tgt.id
    IN
    CASE s.err # Ok -> {Out(h, s.err)}
      [] s.tgt.k = "group" -> OverwriteInGroup(h, s.tgt.ids, seg, val)
      [] Kind(h, x) = "body" -> ReplaceInBody(h, x, seg, val)
      [] Kind(h, x) = "object" ->
            LET j == LastKey(h[x].items, seg) IN
            CASE val.kind # "attr" -> {Out(h, "KindMismatch")}
              [] j = 0             -> {Out(h, "PathNotFound")}
              [] OTHER -> {Out([h EXCEPT ![x].items[j].val = val.expr], Ok)}
      [] Kind(h, x) = "tuple" ->
            LET ix == Checked(Index(seg, Len(h[x].exprs)), Len(h[x].exprs)) IN
            CASE val.kind # "attr" -> {Out(h, "KindMismatch")}
              [] ix.err # Ok       -> {Out(h, ix.err)}
              [] OTHER -> {Out([h EXCEPT ![x].exprs[ix.i + 1] = val.expr], Ok)}
      [] OTHER -> {Out(h, "InvalidTarget")}

-----------------------------------------------------------------------------
(* Remove                                                                  *)

\* Remove of the idx-th body of a group: rebuild the parent's block list.
\* The switch has no default case, so a block of any other type is not
\* kept either.
KeptByGroupRemove(h, blk, pSeg, victim) ==
    CASE h[blk].type = Dynamic -> h[blk].label # pSeg \/ ContentBody(h, blk) # victim
      [] h[blk].type = pSeg    -> h[blk].body # victim
      [] OTHER                 -> FALSE

RemoveFromGroup(h, ids, path, parent) ==
    LET ix == Checked(Index(SX!Last(path), Len(ids)), Len(ids))
        victim == ids[ix.i + 1]
        pSeg   == path[Len(path) - 1]
    IN  IF ix.err # Ok THEN {Out(h, ix.err)}
        ELSE {Out([h EXCEPT ![parent].blocks =
                     SelectSeq(@, LAMBDA blk : KeptByGroupRemove(h, blk, pSeg, victim))],
                  Ok)}

\* Variant of RemoveFromTuple that cuts at idx-1 (a 1-based slip).
RemoveFromTupleOffByOne(h, x, seg) ==
    LET ix == Checked(Index(seg, Len(h[x].exprs)), Len(h[x].exprs))
    IN  IF ix.err # Ok THEN {Out(h, ix.err)}
        ELSE {Out([h EXCEPT ![x].exprs = SX!RemoveAt(@, ix.i)], Ok)}

\* Remove of the idx-th element of a tuple.
RemoveFromTuple(h, x, seg) ==
    LET ix == Checked(Index(seg, Len(h[x].exprs)), Len(h[x].exprs))
    IN  IF ix.err # Ok THEN {Out(h, ix.err)}
        ELSE {Out([h EXCEPT ![x].exprs = SX!RemoveAt(@, ix.i + 1)], Ok)}

Remove(h, root, path) ==
    LET s   == Search(h, root, path)
        seg == SX!Last(path)
        x   == s.tgt.id
    IN
    CASE s.err # Ok -> {Out(h, s.err)}
      [] s.tgt.k = "group" -> RemoveFromGroup(h, s.tgt.ids, path, s.par)
      [] Kind(h, x) = "body" ->
            IF seg \in DOMAIN AttrMap(h, x)
            THEN {Out([h EXCEPT ![h[x].attrs].m =
                         [n \in DOMAIN @ \ {seg} |-> @[n]]], Ok)}
            ELSE IF ScanPanics(h, x) THEN {Out(h, "Panic")}
            ELSE {Out([h EXCEPT ![x].blocks =
                         SelectSeq(@, LAMBDA blk : ~BlockMatches(h, blk, seg))], Ok)}
      [] Kind(h, x) = "object" ->
            LET j == FirstKey(h[x].items, seg)
            IN  IF j = 0 THEN {Out(h, "PathNotFound")}
                ELSE {Out([h EXCEPT ![x].items = SX!RemoveAt(@, j)], Ok)}
      [] Kind(h, x) = "tuple" -> RemoveFromTuple(h, x, seg)
      [] OTHER -> {Out(h, "InvalidTarget")}

-----------------------------------------------------------------------------
(* Set                                                                     *)

Set(h, root, path, val) ==
    LET s   == Search(h, root, path)
        seg == SX!Last(path)
        x   == s.tgt.id
    IN
    CASE s.err # Ok -> {Out(h, s.err)}
      [] s.tgt.k = "group" -> OverwriteInGroup(h, s.tgt.ids, seg, val)
      [] Kind(h, x) = "body" ->
            IF val.kind = "attr"
            THEN IF seg \notin DOMAIN AttrMap(h, x)
                 THEN {Out(NewAttr(h, x, seg, val.expr), Ok)}
                 ELSE {Out(SetAttrExpr(h, x, seg, val.expr), Ok)}
            ELSE IF ScanPanics(h, x) THEN {Out(h, "Panic")}
            ELSE IF MatchingBlocks(h, x, seg) = {}
            THEN {Out(NewBlock(h, x, seg, val), Ok)}
            ELSE {Out(RetargetBlocks(h, x, seg, val.body), Ok)}
      [] Kind(h, x) = "object" ->
            LET j == LastKey(h[x].items, seg) IN
            CASE val.kind # "attr" -> {Out(h, "KindMismatch")}
              [] j = 0 -> {Out(AppendItem(h, x, seg, val.expr), Ok)}
              [] OTHER -> {Out([h EXCEPT ![x].items[j].val = val.expr], Ok)}
      [] Kind(h, x) = "tuple" ->
            LET n  == Len(h[x].exprs)
                ix == Index(seg, n)
            IN
            CASE val.kind # "attr" -> {Out(h, "KindMismatch")}
              [] ix.err # Ok       -> {Out(h, ix.err)}
              [] n - 1 < ix.i      -> {Out([h EXCEPT ![x].exprs = Append(@, val.expr)], Ok)}
              [] ix.i < 0          -> {Out(h, "Panic")}
              [] OTHER -> {Out([h EXCEPT ![x].exprs[ix.i + 1] = val.expr], Ok)}
      [] OTHER -> {Out(h, "InvalidTarget")}

-----------------------------------------------------------------------------
(* The tokenizer: NewJSONPointerPathOperator and TokenizeJSONPointerPath   *)
(* (26-33, 643-665).  A path string is a sequence of atoms: "/", "~", and  *)
(* runs of other characters ("tags", "0", "1", "-1"); a decoded value is   *)
(* such a sequence too, and Segment concatenates it into the string Search *)
(* compares with keys and block types.                                     *)

\* strings.Split(path, "/"): n separators give n + 1 pieces.
SplitPath(p) ==
    SX!FoldLeft(LAMBDA ps, c : IF c = "/" THEN Append(ps, <<>>)
                               ELSE [ps EXCEPT ![Len(ps)] = Append(@, c)],
                <<<<>>>>, p)

\* Replacing every "~" followed by a by r, left to right.
RECURSIVE ReplaceTilde(_, _, _)
ReplaceTilde(s, a, r) ==
    IF Len(s) < 2 THEN s
    ELSE IF s[1] = "~" /\ s[2] = a THEN <<r>> \o ReplaceTilde(SubSeq(s, 3, Len(s)), a, r)
    ELSE <<s[1]>> \o ReplaceTilde(Tail(s), a, r)

\* Unescaping "~0" before "~1", so that "~01" becomes "/".
UnescapeZeroFirst(s) == ReplaceTilde(ReplaceTilde(s, "0", "~"), "1", "/")

\* strings.NewReplacer("~1", "/", "~0", "~").Replace: one pass from the
\* left, trying both patterns at each position.
RECURSIVE Unescape(_)
Unescape(s) ==
    IF Len(s) < 2 THEN s
    ELSE IF s[1] = "~" /\ s[2] \in {"0", "1"}
         THEN <<IF s[2] = "1" THEN "/" ELSE "~">> \o Unescape(SubSeq(s, 3, Len(s)))
    ELSE <<s[1]>> \o Unescape(Tail(s))

\* TokenizeJSONPointerPath: fewer than two pieces give no token; otherwise
\* the first piece is dropped, whatever it holds.
TokenizeJSONPointerPath(p) ==
    LET ps == SplitPath(p) IN
    IF Len(ps) < 2 THEN <<>>
    ELSE [i \in 1..Len(ps) - 1 |-> [raw |-> ps[i + 1], value |-> Unescape(ps[i + 1])]]

\* NewJSONPointerPathOperator: no token is an invalid path.
NewJSONPointerPathOperator(p) ==
    LET tks == TokenizeJSONPointerPath(p) IN
    IF tks = <<>> THEN [err |-> "InvalidPath"] ELSE [err |-> Ok, tks |-> tks]

\* The string a decoded token value spells.
Segment(v) == SX!FoldLeft(LAMBDA a, c : a \o c, "", v)

\* The segments Search, Add, Replace, Remove and Set walk.
Segments(tks) == [i \in DOMAIN tks |-> Segment(tks[i].value)]

\* RFC 6901 (section 4): a reference token is decoded by turning every
\* "~1" into "/" and then every "~0" into "~"; "~" must be followed by 0
\* or 1.  spec.md (PointerPath): a path begins with "/" and has at least
\* one segment.
WellEscaped(p) == \A i \in DOMAIN p : p[i] = "~" => i < Len(p) /\ p[i + 1] \in {"0", "1"}
RFCPointer(p)  == Len(p) > 1 /\ p[1] = "/" /\ WellEscaped(p)
RFCSegments(p) ==
    LET ps == SplitPath(SubSeq(p, 2, Len(p))) IN
    [i \in DOMAIN ps |-> Segment(ReplaceTilde(ReplaceTilde(ps[i], "1", "/"), "0", "~"))]

=============================================================================
