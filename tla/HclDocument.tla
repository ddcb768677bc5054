---------------------------- MODULE HclDocument ----------------------------
(***************************************************************************)
(* The in-memory HCL syntax tree that the patch engine mutates, as a heap  *)
(* of nodes addressed by integer handles.  The Go code manipulates         *)
(* pointers to hclsyntax.Body, Attribute, Block and expressions, and Go    *)
(* maps, so two parts of the configuration can share one node; a heap     *)
(* with explicit handles keeps that sharing.                               *)
(*                                                                         *)
(* Node kinds:                                                             *)
(*   "body"   hclsyntax.Body: handle of its attribute map + block list     *)
(*   "amap"   the Go map Body.Attributes: name -> handle of an "attr"      *)
(*   "attr"   hclsyntax.Attribute: handle of its expression                *)
(*   "block"  hclsyntax.Block: type, first label, handle of its body       *)
(*   "object" hclsyntax.ObjectConsExpr: items <<key, quoted, value handle>>*)
(*   "tuple"  hclsyntax.TupleConsExpr: element handles                     *)
(*   "lit"    any other expression (literal, call, traversal ...)          *)
(*                                                                         *)
(* Slices (block lists, items, elements) are values inside their node:     *)
(* the code never shares one backing array between two nodes except by     *)
(* the header copy in a block-group replace, see README.                   *)
(*                                                                         *)
(* Trees ("denotations") use the same kinds without handles; they describe *)
(* initial documents and patch values and are what the properties compare. *)
(***************************************************************************)
EXTENDS Integers, Sequences, FiniteSets
LOCAL SX == INSTANCE SequencesExt

\* The block type that stands for another block type (hclsyntax "dynamic").
Dynamic == "dynamic"

\* The label of a block written without labels.
NoLabel == ""

\* Handle 0 is never allocated; it is the nil pointer.
NoNode == 0

Kind(h, x) == h[x].kind

\* The attribute map of a body.
AttrMap(h, b) == h[h[b].attrs].m

-----------------------------------------------------------------------------
(* Allocation of a tree into the heap: returns the new heap and the handle *)
(* of the tree's root.  Used for the initial document and for the values   *)
(* the loader parses from the patch file.                                  *)

RECURSIVE Alloc(_, _), AllocAll(_, _)

AllocAll(h, ts) ==
    IF ts = <<>> THEN [h |-> h, ids |-> <<>>]
    ELSE LET a    == Alloc(h, Head(ts))
             rest == AllocAll(a.h, Tail(ts))
         IN  [h |-> rest.h, ids |-> <<a.id>> \o rest.ids]

Alloc(h, t) ==
    CASE t.kind = "lit" ->
            [h |-> Append(h, t), id |-> Len(h) + 1]
      [] t.kind = "tuple" ->
            LET es == AllocAll(h, t.exprs)
            IN  [h |-> Append(es.h, [kind |-> "tuple", exprs |-> es.ids]),
                 id |-> Len(es.h) + 1]
      [] t.kind = "object" ->
            LET vs == AllocAll(h, [i \in DOMAIN t.items |-> t.items[i].val])
                it == [i \in DOMAIN t.items |-> [t.items[i] EXCEPT !.val = vs.ids[i]]]
            IN  [h |-> Append(vs.h, [kind |-> "object", items |-> it]),
                 id |-> Len(vs.h) + 1]
      [] t.kind = "block" ->
            LET bd == Alloc(h, t.body)
            IN  [h |-> Append(bd.h, [t EXCEPT !.body = bd.id]),
                 id |-> Len(bd.h) + 1]
      [] t.kind = "body" ->
            LET names == SX!SetToSeq(DOMAIN t.attrs)
                es    == AllocAll(h, [i \in DOMAIN names |-> t.attrs[names[i]]])
                h1    == es.h \o [i \in DOMAIN names |->
                                     [kind |-> "attr", expr |-> es.ids[i]]]
                m     == [n \in DOMAIN t.attrs |->
                            Len(es.h) + CHOOSE i \in DOMAIN names : names[i] = n]
                h2    == Append(h1, [kind |-> "amap", m |-> m])
                bs    == AllocAll(h2, t.blocks)
            IN  [h |-> Append(bs.h, [kind |-> "body", attrs |-> Len(h2),
                                     blocks |-> bs.ids]),
                 id |-> Len(bs.h) + 1]

\* Node n with every handle it holds moved up by d: a tree allocated into
\* an empty heap, placed after d existing nodes.
Relocate(n, d) ==
    CASE n.kind = "lit"    -> n
      [] n.kind = "tuple"  -> [n EXCEPT !.exprs = [i \in DOMAIN @ |-> @[i] + d]]
      [] n.kind = "object" -> [n EXCEPT !.items = [i \in DOMAIN @ |-> [@[i] EXCEPT !.val = @ + d]]]
      [] n.kind = "block"  -> [n EXCEPT !.body = @ + d]
      [] n.kind = "attr"   -> [n EXCEPT !.expr = @ + d]
      [] n.kind = "amap"   -> [n EXCEPT !.m = [a \in DOMAIN @ |-> @[a] + d]]
      [] n.kind = "body"   -> [n EXCEPT !.attrs = @ + d,
                                        !.blocks = [i \in DOMAIN @ |-> @[i] + d]]

\* Handle y is allocated and its node has one of the kinds K.
Is(h, y, K) == y \in DOMAIN h /\ h[y].kind \in K

ExprKinds == {"lit", "tuple", "object"}

\* Every handle has the kind its Go field's type allows, and a dynamic
\* block has the labels and the content block the code dereferences
\* (Labels[0], Body.Blocks[0]).
WellFormed(h) ==
    \A x \in DOMAIN h :
        LET n == h[x] IN
        CASE n.kind = "tuple"  -> \A i \in DOMAIN n.exprs : Is(h, n.exprs[i], ExprKinds)
          [] n.kind = "object" -> \A i \in DOMAIN n.items : Is(h, n.items[i].val, ExprKinds)
          [] n.kind = "attr"   -> Is(h, n.expr, ExprKinds)
          [] n.kind = "amap"   -> \A a \in DOMAIN n.m : Is(h, n.m[a], {"attr"})
          [] n.kind = "body"   -> /\ Is(h, n.attrs, {"amap"})
                                 /\ \A i \in DOMAIN n.blocks : Is(h, n.blocks[i], {"block"})
          [] n.kind = "block"  -> /\ Is(h, n.body, {"body"})
                                 /\ n.type = Dynamic =>
                                       /\ n.label # NoLabel
                                       /\ h[n.body].blocks # <<>>
          [] OTHER             -> n.kind = "lit"

-----------------------------------------------------------------------------
(* The tree a handle denotes: what the writer would print for it.          *)

RECURSIVE Den(_, _)
Den(h, x) ==
    LET n == h[x] IN
    CASE n.kind = "lit" -> n
      [] n.kind = "tuple" ->
            [kind |-> "tuple", exprs |-> [i \in DOMAIN n.exprs |-> Den(h, n.exprs[i])]]
      [] n.kind = "object" ->
            [kind |-> "object",
             items |-> [i \in DOMAIN n.items |->
                          [n.items[i] EXCEPT !.val = Den(h, n.items[i].val)]]]
      [] n.kind = "block" -> [n EXCEPT !.body = Den(h, n.body)]
      [] n.kind = "body" ->
            [kind |-> "body",
             attrs |-> [a \in DOMAIN h[n.attrs].m |-> Den(h, h[h[n.attrs].m[a]].expr)],
             blocks |-> [i \in DOMAIN n.blocks |-> Den(h, n.blocks[i])]]

(* Handles reachable from x (x included).                                  *)
RECURSIVE Reach(_, _)
Reach(h, x) ==
    LET n    == h[x]
        kids == CASE n.kind = "lit"    -> {}
                  [] n.kind = "tuple"  -> SX!Range(n.exprs)
                  [] n.kind = "object" -> {n.items[i].val : i \in DOMAIN n.items}
                  [] n.kind = "block"  -> {n.body}
                  [] n.kind = "attr"   -> {n.expr}
                  [] n.kind = "amap"   -> SX!Range(n.m)
                  [] n.kind = "body"   -> {n.attrs} \cup SX!Range(n.blocks)
    IN  {x} \cup UNION {Reach(h, k) : k \in kids}

(* Tree a is contained in tree b: everything a has, b has at the same      *)
(* place (attributes by name, list elements by position as a prefix).      *)
RECURSIVE Embeds(_, _)
Embeds(a, b) ==
    /\ a.kind = b.kind
    /\ CASE a.kind = "lit" -> a = b
         [] a.kind = "tuple" ->
               /\ Len(a.exprs) <= Len(b.exprs)
               /\ \A i \in DOMAIN a.exprs : Embeds(a.exprs[i], b.exprs[i])
         [] a.kind = "object" ->
               /\ Len(a.items) <= Len(b.items)
               /\ \A i \in DOMAIN a.items :
                     /\ a.items[i].key = b.items[i].key
                     /\ a.items[i].quoted = b.items[i].quoted
                     /\ Embeds(a.items[i].val, b.items[i].val)
         [] a.kind = "block" ->
               /\ a.type = b.type /\ a.label = b.label
               /\ Embeds(a.body, b.body)
         [] a.kind = "body" ->
               /\ DOMAIN a.attrs \subseteq DOMAIN b.attrs
               /\ \A n \in DOMAIN a.attrs : Embeds(a.attrs[n], b.attrs[n])
               /\ Len(a.blocks) <= Len(b.blocks)
               /\ \A i \in DOMAIN a.blocks : Embeds(a.blocks[i], b.blocks[i])

=============================================================================
