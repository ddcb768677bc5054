----------------------------- MODULE MCTapApply -----------------------------
(***************************************************************************)
(* Model-checking instance of TapApply: two managed resources of one type  *)
(* and a data resource, each with an object attribute (one quoted and one  *)
(* bare key), a two-element tuple, a static and a dynamic "ebs" block and  *)
(* a "lifecycle" block; operation libraries that reach every branch of the *)
(* operator; selectors with and without a name filter and                  *)
(* continue_on_error.                                                      *)
(***************************************************************************)
EXTENDS TapApply, TLC
LOCAL SX == INSTANCE SequencesExt

\* Trees of the HCL syntax.
Lit(v)            == [kind |-> "lit", v |-> v]
Tup(es)           == [kind |-> "tuple", exprs |-> es]
Item(k, q, v)     == [key |-> k, quoted |-> q, val |-> v]
Obj(its)          == [kind |-> "object", items |-> its]
Body(as, bs)      == [kind |-> "body", attrs |-> as, blocks |-> bs]
Blk(t, l, b)      == [kind |-> "block", type |-> t, label |-> l, body |-> b]
NoAttrs           == [n \in {} |-> Lit("none")]

\* resource "aws_instance" "a" {
\*   tags  = { "Name" = "a", env = "a" }
\*   ports = ["a", "b"]
\*   ebs { size = "a" }
\*   dynamic "ebs" { content { size = "b" } }
\*   lifecycle {}
\* }
Doc ==
    Body(("tags" :> Obj(<<Item("Name", TRUE, Lit("a")), Item("env", FALSE, Lit("a"))>>))
           @@ ("ports" :> Tup(<<Lit("a"), Lit("b")>>)),
         <<Blk("ebs", NoLabel, Body("size" :> Lit("a"), <<>>)),
           Blk(Dynamic, "ebs",
               Body(NoAttrs, <<Blk("content", NoLabel, Body("size" :> Lit("b"), <<>>))>>)),
           Blk("lifecycle", NoLabel, Body(NoAttrs, <<>>))>>)

MCRes ==
    ("aws_instance.a" :> [mode |-> "managed", type |-> "aws_instance", name |-> "a", doc |-> Doc])
 @@ ("aws_instance.b" :> [mode |-> "managed", type |-> "aws_instance", name |-> "b", doc |-> Doc])
 @@ ("data.aws_ami.c" :> [mode |-> "data", type |-> "aws_ami", name |-> "c", doc |-> Doc])

\* A configuration with managed resources only.
ManagedRes == [r \in {"aws_instance.a", "aws_instance.b"} |-> MCRes[r]]

MCIntSeg == ("-2" :> -2) @@ ("-1" :> -1) @@ ("0" :> 0) @@ ("1" :> 1) @@ ("5" :> 5)

\* Patch values: value = "z", value = { k = "z" }, value { size = "z" },
\* value { iops = "z" }, value { size = "z"  iops = "z" }.
VLit   == [kind |-> "attr", expr |-> Lit("z")]
VObj   == [kind |-> "attr", expr |-> Obj(<<Item("k", FALSE, Lit("z"))>>)]
VSize  == [kind |-> "block", label |-> NoLabel, body |-> Body("size" :> Lit("z"), <<>>)]
VIops  == [kind |-> "block", label |-> NoLabel, body |-> Body("iops" :> Lit("z"), <<>>)]
VBoth  == [kind |-> "block", label |-> NoLabel,
           body |-> Body(("size" :> Lit("z")) @@ ("iops" :> Lit("z")), <<>>)]
VNone  == [kind |-> "none"]

\* A path written as its segments: "/" before each.
RawPath(segs) == SX!FlattenSeq([i \in DOMAIN segs |-> <<"/", segs[i]>>])

OpRaw(m, raw, v) == [mode |-> m, path |-> raw, val |-> v]
Op(m, p, v)      == OpRaw(m, RawPath(p), v)

\* Selectors: every aws_instance, only "a", and the data source.
SelAll(coe) == [mode |-> "managed", types |-> {"aws_instance"}, names |-> {}, coe |-> coe]
SelA        == [mode |-> "managed", types |-> {"aws_instance"}, names |-> {"a"}, coe |-> FALSE]
SelData     == [mode |-> "data", types |-> {"aws_ami"}, names |-> {}, coe |-> TRUE]

-----------------------------------------------------------------------------
(* Libraries                                                               *)

\* Paths over every node kind and error branch, with attribute values.
AttrOps ==
    {Op(m, p, VLit) : m \in {"add", "replace", "set"},
                      p \in {<<"tags", "env">>, <<"tags", "new">>,
                             <<"ports", "-1">>, <<"ports", "5">>, <<"ports", "x">>,
                             <<"new">>, <<"tags", "env", "x">>, <<"nope", "x">>,
                             <<"ebs", "0">>, <<"ports">>}}

\* Block values at bodies and block groups.
BlockOps ==
    {Op(m, p, v) : m \in {"add", "replace", "set"},
                   p \in {<<"ebs">>, <<"lifecycle">>, <<"ebs", "1">>, <<"ebs", "5">>,
                          <<"tags", "env">>},
                   v \in {VIops}}

RemoveOps ==
    {Op("remove", p, VNone) : p \in {<<"tags", "env">>, <<"tags", "new">>,
                                     <<"ports", "-1">>, <<"ports", "5">>,
                                     <<"ebs">>, <<"ports">>, <<"ebs", "x">>,
                                     <<"tags", "env", "x">>, <<"new">>}}

\* Keys written with escapes: /tags/a~1b is the key "a/b", /tags/~01 the
\* key "~1".
EscapedOps == {OpRaw("add", <<"/", "tags", "/", "a", "~", "1", "b">>, VLit),
               OpRaw("add", <<"/", "tags", "/", "~", "0", "1">>, VLit)}

EngineOps == AttrOps \cup BlockOps \cup RemoveOps \cup EscapedOps \cup {Op("add", <<>>, VLit)}

EngineSelectors == {SelAll(TRUE), SelA, SelData}

\* Libraries of the violation runs: the smallest patch files that show
\* each disagreement.
SharedValueOps     == {Op("add", <<"new">>, VObj), Op("add", <<"new", "k2">>, VLit)}
GroupRemoveOps     == {Op("remove", <<"ebs", "0">>, VNone)}
\* A negative index, and an unlabelled dynamic block added at /dynamic
\* followed by a Remove that scans the blocks.
NegativeIndexOps   == {Op("remove", <<"ports", "-2">>, VNone),
                       Op("add", <<"dynamic">>, VSize), Op("remove", <<"ebs">>, VNone)}

StrictSelectors    == {SelAll(FALSE)}

=============================================================================
