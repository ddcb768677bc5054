------------------------------- MODULE Writer -------------------------------
(***************************************************************************)
(* terraform.Write (pkg/terraform/write.go) printing the loaded, merged    *)
(* and patched root module into main.tf, with hclwrite's AppendHCLBody     *)
(* (staging/hcl/hclwrite/ast_body_ext.go) and fromHCLTokens                *)
(* (write_tokens.go).  Write appends one section after the other to one    *)
(* hclwrite file body; each section copies a Go map into a slice and sorts *)
(* it with sort.Slice by (file, line), so declarations with equal keys     *)
(* come out in any order.                                                  *)
(*                                                                         *)
(* A body is [kind, attrs, blocks]: kind "native" (an hclsyntax.Body) or  *)
(* "json"; attrs a set of [name, file, line, expr]; blocks a sequence of   *)
(* [type, labels, body].  A written block is [type, labels, attrs, blocks, *)
(* raw]: attrs a sequence of [name, toks], raw the tokens copied verbatim. *)
(***************************************************************************)
EXTENDS Integers, Sequences, FiniteSets, TLC, HclTokens

LOCAL SQ == INSTANCE SequencesExt

CONSTANTS Modules,       \* the root modules Write can be given
          FileOrder,     \* the configuration files, in lexical order
          ExprLib,       \* the expressions an attribute can hold
          Envs           \* the environments expressions are evaluated in

VARIABLES mod,           \* cfg.Root.Module
          out,           \* the top-level blocks of wf.Body() so far
          pc,            \* the section Write is at, "done" or "failed"
          flushed        \* whether wf.WriteTo has written the file

vars == <<mod, out, pc, flushed>>

Sections == <<"terraform", "provider", "variable", "locals", "resource", "data",
              "module", "output", "flush">>

NoBlock == [type |-> "none"]

Quoted(s) == <<OQuote, s, CQuote>>

WBlock(type, labels, attrs, blocks) ==
    [type |-> type, labels |-> labels, attrs |-> attrs, blocks |-> blocks, raw |-> <<>>]

\* fromHCLTokens: the tokens copied, the trailing newline dropped if asked.
FromHCLTokens(ts, skipNewline) ==
    IF skipNewline /\ ts # <<>> /\ ts[Len(ts)] = "\n" THEN SubSeq(ts, 1, Len(ts) - 1) ELSE ts

\* A setter that appends an attribute even when the body has one of that
\* name.
SetAttributeAppend(as, n, toks) == Append(as, [name |-> n, toks |-> toks])

\* Body.SetAttributeValue / SetAttributeRaw: an attribute of that name is
\* given the new tokens in place, otherwise one is appended.
SetAttribute(as, n, toks) ==
    IF \E i \in DOMAIN as : as[i].name = n
    THEN LET i == CHOOSE i \in DOMAIN as : as[i].name = n
         IN  [as EXCEPT ![i].toks = toks]
    ELSE Append(as, [name |-> n, toks |-> toks])

\* The sort.Slice comparator: by file name, then by line.
FileRank(f) == CHOOSE i \in DOMAIN FileOrder : FileOrder[i] = f
Before(a, b) == \/ FileRank(a.file) < FileRank(b.file)
                \/ FileRank(a.file) = FileRank(b.file) /\ a.line <= b.line

\* The orders sort.Slice can leave a set of declarations in: sorted, with
\* equal keys in whatever order the map iteration gave them.
SortedOrders(S) == {s \in SQ!SetToSeqs(S) : SQ!IsSorted(s, Before)}

\* Any order: a range over a Go map with no sort.
MapOrders(S) == SQ!SetToSeqs(S)

-----------------------------------------------------------------------------
(* AppendHCLBody                                                           *)

\* The attributes of a native body sorted by (file, line) (24-37).
SortedAttrs(body) == SortSeq(SQ!SetToSeq(body.attrs), Before)

\* AppendHCLBody(body) on a written body [attrs, blocks]: nothing for a
\* body that is not an hclsyntax.Body (15-22); otherwise every attribute is
\* set to the tokens of its expression, in source order (38-40), and every
\* block appended with its own body appended in turn (42-45).
RECURSIVE AppendHCLBody(_, _)
AppendHCLBody(wb, body) ==
    IF body.kind # "native" THEN wb
    ELSE LET sa == SortedAttrs(body)
             as == SQ!FoldLeft(LAMBDA acc, a : SetAttribute(acc, a.name, TokensForExpression(a.expr)),
                               wb.attrs, sa)
             nb == [i \in DOMAIN body.blocks |->
                      AppendHCLBody(WBlock(body.blocks[i].type, body.blocks[i].labels, <<>>, <<>>),
                                    body.blocks[i].body)]
         IN  [wb EXCEPT !.attrs = as, !.blocks = wb.blocks \o nb]

-----------------------------------------------------------------------------
(* The sections of Write                                                   *)

RawBlock(kw, name, toks) ==
    [type |-> kw, labels |-> <<name>>, attrs |-> <<>>, blocks |-> <<>>, raw |-> toks]

\* A section appends the blocks F gives for the declarations of S, in an
\* order sort.Slice can produce.
WriteSorted(S, F(_)) ==
    \E o \in SortedOrders(S) : out' = out \o [i \in DOMAIN o |-> F(o[i])]

Step(from, to) == pc = from /\ pc' = to /\ UNCHANGED <<mod, flushed>>

\* required_providers: an entry with neither source nor version is left
\* out (75-86); the others become an object value (88).
RequiredProvider(acc, rp) ==
    IF rp.source = "" /\ rp.version = "" THEN acc
    ELSE SetAttribute(acc, rp.name,
           <<"{">> \o (IF rp.source # "" THEN <<"source", "=">> \o Quoted(rp.source) ELSE <<>>)
                   \o (IF rp.version # "" THEN <<"version", "=">> \o Quoted(rp.version) ELSE <<>>)
                   \o <<"}">>)

\* The terraform block (21-107): the first core version constraint, the
\* experiments in map order, the backend or else the cloud block, the
\* required providers in (file, line) order, the provider_meta blocks in
\* map order.
WriteSettings ==
    /\ \E eo \in MapOrders(mod.experiments), ro \in SortedOrders(mod.requiredProviders),
          mo \in MapOrders(mod.providerMetas) :
         LET a1 == IF mod.coreVersions = <<>> THEN <<>>
                   ELSE SetAttribute(<<>>, "required_version", Quoted(mod.coreVersions[1]))
             a2 == IF mod.experiments = {} THEN a1
                   ELSE SetAttribute(a1, "experiments",
                          <<"[">> \o Joined([i \in DOMAIN eo |-> Quoted(eo[i])], ",") \o <<"]">>)
             bc == CASE mod.backend # NoBlock ->
                          <<AppendHCLBody(WBlock("backend", <<mod.backend.type>>, <<>>, <<>>), mod.backend.body)>>
                     [] mod.cloud # NoBlock ->
                          <<AppendHCLBody(WBlock("cloud", <<>>, <<>>, <<>>), mod.cloud.body)>>
                     [] OTHER -> <<>>
             rp == IF mod.requiredProviders = {} THEN <<>>
                   ELSE <<WBlock("required_providers", <<>>, SQ!FoldLeft(RequiredProvider, <<>>, ro), <<>>)>>
             pm == [i \in DOMAIN mo |->
                      AppendHCLBody(WBlock("provider_meta", <<mo[i].provider>>, <<>>, <<>>), mo[i].body)]
         IN  out' = Append(out, WBlock("terraform", <<>>, a2, bc \o rp \o pm))
    /\ Step("terraform", "provider")

\* provider blocks (109-138): alias and version, then the body.
ProviderBlock(p) ==
    LET a1 == IF p.alias = "" THEN <<>> ELSE SetAttribute(<<>>, "alias", Quoted(p.alias))
        a2 == IF p.version = "" THEN a1 ELSE SetAttribute(a1, "version", Quoted(p.version))
    IN  AppendHCLBody(WBlock("provider", <<p.name>>, a2, <<>>), p.body)

WriteProviders == WriteSorted(mod.providers, ProviderBlock) /\ Step("provider", "variable")

\* variable blocks (140-170): the keyword, the quoted name and the tokens
\* the parser kept for the block, copied.
WriteVariables ==
    /\ WriteSorted(mod.variables, LAMBDA v : RawBlock("variable", v.name, FromHCLTokens(v.toks, FALSE)))
    /\ Step("variable", "locals")

\* One locals block (172-197) if there are locals, each local's tokens
\* without their trailing newline.
WriteLocals ==
    /\ IF mod.locals = {} THEN UNCHANGED out
       ELSE \E o \in SortedOrders(mod.locals) :
              out' = Append(out, WBlock("locals", <<>>,
                       SQ!FoldLeft(LAMBDA acc, l : SetAttribute(acc, l.name, FromHCLTokens(l.toks, TRUE)),
                                   <<>>, o), <<>>))
    /\ Step("locals", "resource")

\* resource and data blocks (199-257): the provider reference as a
\* string, then the body.
ResourceBlock(kw, r) ==
    LET a1 == IF r.provider = "" THEN <<>> ELSE SetAttribute(<<>>, "provider", Quoted(r.provider))
    IN  AppendHCLBody(WBlock(kw, <<r.type, r.name>>, a1, <<>>), r.body)

WriteResources ==
    WriteSorted(mod.managed, LAMBDA r : ResourceBlock("resource", r)) /\ Step("resource", "data")

WriteData ==
    WriteSorted(mod.data, LAMBDA r : ResourceBlock("data", r)) /\ Step("data", "module")

\* module blocks (259-293): the source, the version constraint under the
\* name required_version, then the body.
ModuleBlock(m) ==
    LET a1 == IF m.source = "" THEN <<>> ELSE SetAttribute(<<>>, "source", Quoted(m.source))
        a2 == IF m.version = "" THEN a1 ELSE SetAttribute(a1, "required_version", Quoted(m.version))
    IN  AppendHCLBody(WBlock("module", <<m.name>>, a2, <<>>), m.body)

WriteModules == WriteSorted(mod.calls, ModuleBlock) /\ Step("module", "output")

\* output blocks (295-328), copied like variables.
WriteOutputs ==
    /\ WriteSorted(mod.outputs, LAMBDA o : RawBlock("output", o.name, FromHCLTokens(o.toks, FALSE)))
    /\ Step("output", "flush")

\* A Write that drops the error of WriteTo.
FlushIgnoringError ==
    /\ pc = "flush"
    /\ pc' = "done"
    /\ flushed' \in BOOLEAN
    /\ UNCHANGED <<mod, out>>

\* wf.WriteTo(writer) (330-332): the file is written, or the writer's
\* error is returned.
Flush ==
    /\ pc = "flush"
    /\ \/ pc' = "done" /\ flushed' = TRUE
       \/ pc' = "failed" /\ flushed' = FALSE
    /\ UNCHANGED <<mod, out>>

Init == /\ mod \in Modules
        /\ out = <<>>
        /\ pc = "terraform"
        /\ flushed = FALSE

Next == \/ WriteSettings \/ WriteProviders \/ WriteVariables \/ WriteLocals
        \/ WriteResources \/ WriteData \/ WriteModules \/ WriteOutputs \/ Flush

Spec == Init /\ [][Next]_vars

-----------------------------------------------------------------------------
(* Properties                                                              *)

TypeOK ==
    /\ mod \in Modules
    /\ pc \in {Sections[i] : i \in DOMAIN Sections} \cup {"done", "failed"}
    /\ flushed = (pc = "done")
    /\ \A i \in DOMAIN out : out[i].type \in {Sections[j] : j \in DOMAIN Sections} \ {"flush"}

\* The declarations of each kind of top-level block, and their labels.
Decls(kw) ==
    CASE kw = "provider" -> mod.providers [] kw = "variable" -> mod.variables
      [] kw = "resource" -> mod.managed   [] kw = "data"     -> mod.data
      [] kw = "module"   -> mod.calls     [] kw = "output"   -> mod.outputs
Labels(kw, d) == IF kw \in {"resource", "data"} THEN <<d.type, d.name>> ELSE <<d.name>>
Sorted == {"provider", "variable", "resource", "data", "module", "output"}

\* The written attribute names of a block, and the tokens of one.
AttrNames(wb) == {wb.attrs[i].name : i \in DOMAIN wb.attrs}
AttrToks(wb, n) == wb.attrs[CHOOSE i \in DOMAIN wb.attrs : wb.attrs[i].name = n].toks

\* A written body holds exactly the declared body: each attribute once,
\* with the tokens of its expression, and the nested blocks in order, each
\* holding its own body.
RECURSIVE BodyKept(_, _)
BodyKept(wb, body) ==
    /\ Len(wb.attrs) = Cardinality(AttrNames(wb))
    /\ AttrNames(wb) = {a.name : a \in body.attrs}
    /\ \A a \in body.attrs : AttrToks(wb, a.name) = TokensForExpression(a.expr)
    /\ Len(wb.blocks) = Len(body.blocks)
    /\ \A i \in DOMAIN body.blocks :
          /\ wb.blocks[i].type = body.blocks[i].type
          /\ wb.blocks[i].labels = body.blocks[i].labels
          /\ BodyKept(wb.blocks[i], body.blocks[i].body)

\* When Write returns, every provider, resource, data source and module
\* call is printed exactly once, holding what its declaration holds (its
\* meta-arguments are attributes of its body), and every variable and
\* output is printed once with its tokens: Write's per-kind setters
\* together with AppendHCLBody's copy of attributes and nested blocks
\* lose, add or duplicate nothing.
BodiesKept ==
    pc = "done" =>
        \A kw \in Sorted :
            /\ Cardinality({i \in DOMAIN out : out[i].type = kw}) = Cardinality(Decls(kw))
            /\ \A d \in Decls(kw) :
                 \E i \in DOMAIN out :
                    /\ out[i].type = kw /\ out[i].labels = Labels(kw, d)
                    /\ IF kw \in {"variable", "output"} THEN out[i].raw = d.toks
                       ELSE BodyKept(out[i], d.body)

\* Every expression of the library, its tokens and its meaning.
LibTokens  == [e \in ExprLib |-> TokensForExpression(e)]
LibMeaning == [e \in ExprLib |-> Meaning(e, Envs)]

RECURSIVE WrittenToks(_)
WrittenToks(wb) ==
    {wb.attrs[i].toks : i \in DOMAIN wb.attrs}
        \cup UNION {WrittenToks(wb.blocks[i]) : i \in DOMAIN wb.blocks}

\* Whatever main.tf Write produced, the tokens of each attribute can be
\* read back only one way: no two expressions that mean different things
\* print the same.  Checked against tokensForExpression's handling of
\* operators, parentheses, templates and literals.
PrintedMeansOneThing ==
    pc = "done" =>
        \A i \in DOMAIN out : \A tk \in WrittenToks(out[i]) :
            Cardinality({LibMeaning[e] : e \in {x \in ExprLib : LibTokens[x] = tk}}) <= 1

\* The tokens that open an interpolation or a directive.
TemplateSeqs == {"${", "%{"}

\* Whether position i of tk is outside every quoted template.
Unquoted(tk, i) == Cardinality({j \in 1..(i - 1) : tk[j] = OQuote}) % 2 = 0

\* What Write prints into main.tf is HCL that can be read: every
\* interpolation or directive stands between quotes, and a for keyword is
\* followed by a variable name.  About TokensForTemplateWrapExpr
\* (generate_expr.go 528-542), which prints "${var.s}" as ${var.s}
\* whatever the caller's quoted flag, and TokensForForExpr (165-267),
\* which writes KeyVar even when it is empty.
PrintedParses ==
    pc = "done" =>
        \A i \in DOMAIN out : \A tk \in WrittenToks(out[i]) :
            \A j \in DOMAIN tk :
                /\ tk[j] \in TemplateSeqs => ~Unquoted(tk, j)
                /\ tk[j] = "for" /\ j < Len(tk) => tk[j + 1] \notin {"", ","}

\* main.tf, once Write returns, is the configuration terraform.Load read
\* (spec.md 69-70): every declaration printed with its whole body, every
\* expression printed so that it reads back as what it was, and nothing
\* printed that HCL cannot read.
MainTfFaithful == BodiesKept /\ PrintedMeansOneThing /\ PrintedParses

=============================================================================
