------------------------------ MODULE MCWriter ------------------------------
(***************************************************************************)
(* Model-checking instance of Writer.  The root module:                    *)
(*   versions.tf   required_providers null {}                              *)
(*   main.tf       terraform { required_version, experiments, backend "s3",*)
(*                             required_providers aws, provider_meta aws } *)
(*                 provider "aws" { region }, provider "aws" { alias }     *)
(*                 variable "s", locals { x }                              *)
(*                 resource "aws_instance" "a" { provider, name = E,       *)
(*                                               ebs { size } }            *)
(*                 data "aws_ami" "c", module "vpc", output "id"           *)
(*   a.tf          resource "aws_instance" "b" (a later line than "a")     *)
(*   variables.tf  variable "n" (line 1)                                   *)
(* where E is any expression of the library.                               *)
(***************************************************************************)
EXTENDS Writer

\* Expressions.
Lit(v)         == [k |-> "lit", v |-> v]
N(n)           == Lit(Num(n))
S(s)           == Lit(Str(s))
Tr(root, attr) == [k |-> "trav", root |-> root, attr |-> attr]
V(attr)        == Tr("var", attr)
B(op, l, r)    == [k |-> "bin", op |-> op, l |-> l, r |-> r]
U(op, x)       == [k |-> "un", op |-> op, e |-> x]
P(x)           == [k |-> "paren", e |-> x]
C(c, t, f)     == [k |-> "cond", c |-> c, t |-> t, f |-> f]
Call(n, as, x) == [k |-> "call", name |-> n, args |-> as, expand |-> x]
T(es)          == [k |-> "tuple", es |-> es]
Ix(c, key)     == [k |-> "index", coll |-> c, key |-> key]
Tm(ps)         == [k |-> "tmpl", parts |-> ps]
W(x)           == [k |-> "wrap", e |-> x]
L(name)        == Tr(name, "")
F(kv, vv, c, key, val, cond, g) ==
    [k |-> "for", kv |-> kv, vv |-> vv, coll |-> c, key |-> key, val |-> val, cond |-> cond, group |-> g]
It(key, val)   == [key |-> [k |-> "okey", e |-> key], val |-> val]
O(items)       == [k |-> "obj", items |-> items]
Rt(src, attr)  == [k |-> "rtrav", src |-> src, attr |-> attr]
Sp(src, each)  == [k |-> "splat", src |-> src, each |-> each]

MCEnvs == {[n |-> Num(x), b |-> Bool(y), s |-> Str("x")] : x \in {0, 2}, y \in BOOLEAN}

\* HCL's operator precedence: the trees its parser builds put a lower
\* binding operator above a higher one, associate to the left, and
\* parenthesise a conditional used as an operand.
Prec(op) == CASE op \in {"||"} -> 1 [] op \in {"&&"} -> 2 [] op \in {"==", "!="} -> 3
              [] op \in {"<", ">", "<=", ">="} -> 4 [] op \in {"+", "-"} -> 5
              [] op \in {"*", "/", "%"} -> 6
Parsed(x) ==
    /\ x.k = "bin" =>
         /\ x.l.k # "cond" /\ x.r.k # "cond"
         /\ x.l.k = "bin" => Prec(x.l.op) >= Prec(x.op)
         /\ x.r.k = "bin" => Prec(x.r.op) > Prec(x.op)
    /\ x.k = "un" => x.e.k \notin {"bin", "cond"}

\* Two operators deep: nested to the left under any operator, and a
\* product nested to the right of a sum.
Atoms == {N(1), V("n")}
Ops   == {"+", "-", "*"}
Num1  == Atoms \cup {B(op, a, b) : op \in Ops, a, b \in Atoms} \cup {U("-", a) : a \in Atoms}
Num2  == {x \in {B(op, a, b) : op \in Ops, a \in Num1, b \in Atoms}
                \cup {B(op, a, B("*", b, c)) : op \in {"+", "-"}, a, b, c \in Atoms} : Parsed(x)}

\* for expressions with both variables, a condition, a key and grouping;
\* objects, an attribute of one, and a splat without a traversal after it.
Pair   == T(<<N(1), V("n")>>)
Keys   == T(<<S("p"), S("q"), S("p")>>)
ObjAN  == O(<<It(L("a"), V("n")), It(L("b"), N(1))>>)
ForObjExprs ==
    {F("i", "x", Pair, NoExpr, B("+", L("x"), L("i")), NoExpr, FALSE),
     F("i", "x", Pair, NoExpr, L("x"), B("<", L("x"), N(2)), FALSE),
     F("i", "x", Keys, L("x"), L("i"), NoExpr, TRUE),
     F("i", "x", T(<<S("p"), S("q")>>), L("x"), L("i"), NoExpr, FALSE),
     ObjAN, Rt(ObjAN, "a"), Sp(Pair, "")}

\* The passing library: arithmetic two operators deep, comparisons and
\* logic, conditionals, calls with and without expansion, tuples and
\* indexing, templates of literals and interpolated variables, if
\* directives with and without else, and a lone interpolation.
PassExprs ==
    Num2 \cup {V("b"), U("!", V("b")), B("&&", V("b"), B("<", V("n"), N(2))),
               B("||", B("&&", V("b"), V("b")), U("!", V("b"))),
               B("==", V("n"), N(2)), C(V("b"), N(1), V("n")), C(B("<", V("n"), N(1)), N(2), N(1)),
               Call("max", <<N(1), V("n")>>, FALSE), Call("min", <<N(2), B("+", V("n"), N(1))>>, FALSE),
               Call("max", <<T(<<N(1), V("n")>>)>>, TRUE), T(<<N(1), V("n")>>),
               Ix(T(<<N(1), V("n")>>), N(1)),
               Tm(<<S("x")>>), Tm(<<S("x"), V("n")>>), Tm(<<V("s"), S("-"), V("n")>>),
               Tm(<<S("x"), C(V("b"), Tm(<<S("y")>>), Tm(<<S("z")>>))>>),
               Tm(<<C(V("b"), Tm(<<S("y")>>), Tm(<<>>))>>),
               W(B("+", V("n"), N(1))), W(V("s"))}
      \cup ForObjExprs


\* (var.n + 1) * 2 next to var.n + 1 * 2.
ParenExprs == {B("*", P(B("+", V("n"), N(1))), N(2)), B("+", V("n"), B("*", N(1), N(2)))}

\* [{a = var.n}, {a = 1}][*].a next to [{a = var.n}, {a = 1}][*].
SplatExprs ==
    LET objs == T(<<O(<<It(L("a"), V("n"))>>), O(<<It(L("a"), N(1))>>)>>)
    IN  {Sp(objs, "a"), Sp(objs, "")}

\* The two ways tokensForExpression loses part of a tree.
LossyExprs == ParenExprs \cup SplatExprs

\* Declarations.
A(n, f, l, x)      == [name |-> n, file |-> f, line |-> l, expr |-> x]
NB(as, bs)         == [kind |-> "native", attrs |-> as, blocks |-> bs]
Blk(t, ls, b)      == [type |-> t, labels |-> ls, body |-> b]
Dcl(f, l, r)       == [file |-> f, line |-> l] @@ r

MCFileOrder == <<"a.tf", "a.tf.json", "main.tf", "variables.tf", "versions.tf">>

Empty ==
    [coreVersions |-> <<>>, experiments |-> {}, backend |-> NoBlock, cloud |-> NoBlock,
     requiredProviders |-> {}, providerMetas |-> {}, providers |-> {}, variables |-> {},
     locals |-> {}, managed |-> {}, data |-> {}, calls |-> {}, outputs |-> {}]

CloudOnly == [Empty EXCEPT !.cloud = [body |-> NB({A("organization", "main.tf", 3, S("o"))}, <<>>)]]

VpcCall(version) ==
    Dcl("main.tf", 60, [name |-> "vpc", source |-> "./vpc", version |-> version,
        body |-> NB({A("source", "main.tf", 61, S("./vpc")), A("cidr", "main.tf", 63, S("10.0.0.0/16"))}
                    \cup (IF version = "" THEN {} ELSE {A("version", "main.tf", 62, S(version))}), <<>>)])

Rich(x, call) ==
    [Empty EXCEPT
      !.coreVersions = <<">= 1.5">>,
      !.experiments = {"e1", "e2"},
      !.backend = [type |-> "s3", body |-> NB({A("bucket", "main.tf", 4, S("b"))}, <<>>)],
      !.requiredProviders =
          {Dcl("main.tf", 6, [name |-> "aws", source |-> "hashicorp/aws", version |-> "~> 5.0"]),
           Dcl("versions.tf", 2, [name |-> "null", source |-> "", version |-> ""])},
      !.providerMetas = {[provider |-> "aws", body |-> NB({}, <<>>)]},
      !.providers =
          {Dcl("main.tf", 10, [name |-> "aws", alias |-> "", version |-> "",
                               body |-> NB({A("region", "main.tf", 11, S("r"))}, <<>>)]),
           Dcl("main.tf", 14, [name |-> "aws", alias |-> "west", version |-> "",
                               body |-> NB({A("alias", "main.tf", 15, S("west"))}, <<>>)])},
      !.variables = {Dcl("variables.tf", 1, [name |-> "n", toks |-> <<"{", "type", "=", "number", "}", "\n">>]),
                     Dcl("main.tf", 20, [name |-> "s", toks |-> <<"{", "}", "\n">>])},
      !.locals = {Dcl("main.tf", 22, [name |-> "x", toks |-> <<"1", "\n">>])},
      !.managed =
          {Dcl("main.tf", 30, [type |-> "aws_instance", name |-> "a", provider |-> "aws",
                               body |-> NB({A("provider", "main.tf", 31, Tr("aws", "west")),
                                            A("name", "main.tf", 32, x)},
                                           <<Blk("ebs", <<>>, NB({A("size", "main.tf", 34, N(1))}, <<>>))>>)]),
           Dcl("a.tf", 40, [type |-> "aws_instance", name |-> "b", provider |-> "", body |-> NB({}, <<>>)])},
      !.data = {Dcl("main.tf", 50, [type |-> "aws_ami", name |-> "c", provider |-> "",
                                     body |-> NB({A("owners", "main.tf", 51, T(<<S("self")>>))}, <<>>)])},
      !.calls = {call},
      !.outputs = {Dcl("main.tf", 70, [name |-> "id", toks |-> <<"{", "value", "=", "1", "}", "\n">>])}]

\* The passing run: the rich module with every expression of the library,
\* a module with only a cloud block, and an empty one.
MCModules == {Rich(x, VpcCall("")) : x \in ExprLib} \cup {CloudOnly, Empty}

\* "${var.s}": a lone interpolation in quotes.
WrapExprs == {W(V("s"))}

\* [for v in [1, var.n] : v]: a for with one variable (KeyVar empty).
OneVarFor == {F("", "x", Pair, NoExpr, L("x"), NoExpr, FALSE)}

\* The expressions tokensForExpression prints wrongly.
MainTfExprs == LossyExprs \cup WrapExprs \cup OneVarFor

\* resource "aws_instance" "b" declared in a.tf.json.
JsonB == Dcl("a.tf.json", 1, [type |-> "aws_instance", name |-> "b", provider |-> "",
                               body |-> [kind |-> "json", attrs |-> {A("ami", "a.tf.json", 2, S("x"))},
                                         blocks |-> <<>>]])

\* Every expression of the library, with a module call with and without
\* a version constraint, and with "b" declared in a .tf or a .tf.json file.
MainTfModules ==
    LET plain == {Rich(x, VpcCall(v)) : x \in ExprLib, v \in {"", "1.0"}}
    IN  plain \cup {[m EXCEPT !.managed = {r \in @ : r.name # "b"} \cup {JsonB}] : m \in plain}

=============================================================================
