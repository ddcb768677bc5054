----------------------------- MODULE HclTokens -----------------------------
(***************************************************************************)
(* The expression-to-token transformer of the writer                        *)
(* (staging/hcl/hclwrite/generate_expr.go): TokensForExpression turns an   *)
(* hclsyntax expression tree into the flat token sequence written to       *)
(* main.tf, and AppendHCLBody uses it for every attribute.                 *)
(*                                                                         *)
(* Expressions are records tagged by k:                                    *)
(*   lit   [v]              LiteralValueExpr: a value (see below)          *)
(*   trav  [root, attr]     ScopeTraversalExpr  root.attr                  *)
(*   bin   [op, l, r]       BinaryOpExpr                                   *)
(*   un    [op, e]          UnaryOpExpr                                    *)
(*   paren [e]              ParenthesesExpr                                *)
(*   cond  [c, t, f]        ConditionalExpr                                *)
(*   call  [name, args, expand]  FunctionCallExpr                          *)
(*   tuple [es]             TupleConsExpr                                  *)
(*   index [coll, key]      IndexExpr                                      *)
(*   tmpl  [parts]          TemplateExpr                                   *)
(*   wrap  [e]              TemplateWrapExpr                               *)
(*   for   [kv, vv, coll, key, val, cond, group]  ForExpr: kv is "" when   *)
(*                          the key is ignored, key and cond NoExpr when   *)
(*                          absent                                         *)
(*   obj   [items]          ObjectConsExpr, items a sequence of [key, val] *)
(*   okey  [e]              ObjectConsKeyExpr                              *)
(*   rtrav [src, attr]      RelativeTraversalExpr  src.attr                *)
(*   splat [src, each]      SplatExpr  src[*] followed by .each, each ""   *)
(*                          when the splat has no traversal after it       *)
(*   join  [tuple]          TemplateJoinExpr                               *)
(* A traversal whose attr is "" is a bare name (a for variable).           *)
(* Any other kind stands for the node types the switch does not list.      *)
(* A value is [t, n, s, b, items, fields], t in {"num", "str", "bool",     *)
(* "tuple", "obj"}; an object's fields is a set of [key, val];          *)
(* a token is its bytes, a string.                                         *)
(***************************************************************************)
EXTENDS Integers, Sequences, TLC

LOCAL SX == INSTANCE SequencesExt

Num(n)  == [t |-> "num",  n |-> n, s |-> "", b |-> FALSE, items |-> <<>>, fields |-> {}]
Str(s)  == [t |-> "str",  n |-> 0, s |-> s,  b |-> FALSE, items |-> <<>>, fields |-> {}]
Bool(b) == [t |-> "bool", n |-> 0, s |-> "", b |-> b,     items |-> <<>>, fields |-> {}]
Tup(xs) == [t |-> "tuple", n |-> 0, s |-> "", b |-> FALSE, items |-> xs, fields |-> {}]
Obj(fs) == [t |-> "obj",  n |-> 0, s |-> "", b |-> FALSE, items |-> <<>>, fields |-> fs]

NoExpr == [k |-> "none"]

OQuote == "\""
CQuote == "\""

\* hclwrite.TokensForValue for the primitive values: a number or a bool is
\* one token, a string is an opening quote, the quoted literal and a
\* closing quote (escaping is left out: the model's strings need none).
TokensForValue(v) ==
    CASE v.t = "num"  -> <<ToString(v.n)>>
      [] v.t = "bool" -> <<IF v.b THEN "true" ELSE "false">>
      [] v.t = "str"  -> <<OQuote, v.s, CQuote>>

\* A switch whose subtraction case writes the addition token.
BinOpTokenMinusPlus == ("||" :> "||") @@ ("&&" :> "&&") @@ ("==" :> "==") @@ ("!=" :> "!=")
           @@ (">" :> ">") @@ (">=" :> ">=") @@ ("<" :> "<") @@ ("<=" :> "<=")
           @@ ("+" :> "+") @@ ("-" :> "+") @@ ("*" :> "*") @@ ("/" :> "/") @@ ("%" :> "%")

\* The operator token of each BinaryOpExpr operator (lines 72-138) and of
\* each UnaryOpExpr operator (570-606).
BinOpToken == ("||" :> "||") @@ ("&&" :> "&&") @@ ("==" :> "==") @@ ("!=" :> "!=")
           @@ (">" :> ">") @@ (">=" :> ">=") @@ ("<" :> "<") @@ ("<=" :> "<=")
           @@ ("+" :> "+") @@ ("-" :> "-") @@ ("*" :> "*") @@ ("/" :> "/") @@ ("%" :> "%")
UnOpToken  == ("!" :> "!") @@ ("-" :> "-")

\* TokensForScopeTraversalExpr: the root name, then "." attr.
TokensForTraversal(e) == <<e.root>> \o (IF e.attr = "" THEN <<>> ELSE <<".", e.attr>>)

\* TokensForLiteralValueExpr: inside a template (quoted) a string drops its
\* first and last token, the quotes.
TokensForLiteral(e, quoted) ==
    LET ss == TokensForValue(e.v) IN
    IF quoted /\ e.v.t = "str" THEN SubSeq(ss, 2, Len(ss) - 1) ELSE ss

\* Tokens joined with a separator token (the loops of 280-296, 550-559).
RECURSIVE Joined(_, _)
Joined(tss, sep) ==
    IF tss = <<>> THEN <<>>
    ELSE IF Len(tss) = 1 THEN Head(tss)
    ELSE Head(tss) \o <<sep>> \o Joined(Tail(tss), sep)

RECURSIVE Tokens(_, _), TemplatePart(_)

\* TokensForBinaryOpExpr (69-143): left operand, operator, right operand.
TokensForBinaryOp(e) == Tokens(e.l, FALSE) \o <<BinOpToken[e.op]>> \o Tokens(e.r, FALSE)

\* TokensForUnaryOpExpr (569-611).
TokensForUnaryOp(e) == <<UnOpToken[e.op]>> \o Tokens(e.e, FALSE)

\* TokensForConditionalExpr (145-163): c ? t : f.
TokensForConditional(e) ==
    Tokens(e.c, FALSE) \o <<"?">> \o Tokens(e.t, FALSE) \o <<":">> \o Tokens(e.f, FALSE)

\* TokensForFunctionCallExpr (269-304): the arguments joined by commas,
\* an ellipsis after the last one if it is expanded.
TokensForFunctionCall(e) ==
    <<e.name, "(">> \o Joined([i \in DOMAIN e.args |-> Tokens(e.args[i], FALSE)], ",")
      \o (IF e.expand /\ e.args # <<>> THEN <<"...">> ELSE <<>>) \o <<")">>

\* TokensForTupleConsExpr (544-567).
TokensForTupleCons(e) == <<"[">> \o Joined([i \in DOMAIN e.es |-> Tokens(e.es[i], FALSE)], ",") \o <<"]">>

\* TokensForIndexExpr (306-323): the collection is printed as if quoted.
TokensForIndex(e) == Tokens(e.coll, TRUE) \o <<"[">> \o Tokens(e.key, FALSE) \o <<"]">>

\* TokensForTemplateExpr (427-510): quotes unless inside a template, and
\* the parts.
TokensForTemplate(e, quoted) ==
    (IF quoted THEN <<>> ELSE <<OQuote>>)
      \o SX!FlattenSeq([i \in DOMAIN e.parts |-> TemplatePart(e.parts[i])])
      \o (IF quoted THEN <<>> ELSE <<CQuote>>)

\* TokensForTemplateWrapExpr (528-542): "${" expression "}", no quotes.
TokensForTemplateWrap(e) == <<"${">> \o Tokens(e.e, FALSE) \o <<"}">>

\* TokensForForExpr (165-267): brackets for a tuple, braces when there is
\* a key expression; KeyVar is written whether or not it is empty, then
\* ", ValVar" when ValVar is not empty.
TokensForFor(e) ==
    LET open  == IF e.key = NoExpr THEN "[" ELSE "{"
        close == IF e.key = NoExpr THEN "]" ELSE "}"
    IN  <<open, "\n", "for", e.kv>> \o (IF e.vv # "" THEN <<",", e.vv>> ELSE <<>>)
          \o <<"in">> \o Tokens(e.coll, FALSE) \o <<":">>
          \o (IF e.key # NoExpr THEN Tokens(e.key, FALSE) \o <<"=>">> ELSE <<>>)
          \o Tokens(e.val, FALSE) \o (IF e.group THEN <<"...">> ELSE <<>>)
          \o (IF e.cond # NoExpr THEN <<"\n", "if">> \o Tokens(e.cond, FALSE) ELSE <<>>)
          \o <<"\n", close>>

\* TokensForObjectConsExpr (342-377): each item on a line of its own as
\* key "=" value, a newline before the brace when there are items.
TokensForObjectCons(e) ==
    <<"{">> \o SX!FlattenSeq([i \in DOMAIN e.items |->
                 <<"\n">> \o Tokens(e.items[i].key, FALSE) \o <<"=">> \o Tokens(e.items[i].val, FALSE)])
      \o (IF e.items # <<>> THEN <<"\n">> ELSE <<>>) \o <<"}">>

\* TokensForRelativeTraversalExpr (383-394): the source as if quoted, then
\* the traversal.
TokensForRelativeTraversal(e) == Tokens(e.src, TRUE) \o <<".", e.attr>>

\* TokensForSplatExpr (407-425): the source as if quoted and "[*]"; the
\* Each expression, the traversal after the splat, is not printed.
TokensForSplat(e) == Tokens(e.src, TRUE) \o <<"[", "*", "]">>

\* TokensForTemplateJoinExpr (512-526): the tuple in brackets.
TokensForTemplateJoin(e) == <<"[">> \o Tokens(e.tuple, FALSE) \o <<"]">>

\* One part of a TemplateExpr (436-499): a literal, an interpolated
\* traversal, or a conditional written as an if directive whose else
\* branch is left out when it prints nothing; any other part prints
\* nothing.
TemplatePart(p) ==
    CASE p.k = "lit"  -> TokensForLiteral(p, TRUE)
      [] p.k = "trav" -> <<"${">> \o TokensForTraversal(p) \o <<"}">>
      [] p.k = "cond" ->
            LET ff == Tokens(p.f, TRUE) IN
            <<"%{", "if">> \o Tokens(p.c, TRUE) \o <<"}">> \o Tokens(p.t, TRUE)
              \o (IF ff = <<>> THEN <<>> ELSE <<"%{", "else", "}">> \o ff)
              \o <<"%{", "endif", "}">>
      [] OTHER -> <<>>

\* tokensForExpression(expr, quoted) (22-63): the switch on the node type;
\* a ParenthesesExpr prints its inner expression alone, and a node type
\* the switch does not list prints nothing.
Tokens(e, quoted) ==
    CASE e.k = "lit"   -> TokensForLiteral(e, quoted)
      [] e.k = "trav"  -> TokensForTraversal(e)
      [] e.k = "bin"   -> TokensForBinaryOp(e)
      [] e.k = "un"    -> TokensForUnaryOp(e)
      [] e.k = "paren" -> Tokens(e.e, quoted)
      [] e.k = "cond"  -> TokensForConditional(e)
      [] e.k = "call"  -> TokensForFunctionCall(e)
      [] e.k = "tuple" -> TokensForTupleCons(e)
      [] e.k = "index" -> TokensForIndex(e)
      [] e.k = "tmpl"  -> TokensForTemplate(e, quoted)
      [] e.k = "wrap"  -> TokensForTemplateWrap(e)
      [] e.k = "for"   -> TokensForFor(e)
      [] e.k = "obj"   -> TokensForObjectCons(e)
      [] e.k = "okey"  -> Tokens(e.e, FALSE)     \* TokensForObjectConsKeyExpr (379-381)
      [] e.k = "rtrav" -> TokensForRelativeTraversal(e)
      [] e.k = "splat" -> TokensForSplat(e)
      [] e.k = "join"  -> TokensForTemplateJoin(e)
      [] OTHER         -> <<>>

\* TokensForExpression: the tokens of an attribute's expression (9-20).
TokensForExpression(e) == Tokens(e, FALSE)

-----------------------------------------------------------------------------
(* What an expression means: HCL's evaluation of the node kinds above, the *)
(* reference the tokens are judged by.  Env maps a traversal's attribute   *)
(* to its value.                                                           *)

\* A value as it is interpolated into a template.
AsString(v) ==
    CASE v.t = "num"  -> ToString(v.n)
      [] v.t = "bool" -> IF v.b THEN "true" ELSE "false"
      [] v.t = "str"  -> v.s

\* The field of an object value.
Field(v, key) == (CHOOSE f \in v.fields : f.key = key).val

RECURSIVE Eval(_, _)
Eval(e, env) ==
    CASE e.k = "lit"   -> e.v
      [] e.k = "trav"  -> IF e.attr = "" THEN env[e.root] ELSE env[e.attr]
      [] e.k = "bin"   ->
            LET a == Eval(e.l, env)
                b == Eval(e.r, env)
            IN  (CASE e.op = "+"  -> Num(a.n + b.n)
                   [] e.op = "-"  -> Num(a.n - b.n)
                   [] e.op = "*"  -> Num(a.n * b.n)
                   [] e.op = "<"  -> Bool(a.n < b.n)
                   [] e.op = "==" -> Bool(a = b)
                   [] e.op = "&&" -> Bool(a.b /\ b.b)
                   [] e.op = "||" -> Bool(a.b \/ b.b))
      [] e.k = "un"    -> IF e.op = "!" THEN Bool(~Eval(e.e, env).b) ELSE Num(-Eval(e.e, env).n)
      [] e.k = "paren" -> Eval(e.e, env)
      [] e.k = "cond"  -> IF Eval(e.c, env).b THEN Eval(e.t, env) ELSE Eval(e.f, env)
      [] e.k = "call"  ->
            LET vs == [i \in DOMAIN e.args |-> Eval(e.args[i], env)]
                ns == IF e.expand
                      THEN SubSeq(vs, 1, Len(vs) - 1) \o vs[Len(vs)].items
                      ELSE vs
                xs == {ns[i].n : i \in DOMAIN ns}
            IN  Num(CHOOSE x \in xs : \A y \in xs : IF e.name = "max" THEN y <= x ELSE x <= y)
      [] e.k = "tuple" -> Tup([i \in DOMAIN e.es |-> Eval(e.es[i], env)])
      [] e.k = "index" -> Eval(e.coll, env).items[Eval(e.key, env).n + 1]
      [] e.k = "tmpl"  -> Str(SX!FoldLeft(LAMBDA acc, p : acc \o AsString(Eval(p, env)), "", e.parts))
      [] e.k = "wrap"  -> Eval(e.e, env)
      [] e.k = "for"   ->
            LET it      == Eval(e.coll, env).items
                bind(j) == (IF e.kv = "" THEN <<>> ELSE (e.kv :> Num(j - 1)))
                             @@ (e.vv :> it[j]) @@ env
                js      == SelectSeq([j \in DOMAIN it |-> j],
                                     LAMBDA j : e.cond = NoExpr \/ Eval(e.cond, bind(j)).b)
                key(j)  == AsString(Eval(e.key, bind(j)))
                vals(k) == LET ms == SelectSeq(js, LAMBDA j : key(j) = k)
                           IN  Tup([m \in DOMAIN ms |-> Eval(e.val, bind(ms[m]))])
            IN  IF e.key = NoExpr THEN Tup([m \in DOMAIN js |-> Eval(e.val, bind(js[m]))])
                ELSE IF e.group THEN Obj({[key |-> key(js[m]), val |-> vals(key(js[m]))] : m \in DOMAIN js})
                ELSE Obj({[key |-> key(js[m]), val |-> Eval(e.val, bind(js[m]))] : m \in DOMAIN js})
      [] e.k = "obj"   -> Obj({[key |-> AsString(Eval(e.items[i].key, env)),
                                val |-> Eval(e.items[i].val, env)] : i \in DOMAIN e.items})
      [] e.k = "okey"  -> IF e.e.k = "trav" /\ e.e.attr = "" THEN Str(e.e.root) ELSE Eval(e.e, env)
      [] e.k = "rtrav" -> Field(Eval(e.src, env), e.attr)
      [] e.k = "splat" ->
            LET it == Eval(e.src, env).items
            IN  Tup([i \in DOMAIN it |-> IF e.each = "" THEN it[i] ELSE Field(it[i], e.each)])
      [] e.k = "join"  -> Str(SX!FoldLeft(LAMBDA acc, v : acc \o AsString(v), "", Eval(e.tuple, env).items))

\* The meaning of an expression: its value under every environment.
Meaning(e, Envs) == [env \in Envs |-> Eval(e, env)]

=============================================================================
