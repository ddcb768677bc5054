--------------------------- MODULE MCChdirOption ---------------------------
(***************************************************************************)
(* Model-checking instance of ChdirOption: every command line of up to     *)
(* three arguments over -chdir=a, -chdir=b, -chdir, -chdir=, the options   *)
(* -v and -json and the words plan and version, and a working directory   *)
(* holding any of the                                                      *)
(* layouts of patch files below over a_tap.hcl, b_tap.hcl and tap.hcl,     *)
(* one for each branch of tap.Load.                                        *)
(***************************************************************************)
EXTENDS ChdirOption, TLC

ChdirA  == ChdirArg("a")
ChdirB  == ChdirArg("b")
ChdirEq == ChdirArg(NoDir)                                          \* -chdir=
Word(d, w) == [dash |-> d, chdir |-> FALSE, eq |-> FALSE, val |-> NoDir, word |-> w]
Bare    == [dash |-> TRUE, chdir |-> TRUE, eq |-> FALSE, val |-> NoDir, word |-> ""] \* -chdir
Verbose == Word(TRUE, "-v")                                   \* -v
Json    == Word(TRUE, "-json")                                \* -json
Plan    == Word(FALSE, "")                                    \* plan
Version == Word(FALSE, "version")                             \* version

Alphabet == {ChdirA, ChdirB, ChdirEq, Bare, Verbose, Json, Plan, Version}

MCArgSeqs == UNION {[1..n -> Alphabet] : n \in 0..3}

MCNameOrder == <<"a_tap.hcl", "b_tap.hcl", "tap.hcl">>

\* Files.
Absent    == [kind |-> "absent", status |-> "ok", blocks |-> <<>>]
IsDir     == [kind |-> "dir",    status |-> "ok", blocks |-> <<>>]
File(bs)  == [kind |-> "file",   status |-> "ok", blocks |-> bs]
Bad(st)   == [kind |-> "file",   status |-> st,   blocks |-> <<>>]
Dir(a, b, t) == ("a_tap.hcl" :> a) @@ ("b_tap.hcl" :> b) @@ ("tap.hcl" :> t)

\* Blocks and operations.
Blk0 == [type |-> "tap", header |-> TRUE, ok |-> TRUE, coe |-> "unset", syntax |-> "",
         label |-> "", alias |-> <<>>, names |-> <<>>, ops |-> <<>>]
Tap(coe)           == [Blk0 EXCEPT !.coe = coe]
Sel(t, l, coe, os) == [Blk0 EXCEPT !.type = t, !.label = l, !.coe = coe, !.ops = os]
Other              == [Blk0 EXCEPT !.type = "other"]
Op(m, p, v)        == [mode |-> m, path |-> p, value |-> v]
AddA    == Op("add", "/a", "attr")
RmB     == Op("remove", "/b", "none")
SetC    == Op("set", "/c", "block")
NoPathOp == Op("add", "<none>", "attr")   \* TapLoad's NoPath: the required path is missing
NoValue == Op("replace", "/a", "none")
TwoVals == Op("set", "/a", "blocks2")
SelX    == Sel("resource", "x", "unset", <<AddA, RmB>>)

\* Every branch of Load, each with at most one tap block.
MCSpecDirs ==
    { Dir(Absent, Absent, Absent),
      Dir(Absent, Absent, IsDir),
      Dir(File(<<>>), Absent, Absent),
      Dir(File(<<Tap("unset"), SelX>>), Absent, Absent),
      Dir(File(<<Tap("true")>>),
          File(<<Sel("resource", "x", "unset", <<AddA>>), Sel("data", "y", "false", <<SetC>>)>>),
          File(<<[Sel("resource", "z", "unset", <<RmB>>) EXCEPT !.alias = <<"w">>, !.names = <<"n">>]>>)),
      Dir(File(<<SelX>>), IsDir, File(<<[Tap("true") EXCEPT !.syntax = "json_pointer"]>>)),
      Dir(File(<<Tap("unset")>>), Absent, Absent),
      Dir(Bad("unreadable"), Absent, File(<<Tap("unset")>>)),
      Dir(File(<<Tap("unset")>>), Absent, Bad("syntax")),
      Dir(File(<<[Tap("unset") EXCEPT !.header = FALSE]>>), Absent, Absent),
      Dir(File(<<[Tap("unset") EXCEPT !.ok = FALSE], SelX>>), Absent, Absent),
      Dir(File(<<Tap("unset"), SelX>>), File(<<Other>>), Absent),
      Dir(File(<<Tap("true"), [SelX EXCEPT !.ok = FALSE], SelX>>), Absent, Absent),
      Dir(File(<<Tap("unset"), Sel("data", "y", "unset", <<SetC, NoPathOp>>)>>), Absent, Absent),
      Dir(File(<<Tap("unset"), Sel("resource", "x", "unset", <<NoValue>>)>>), Absent, Absent),
      Dir(File(<<Tap("unset"), Sel("resource", "x", "unset", <<TwoVals>>)>>), Absent, Absent),
      Dir(File(<<Tap("unset"), Sel("resource", "x", "true", <<>>), SelX>>), Absent, Absent) }

\* Layouts on which tap.Load and the spec disagree: selectors, and an
\* element the grammar does not allow, in files without a tap block (Load
\* returns no configuration and no error), and a path syntax other than
\* json_pointer (Load accepts it; Operate rejects it after Setup has
\* cleaned .tap).  With SpecDirs <- DivergentDirs, LoadMatchesSpec fails.
DivergentDirs ==
    { Dir(File(<<SelX>>), Absent, Absent),
      Dir(File(<<Sel("resource", "x", "unset", <<>>), Other>>), Absent, Absent),
      Dir(File(<<[Tap("unset") EXCEPT !.syntax = "jsonpath"], SelX>>), Absent, Absent) }

\* os.Args[0]: a name other than terraform or tofu (tap, or a full path),
\* and exactly "terraform".
MCArgv0s == {"tap", "terraform"}

(* What terraform.Load can find.  The root calls a (local, ./a) and b    *)
(* (local, ./b); a calls b from a registry, which must be v1.  The        *)
(* manifest has a record for every module path, keyed a, a.b and b, so a *)
(* walker keyed by the call's own name would read b's record for a.b.    *)
AnyC == [req |-> FALSE, ok |-> {}]
V1C  == [req |-> TRUE, ok |-> {"v1"}]
Call(n, src, c) == [name |-> n, source |-> src, constraint |-> c]
Mod(ok, cs)     == [exists |-> TRUE, ok |-> ok, calls |-> cs]
Gone            == [exists |-> FALSE, ok |-> FALSE, calls |-> <<>>]
Rec(src, v, d)  == [source |-> src, version |-> v, dir |-> d]

RootMod == Mod(TRUE, <<Call("a", "./a", AnyC), Call("b", "./b", AnyC)>>)
ModA    == Mod(TRUE, <<Call("b", "reg/b", V1C)>>)
Inst(a, ab) == ("d_a" :> a) @@ ("d_ab" :> ab) @@ ("d_b" :> Mod(TRUE, <<>>))
Installed   == Inst(ModA, Mod(TRUE, <<>>))

Manifest(ab) == ("" :> Rec("", "none", ".")) @@ ("a" :> Rec("./a", "none", "d_a"))
                  @@ ("b" :> Rec("./b", "none", "d_b")) @@ ab
AB(src, v) == "a.b" :> Rec(src, v, "d_ab")
GoodManifest == Manifest(AB("reg/b", "v1"))
NoRecords    == [k \in {} |-> Rec("", "none", "")]

Ws(mf, m, root, inst, ov) ==
    [mfile |-> mf, manifest |-> m, root |-> root, installed |-> inst, overrides |-> ov]

\* One directory for each outcome of the walker and of Load.
MCTfDirs ==
    { Ws("absent", NoRecords, RootMod, Installed, TRUE),                  \* nullWalker
      Ws("ok", NoRecords, RootMod, Installed, TRUE),                      \* empty file
      Ws("ok", GoodManifest, RootMod, Installed, TRUE),
      Ws("ok", GoodManifest, RootMod, Installed, FALSE),                  \* overrides fail
      Ws("ok", GoodManifest, Mod(FALSE, RootMod.calls), Installed, TRUE), \* root errors
      Ws("corrupt", NoRecords, RootMod, Installed, TRUE),
      Ws("ok", Manifest(AB("reg/c", "v1")), RootMod, Installed, TRUE),    \* source changed
      Ws("ok", Manifest(AB("reg/b", "v2")), RootMod, Installed, TRUE),    \* version changed
      Ws("ok", Manifest(AB("reg/b", "none")), RootMod, Installed, TRUE),  \* no version
      Ws("ok", Manifest(NoRecords), RootMod, Installed, TRUE),            \* a.b not installed
      Ws("ok", GoodManifest, RootMod, Inst(ModA, Gone), TRUE),            \* d_ab unreadable
      Ws("ok", GoodManifest, RootMod, Inst(Mod(FALSE, ModA.calls), Mod(TRUE, <<>>)), TRUE) }

\* A manifest that exists but cannot be opened (e.g. written by root).
UnopenableTfDirs ==
    MCTfDirs \cup {Ws("unopenable", NoRecords, RootMod, Installed, TRUE)}

=============================================================================
