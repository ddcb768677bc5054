---------------------------- MODULE ChdirOption ----------------------------
(***************************************************************************)
(* workingdir.Setup (pkg/workingdir/setup.go 13-81): the -chdir option    *)
(* read by extractChdirOption (helper.go 13-65), which tap borrows from    *)
(* Terraform's main.go; tap.Load of the working directory (the TapLoad     *)
(* component, composed here); the hand-over to the staged copy when a     *)
(* configuration is found; delegate (cmd/delegate.go 28-57), which runs  *)
(* the binary, hijacking the version command; main (main.go 15-51): the   *)
(* argv[0] test, the binary lookup and the exit status; terraform.Load of *)
(* the configuration to patch (TerraformLoad, composed here); and the     *)
(* delegated binary parsing the arguments tap hands it with that same     *)
(* function.                                                               *)
(*                                                                         *)
(* An argument is a record:                                                *)
(*   [dash, chdir, eq, val]  dash: it starts with "-";                     *)
(*                           chdir, eq: it is "-chdir" or starts with      *)
(*                           "-chdir=" (eq), val: the text after "=".      *)
(*   word                    the argument when it is one delegate compares *)
(*                           ("version", "-v", "-version", "--version",    *)
(*                           "-json"), "" otherwise.                       *)
(* The string tests of the code are the tests of these fields.             *)
(***************************************************************************)
EXTENDS Integers, Sequences

CONSTANTS ArgSeqs,       \* the command lines tap can be started with
          Cwd,           \* os.Getwd()
          SpecDirs,      \* the patch files the working directory can hold
          NameOrder,     \* the names of patch files, in lexical order
          Argv0s,        \* the names tap can be started under (os.Args[0])
          TfDirs         \* what terraform.Load can find in the working directory

VARIABLES argv0,         \* os.Args[0]
          args,          \* the arguments after argv[0]
          phase,         \* "main", "start", "loading", "delegated", "ran" or
                         \* "failed"
          loaded,        \* the directory tap loads and stages
          newArgs,       \* the arguments handed to the delegated binary
                         \* (while loading: the arguments without -chdir)
          runDir,        \* the directory the delegated binary runs in
          tfExit,        \* the exit code the binary's run ended with
          out,           \* what reached tap's stdout: "banner", "tf" (the
                         \* binary's output) or "merged" (its JSON merged)
          exit,          \* tap's exit status
          tfws,          \* the working directory terraform.Load read, or NoTfDir
          lphase, ldir, lfiles, lbodies, lsels, lcfg, ldiags   \* tap.Load

TL == INSTANCE TapLoad WITH Dirs <- SpecDirs
TF == INSTANCE TerraformLoad

cvars == <<argv0, args, phase, loaded, newArgs, runDir, tfExit, out, exit, tfws>>
lvars == <<lphase, ldir, lfiles, lbodies, lsels, lcfg, ldiags>>
vars  == <<cvars, lvars>>

NoDir  == ""
NoExit == -1
Panic  == 2                   \* the exit status of an unrecovered Go panic
NoTfDir == [mfile |-> "none"]

\* The names main.go 18 looks for; "terraform" and "tofu" in Argv0s stand
\* for os.Args[0] being exactly that name.
TfBins == {"terraform", "tofu"}

\* The exit codes of a run of the binary (2: plan -detailed-exitcode with
\* changes, or an error), and whether its output is one JSON object.
TfResults == [code : {0, 2}, obj : BOOLEAN]

VersionWords == {"version", "-v", "-version", "--version"}

\* The binary runs its version command when one of -v, -version,
\* --version or version comes before any other argument that is not an
\* option (after -chdir is taken out); that command succeeds and its
\* -json output is an object.  Any other command can end either way.
VersionCmd(as) ==
    \E i \in DOMAIN as : /\ as[i].word \in VersionWords
                       /\ \A j \in 1..i - 1 : as[j].dash
Results(as) == IF VersionCmd(as) THEN {[code |-> 0, obj |-> TRUE]} ELSE TfResults

\* "-chdir=" + dir
ChdirArg(dir) == [dash |-> TRUE, chdir |-> TRUE, eq |-> TRUE, val |-> dir, word |-> ""]

\* filepath.Join(workingDir, ".tap")
StagingDir(d) == d \o "/.tap"

IsArgName(a)   == a.chdir /\ ~a.eq                   \* arg == "-chdir"
IsArgPrefix(a) == a.chdir /\ a.eq /\ a.val = NoDir    \* arg == "-chdir="
HasArgPrefix(a) == a.chdir /\ a.eq                   \* strings.HasPrefix(arg, "-chdir=")

-----------------------------------------------------------------------------
(* extractChdirOption                                                      *)

\* The loop of lines 28-44 from index i (1-based) on, with argPos and
\* argValue so far; it does not stop at the first non-option.
RECURSIVE ScanNoBreak(_, _, _, _)
ScanNoBreak(as, i, pos, val) ==
    IF i > Len(as) THEN [err |-> FALSE, pos |-> pos, val |-> val]
    ELSE IF IsArgName(as[i]) \/ IsArgPrefix(as[i]) THEN [err |-> TRUE]
    ELSE IF HasArgPrefix(as[i]) THEN ScanNoBreak(as, i + 1, i, as[i].val)
    ELSE ScanNoBreak(as, i + 1, pos, val)

\* The loop of lines 28-44: it stops at the first argument that is not an
\* option (29-34), fails on "-chdir" and "-chdir=" (36-38), and keeps the
\* position and value of the last "-chdir=..." (40-43).
RECURSIVE Scan(_, _, _, _)
Scan(as, i, pos, val) ==
    IF i > Len(as) \/ ~as[i].dash THEN [err |-> FALSE, pos |-> pos, val |-> val]
    ELSE IF IsArgName(as[i]) \/ IsArgPrefix(as[i]) THEN [err |-> TRUE]
    ELSE IF HasArgPrefix(as[i]) THEN Scan(as, i + 1, i, as[i].val)
    ELSE Scan(as, i + 1, pos, val)

\* The result: [err, dir, args].  Without a value the arguments are
\* returned as they are (49-51); otherwise the option at argPos is cut out
\* (55-64).
ExtractChdirOption(as) ==
    LET s == Scan(as, 1, 0, NoDir) IN
    IF Len(as) = 0 THEN [err |-> FALSE, dir |-> NoDir, args |-> as]
    ELSE IF s.err THEN [err |-> TRUE, dir |-> NoDir, args |-> as]
    ELSE IF s.val = NoDir THEN [err |-> FALSE, dir |-> NoDir, args |-> as]
    ELSE IF s.pos = 1 THEN [err |-> FALSE, dir |-> s.val, args |-> Tail(as)]
    ELSE [err |-> FALSE, dir |-> s.val,
          args |-> SubSeq(as, 1, s.pos - 1) \o SubSeq(as, s.pos + 1, Len(as))]

-----------------------------------------------------------------------------
(* Setup's use of it, and the delegated binary                             *)

Init == /\ argv0 \in Argv0s
        /\ args \in ArgSeqs
        /\ phase = "main"
        /\ loaded = NoDir
        /\ newArgs = <<>>
        /\ runDir = NoDir
        /\ tfExit = NoExit
        /\ out = <<>>
        /\ exit = NoExit
        /\ tfws = NoTfDir
        /\ TL!Init

\* main (main.go 15-41): args is os.Args[:1]; when it is exactly terraform
\* or tofu, args[1:] is empty and args[0] panics (21-23).  Otherwise the
\* first of terraform and tofu on the PATH is the binary, and tap exits 1
\* when neither is found (31-41).
Main ==
    /\ phase = "main"
    /\ IF argv0 \in TfBins
       THEN phase' = "failed" /\ exit' = Panic
       ELSE \E found \in BOOLEAN :
              /\ phase' = IF found THEN "start" ELSE "failed"
              /\ exit' = IF found THEN NoExit ELSE 1
    /\ UNCHANGED <<argv0, args, loaded, newArgs, runDir, tfExit, out, tfws, lvars>>

\* A Setup that takes the working directory from the option alone, with
\* no default when the option is absent.
SetupNoDefault ==
    /\ phase = "start"
    /\ LET x == ExtractChdirOption(args) IN
       IF x.err
       THEN /\ phase' = "failed"
            /\ exit' = 1
            /\ UNCHANGED <<loaded, newArgs>>
       ELSE /\ phase' = "loading"
            /\ loaded' = x.dir
            /\ newArgs' = x.args
            /\ UNCHANGED exit
    /\ UNCHANGED <<argv0, args, runDir, tfExit, out, tfws, lvars>>

\* Setup up to tap.Load: the -chdir option names the working directory,
\* the current one by default (20-28), and Load starts there (31).
Setup ==
    /\ phase = "start"
    /\ LET x  == ExtractChdirOption(args)
           wd == IF x.dir = NoDir THEN Cwd ELSE x.dir
       IN  IF x.err
           THEN /\ phase' = "failed"
                /\ exit' = 1
                /\ UNCHANGED <<loaded, newArgs>>
           ELSE /\ phase' = "loading"
                /\ loaded' = wd
                /\ newArgs' = x.args
                /\ UNCHANGED exit
    /\ UNCHANGED <<argv0, args, runDir, tfExit, out, tfws, lvars>>

\* A step of tap.Load in the working directory, whose patch files are any
\* of SpecDirs.
Load ==
    /\ phase = "loading"
    /\ TL!Next
    /\ UNCHANGED cvars

\* Setup after tap.Load (32-81): a load error ends Setup; without a
\* configuration the working directory stays; with one, .tap is cleaned
\* and terraform.Load reads the working directory (39-47); its error, or
\* its panic, ends Setup; then the configuration is patched, copied and
\* written to .tap (any of which, or the clean before, may fail: modelled
\* by Staging, TapApply and Writer), which becomes the working directory;
\* the new arguments start with -chdir=<it>.  main exits 1 on an error
\* Setup returns (main.go 50).
Handover ==
    /\ phase = "loading"
    /\ lphase \in {"done", "failed"}
    /\ \/ /\ lphase = "failed"
          /\ phase' = "failed"
          /\ exit' = 1
          /\ UNCHANGED <<newArgs, tfws>>
       \/ /\ lphase = "done"
          /\ lcfg = TL!NoConfig
          /\ phase' = "delegated"
          /\ newArgs' = <<ChdirArg(loaded)>> \o newArgs
          /\ UNCHANGED <<exit, tfws>>
       \/ /\ lphase = "done"
          /\ lcfg # TL!NoConfig
          /\ \E w \in TfDirs :
               LET r == TF!Load(w) IN
               /\ tfws' = w
               /\ IF r.kind # "ok"
                  THEN /\ phase' = "failed"
                       /\ exit' = IF r.kind = "panic" THEN Panic ELSE 1
                       /\ UNCHANGED newArgs
                  ELSE \/ /\ phase' = "delegated"
                          /\ newArgs' = <<ChdirArg(StagingDir(loaded))>> \o newArgs
                          /\ UNCHANGED exit
                       \/ /\ phase' = "failed"
                          /\ exit' = 1
                          /\ UNCHANGED newArgs
    /\ UNCHANGED <<argv0, args, loaded, runDir, tfExit, out, lvars>>

\* set.New(args...).Has / HasAny
Words(as) == {as[i].word : i \in DOMAIN as}

\* delegate (delegate.go 28-57) runs the binary, which takes -chdir from
\* newArgs as extractChdirOption does and runs there with result r.  With
\* a version word among the arguments and no -json, the banner is printed
\* first; with -json too, the binary's output goes to a buffer: on
\* success it is unmarshalled into a map, which stays nil unless it is an
\* object, and tap_version is set in it; on failure ce.Run is called a
\* second time, which returns "exec: already started".  main exits with
\* an *exec.ExitError's code and with 1 on any other error (main.go 43-51).
Delegate ==
    /\ phase = "delegated"
    /\ LET x == ExtractChdirOption(newArgs) IN
       /\ ~x.err
       /\ runDir' = x.dir
    /\ LET hijack == Words(newArgs) \cap VersionWords # {}
           json   == "-json" \in Words(newArgs)
       IN  \E r \in Results(ExtractChdirOption(newArgs).args) :
             /\ tfExit' = r.code
             /\ \/ /\ ~(hijack /\ json)
                   /\ out' = (IF hijack THEN <<"banner">> ELSE <<>>) \o <<"tf">>
                   /\ exit' = r.code
                \/ /\ hijack /\ json /\ r.code = 0 /\ r.obj
                   /\ out' = <<"merged">>
                   /\ exit' = 0
                \/ /\ hijack /\ json /\ r.code = 0 /\ ~r.obj
                   /\ out' = <<>>
                   /\ exit' = Panic
                \/ /\ hijack /\ json /\ r.code # 0
                   /\ out' = <<>>
                   /\ exit' = 1
    /\ phase' = "ran"
    /\ UNCHANGED <<argv0, args, loaded, newArgs, tfws, lvars>>

Next == Main \/ Setup \/ Load \/ Handover \/ Delegate

Spec == Init /\ [][Next]_vars /\ WF_vars(Next)

-----------------------------------------------------------------------------
(* Properties                                                              *)

LOCAL SX == INSTANCE SequencesExt

\* The options before the subcommand: the arguments up to the first one
\* that does not start with "-".
Leading(as) == {i \in DOMAIN as : \A j \in 1..i : as[j].dash}

\* Terraform's rule for -chdir, stated over the whole command line: it is
\* an error if an option before the subcommand is "-chdir" or "-chdir=";
\* otherwise the last "-chdir=DIR" before the subcommand names the
\* directory and is removed from the arguments, and without one nothing
\* changes.
ReferenceChdir(as) ==
    LET ps == {i \in Leading(as) : HasArgPrefix(as[i])} IN
    IF \E i \in Leading(as) : IsArgName(as[i]) \/ IsArgPrefix(as[i])
    THEN [err |-> TRUE, dir |-> NoDir, args |-> as]
    ELSE IF ps = {} THEN [err |-> FALSE, dir |-> NoDir, args |-> as]
    ELSE LET p == CHOOSE p \in ps : \A q \in ps : q <= p
         IN  [err |-> FALSE, dir |-> as[p].val, args |-> SX!RemoveAt(as, p)]

\* extractChdirOption, its loop with the early break and the error
\* return, and the index arithmetic of the two copies, computes exactly
\* Terraform's rule for every command line of the model.
ExtractMatchesReference == ExtractChdirOption(args) = ReferenceChdir(args)

\* Whatever the user's command line and patch files, tap either stops
\* with an error or the delegated binary accepts the arguments tap hands
\* it and runs: Load always returns, and the -chdir option tap puts first
\* always names a directory (setup.go 76-81).
SetupEnds == phase = "start" ~> phase \in {"ran", "failed"}

\* spec.md 88-90: tap execs the binary against the directory Setup made
\* the working directory (setup.go 72-81: the -chdir option tap puts first
\* is the one the binary takes), the binary's output reaches the user and
\* its exit code is returned verbatim as tap's final status (delegate and
\* main's exit); a failure before that is fatal and diagnostic: Setup's
\* error, printed, and exit status 1 (main.go 38-41, 49-50), never a
\* panic of main or of terraform.Load.
DelegatesVerbatim ==
    /\ phase = "ran" =>
          /\ runDir = newArgs[1].val
          /\ exit = tfExit
          /\ \E i \in DOMAIN out : out[i] \in {"tf", "merged"}
    /\ phase = "failed" => exit = 1

\* terraform.Load of the working directory, the module walker and the
\* checks it makes of every module call against the manifest, yields what
\* the loader promises (TerraformLoad's ReferenceLoad): the configuration
\* with every installed module, or an error when a module of the tree is
\* not installed, its source or version has changed, or it cannot be read.
TfLoadMatchesReference == tfws # NoTfDir => TF!Load(tfws) = TF!ReferenceLoad(tfws)

\* tap.Load of the working directory agrees with the spec (TapLoad).
LoadMatchesSpec == TL!LoadMatchesSpec

=============================================================================
