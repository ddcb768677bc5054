------------------------------ MODULE TapLoad ------------------------------
(***************************************************************************)
(* tap.Load (pkg/tap/load.go 74-340): the patch files of a directory are   *)
(* found, read and parsed one by one, merged into one body, and decoded:   *)
(* the first tap block gives continue_on_error and path_syntax, and every  *)
(* top-level resource or data block becomes a Patch of Operations.         *)
(*                                                                         *)
(* A directory maps each name of NameOrder to a file                       *)
(*   [kind, status, blocks]  kind "absent", "dir" or "file"; status "ok",   *)
(*                           "unreadable" (ReadFile fails) or "syntax"     *)
(*                           (ParseHCL reports an error);                  *)
(* a top-level block is a record with every field, of which a block uses   *)
(* those of its type:                                                      *)
(*   type    "tap", "resource", "data", or "other" (anything else: an      *)
(*           attribute or a block type the schema does not list)           *)
(*   header  whether the tap block's header fits the schema (no labels)    *)
(*   ok      whether gohcl.DecodeBody accepts the block's own attributes   *)
(*   coe     continue_on_error: "unset", "true" or "false"                 *)
(*   syntax  path_syntax, "" when unset                                    *)
(*   label, alias, names   the type label, type_alias and name_match       *)
(*   ops     a sequence of [mode, path, value]: path NoPath when the       *)
(*           required path is missing, value "none", "attr", "block" or    *)
(*           "blocks2" (two value blocks).                                 *)
(***************************************************************************)
EXTENDS Integers, Sequences, FiniteSets, TLC

LOCAL SX == INSTANCE SequencesExt

CONSTANTS Dirs,          \* the directories Load can be called on
          NameOrder      \* the names of patch files, in lexical order

VARIABLES lphase,        \* "idle", "read", "build", "patches", "done", "failed"
          ldir,          \* the directory being loaded
          lfiles,        \* the files found, in the order they are read
          lbodies,       \* the top-level blocks of each file parsed so far
          lsels,         \* the resource and data blocks not yet decoded
          lcfg,          \* the Config being built, or NoConfig
          ldiags         \* whether buildResourcePatches has collected an error

lvars == <<lphase, ldir, lfiles, lbodies, lsels, lcfg, ldiags>>

TapHcl   == "tap.hcl"
NoPath   == "<none>"
NoConfig == [kind |-> "nil"]

\* afero.Glob(fs, "*_tap.hcl") returns the matching names sorted; Stat
\* keeps the regular files; tap.hcl, if it is one, comes last (78-105).
Discovered(dir) ==
    SelectSeq(NameOrder, LAMBDA n : n # TapHcl /\ dir[n].kind = "file")
      \o (IF dir[TapHcl].kind = "file" THEN <<TapHcl>> ELSE <<>>)

\* buildValue (306-340): a value attribute, or else exactly one value block.
BuildValue(o) == o.value \in {"attr", "block"}

\* buildOperations (246-304): an operation block without a path, or one
\* other than remove without a value, is an error and is skipped; remove
\* takes no value.
BuildOperations(ops) ==
    LET valid(o) == o.path # NoPath /\ (o.mode = "remove" \/ BuildValue(o))
    IN  [err |-> \E i \in DOMAIN ops : ~valid(ops[i]),
         ops |-> [i \in DOMAIN ops |->
                    [mode |-> ops[i].mode, path |-> ops[i].path,
                     value |-> IF ops[i].mode = "remove" THEN "none" ELSE ops[i].value]]]

\* A Patch that ignores the tap block's continue_on_error.
PatchOfNoInherit(s, coe, ops) ==
    [mode |-> s.type, types |-> <<s.label>> \o s.alias, names |-> s.names,
     coe |-> s.coe = "true", ops |-> ops]

\* The Patch of a resource or data block (217-222): its own
\* continue_on_error, else the tap block's (pointer.BoolDeref); the type
\* label followed by the aliases.
PatchOf(s, coe, ops) ==
    [mode |-> s.type, types |-> <<s.label>> \o s.alias, names |-> s.names,
     coe |-> IF s.coe = "unset" THEN coe ELSE s.coe = "true", ops |-> ops]

-----------------------------------------------------------------------------

Init == /\ lphase = "idle"
        /\ ldir = CHOOSE d \in Dirs : TRUE
        /\ lfiles = <<>>
        /\ lbodies = <<>>
        /\ lsels = <<>>
        /\ lcfg = NoConfig
        /\ ldiags = FALSE

\* Load: the files are found; with none, Load returns nil, nil (107-109).
Discover(d) ==
    /\ lphase = "idle"
    /\ ldir' = d
    /\ lfiles' = Discovered(d)
    /\ lphase' = IF Discovered(d) = <<>> THEN "done" ELSE "read"
    /\ UNCHANGED <<lbodies, lsels, lcfg, ldiags>>

\* One iteration of the read loop (115-129): a file that cannot be read
\* or does not parse ends Load with an error.
ReadFile ==
    /\ lphase = "read"
    /\ LET f == ldir[lfiles[Len(lbodies) + 1]] IN
       IF f.status # "ok"
       THEN /\ lphase' = "failed"
            /\ UNCHANGED lbodies
       ELSE /\ lbodies' = Append(lbodies, f.blocks)
            /\ lphase' = IF Len(lbodies) + 1 = Len(lfiles) THEN "build" ELSE "read"
    /\ UNCHANGED <<ldir, lfiles, lsels, lcfg, ldiags>>

\* hcl.MergeFiles and buildConfig (132-178), then the schema check of
\* buildResourcePatches (181-195): a tap header that does not fit fails
\* PartialContent; without a tap block the Config is nil and nothing
\* else is looked at; only the first tap block is decoded; a top-level
\* element that is neither tap, resource nor data fails Content.
BuildConfig ==
    /\ lphase = "build"
    /\ LET bs   == SX!FlattenSeq(lbodies)
           taps == SelectSeq(bs, LAMBDA b : b.type = "tap")
           t    == taps[1]
       IN  IF \E i \in DOMAIN taps : ~taps[i].header THEN lphase' = "failed" /\ UNCHANGED <<lcfg, lsels>>
           ELSE IF taps = <<>> THEN lphase' = "done" /\ lcfg' = NoConfig /\ UNCHANGED lsels
           ELSE IF ~t.ok THEN lphase' = "failed" /\ UNCHANGED <<lcfg, lsels>>
           ELSE IF \E i \in DOMAIN bs : bs[i].type = "other"
                THEN lphase' = "failed" /\ UNCHANGED <<lcfg, lsels>>
           ELSE /\ lphase' = "patches"
                /\ lcfg' = [kind |-> "cfg", syntax |-> IF t.syntax = "" THEN "json_pointer" ELSE t.syntax,
                            coe |-> t.coe = "true", patches |-> <<>>]
                /\ lsels' = SelectSeq(bs, LAMBDA b : b.type \in {"resource", "data"})
    /\ UNCHANGED <<ldir, lfiles, lbodies, ldiags>>

\* One iteration of buildResourcePatches' loop (201-241): a block that
\* does not decode, or whose operations do not, adds an error and is
\* skipped; a block without operations adds an error but is appended.
BuildResourcePatch ==
    /\ lphase = "patches"
    /\ lsels # <<>>
    /\ LET s == Head(lsels)
           r == BuildOperations(s.ops)
       IN  IF ~s.ok \/ r.err
           THEN ldiags' = TRUE /\ UNCHANGED lcfg
           ELSE /\ lcfg' = [lcfg EXCEPT !.patches = Append(@, PatchOf(s, lcfg.coe, r.ops))]
                /\ ldiags' = (ldiags \/ r.ops = <<>>)
    /\ lsels' = Tail(lsels)
    /\ UNCHANGED <<lphase, ldir, lfiles, lbodies>>

\* Load returns the Config, or the error if any was collected (132-137).
FinishLoad ==
    /\ lphase = "patches"
    /\ lsels = <<>>
    /\ lphase' = IF ldiags THEN "failed" ELSE "done"
    /\ UNCHANGED <<ldir, lfiles, lbodies, lsels, lcfg, ldiags>>

Next == \/ \E d \in Dirs : Discover(d)
        \/ ReadFile \/ BuildConfig \/ BuildResourcePatch \/ FinishLoad

Spec == Init /\ [][Next]_lvars /\ WF_lvars(Next)

-----------------------------------------------------------------------------
(***************************************************************************)
(* What spec.md (4.4, 6, 7) says Load yields for a directory: every        *)
(* *_tap.hcl and tap.hcl file, merged into one document of which the tap   *)
(* block is optional (continue_on_error defaults to false) and every       *)
(* resource or data selector is a Patch; an unreadable or malformed file,  *)
(* an element the grammar does not allow, a malformed tap or selector      *)
(* block or one naming a path syntax other than json_pointer (7:         *)
(* UnknownPathSyntax is fatal at load time), an operation without a path  *)
(* or (other than remove) without                                          *)
(* exactly one value, and a selector without operations are load-time     *)
(* errors.  The order of the files is left open, so patches compare as a   *)
(* set.                                                                    *)
(***************************************************************************)
SpecLoad(dir) ==
    LET files  == {n \in DOMAIN dir : dir[n].kind = "file"}
        blocks == UNION {{dir[n].blocks[i] : i \in DOMAIN dir[n].blocks} : n \in files}
        sels   == {b \in blocks : b.type \in {"resource", "data"}}
        coe    == \E b \in blocks : b.type = "tap" /\ b.coe = "true"
        opOk(o)  == o.path # NoPath /\ (o.mode = "remove" \/ o.value \in {"attr", "block"})
        selOk(b) == b.ok /\ b.ops # <<>> /\ \A i \in DOMAIN b.ops : opOk(b.ops[i])
        patch(b) == [mode |-> b.type, types |-> <<b.label>> \o b.alias, names |-> b.names,
                     coe |-> IF b.coe = "unset" THEN coe ELSE b.coe = "true",
                     ops |-> [i \in DOMAIN b.ops |->
                                [mode |-> b.ops[i].mode, path |-> b.ops[i].path,
                                 value |-> IF b.ops[i].mode = "remove" THEN "none" ELSE b.ops[i].value]]]
    IN  [err |-> \/ \E n \in files : dir[n].status # "ok"
                 \/ \E b \in blocks : b.type = "other"
                 \/ \E b \in blocks : b.type = "tap" /\ ~(b.header /\ b.ok)
                 \/ \E b \in blocks : b.type = "tap" /\ b.syntax \notin {"", "json_pointer"}
                 \/ \E b \in sels : ~selOk(b),
         patches |-> {patch(b) : b \in sels}]

PatchesOf(c) == IF c.kind = "nil" THEN {} ELSE {c.patches[i] : i \in DOMAIN c.patches}

\* When Load has returned, it has failed exactly when the spec says the
\* patch files hold an error, and otherwise the Config's patches are the
\* selectors of every file found, each with the continue_on_error it or
\* the tap block gives: the files Glob and Stat find, the first-error
\* returns of the read loop and of buildConfig, and the skip-and-collect
\* loops of buildResourcePatches and buildOperations, all agree with it.
LoadMatchesSpec ==
    lphase \in {"done", "failed"} =>
        /\ (lphase = "failed") = SpecLoad(ldir).err
        /\ lphase = "done" => PatchesOf(lcfg) = SpecLoad(ldir).patches

=============================================================================
