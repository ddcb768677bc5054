------------------------------ MODULE Staging ------------------------------
(***************************************************************************)
(* The staging of workingdir.Setup (pkg/workingdir/setup.go 30-74, helper  *)
(* cleanDir 69-104 and copyDir 111-210) over a sequence of tap invocations *)
(* in one working directory, with the delegated binary writing state       *)
(* between them and the user editing the directory.                        *)
(*                                                                         *)
(* A directory is a function from entries to contents: a version number,  *)
(* or Absent.  An entry is a record [top, root, ext, state]: its first     *)
(* path component, whether it is a file directly in the directory, the     *)
(* filepath.Ext of its name, and whether its name ends in ".tfstate" or    *)
(* ".tfstate.backup".  The staging directory is <dir>/.tap; it is not an   *)
(* entry of the working directory because copyDir skips it (132-134).      *)
(* Every step of Setup can be the last one: the process is killed or an    *)
(* I/O call fails, and Setup returns with what it has done so far.         *)
(*                                                                         *)
(* Procs are the tap invocations that may run at once in the directory:   *)
(* each has its own place in Setup, walk and configuration, and they      *)
(* share the two directories.  Nothing in Setup excludes a second          *)
(* invocation.  The user edits only while no invocation runs.             *)
(***************************************************************************)
EXTENDS Integers, Sequences, FiniteSets

CONSTANTS Procs,         \* the tap invocations
          Entries,       \* the files that can exist under either directory
          TopOrder,      \* their first path components, in lexical order
          TapFiles,      \* the entries that are tap configuration files
          UserFiles,     \* the entries the user edits
          TfWrites,      \* the entries a terraform command writes
          MaxClock       \* bound on edits and terraform writes

VARIABLES src,           \* the working directory
          stg,           \* the staging directory <dir>/.tap
          stgExists,     \* whether <dir>/.tap exists
          mainTf,        \* <dir>/.tap/main.tf: NoMainTf, PartialMainTf or FullMainTf(c)
          pc,            \* per invocation: where Setup is, or where terraform runs
          walk,          \* per invocation: the names filepath.Walk has still to visit
          cfg,           \* per invocation: the configuration terraform.Load read
          wrote,         \* the last content terraform wrote to each entry of .tap
          clock          \* the next version number

vars == <<src, stg, stgExists, mainTf, pc, walk, cfg, wrote, clock>>

Absent == 0

\* The file setup.go 61 writes into .tap.
MainTf == "main.tf"

NoMainTf         == [kind |-> "none"]
PartialMainTf    == [kind |-> "partial"]
FullMainTf(c)    == [kind |-> "full", cfg |-> c]

NoConfig == [e \in {} |-> Absent]

\* The root configuration files of a directory.
IsConfig(e) == e.root /\ e.ext \in {".tf", ".json"}

\* The configuration terraform.Load reads and Write prints into main.tf:
\* the contents of the root configuration files it was generated from.
ConfigOf(d) == [e \in {x \in Entries : IsConfig(x)} |-> d[e]]

HasTapConfig == \E e \in TapFiles : src[e] # Absent

\* The entries under top-level name t.
Under(t) == {e \in Entries : e.top = t}

\* The names a walk of the working directory visits, in order.
Visits(d) == SelectSeq(TopOrder, LAMBDA t : \E e \in Under(t) : d[e] # Absent)

\* Whether top-level name t is in .tap.
InStaging(t) == \/ \E e \in Under(t) : stg[e] # Absent
                \/ t = MainTf /\ mainTf # NoMainTf

\* The names a walk of .tap visits, in order.
StagingVisits == SelectSeq(TopOrder, InStaging)

-----------------------------------------------------------------------------

Init == /\ src \in [Entries -> {Absent, 1}]
        /\ \A e \in Entries \ UserFiles : src[e] = Absent
        /\ stg = [e \in Entries |-> Absent]
        /\ stgExists = FALSE
        /\ mainTf = NoMainTf
        /\ pc = [p \in Procs |-> "idle"]
        /\ walk = [p \in Procs |-> <<>>]
        /\ cfg = [p \in Procs |-> NoConfig]
        /\ wrote = [e \in Entries |-> Absent]
        /\ clock = 2

\* tap is started.  tap.Load finds a *_tap.hcl or tap.hcl file (setup.go
\* 31, load.go 75-107): then the staging directory is cleaned, which ends
\* at once when it does not exist (helper.go 70-72); otherwise the
\* working directory is handed over as it is (setup.go 36, 76-81).
\* filepath.Walk reads the names of .tap here, before it visits any.
Start(p) ==
    /\ pc[p] = "idle"
    /\ IF HasTapConfig
       THEN /\ pc' = [pc EXCEPT ![p] = IF stgExists THEN "clean" ELSE "load"]
            /\ walk' = [walk EXCEPT ![p] = IF stgExists THEN StagingVisits ELSE <<>>]
       ELSE /\ pc' = [pc EXCEPT ![p] = "run_src"]
            /\ UNCHANGED walk
    /\ UNCHANGED <<src, stg, stgExists, mainTf, cfg, wrote, clock>>

\* A clean that removes directories only.
CleanStepDirsOnly(p) ==
    /\ pc[p] = "clean"
    /\ walk[p] # <<>>
    /\ stg' = [e \in Entries |-> IF e.top = Head(walk[p]) /\ ~e.root THEN Absent ELSE stg[e]]
    /\ walk' = [walk EXCEPT ![p] = Tail(walk[p])]
    /\ UNCHANGED <<src, stgExists, mainTf, pc, cfg, wrote, clock>>

\* cleanDir visits the next top-level name of .tap (helper.go 74-101): a
\* directory is removed with all it holds, a file unless it is a state
\* file.  main.tf is a root file of .tap like any other.  A name that is
\* gone by now fails the Lstat of the walk: walkFn returns the error
\* (75-77) and Setup returns it (39-41).
CleanStep(p) ==
    /\ pc[p] = "clean"
    /\ walk[p] # <<>>
    /\ LET t == Head(walk[p]) IN
       IF InStaging(t)
       THEN /\ stg' = [e \in Entries |-> IF e.top = t /\ ~(e.root /\ e.state)
                                         THEN Absent ELSE stg[e]]
            /\ mainTf' = IF t = MainTf THEN NoMainTf ELSE mainTf
            /\ walk' = [walk EXCEPT ![p] = Tail(walk[p])]
            /\ UNCHANGED pc
       ELSE /\ pc' = [pc EXCEPT ![p] = "idle"]
            /\ walk' = [walk EXCEPT ![p] = <<>>]
            /\ UNCHANGED <<stg, mainTf>>
    /\ UNCHANGED <<src, stgExists, cfg, wrote, clock>>

CleanDone(p) ==
    /\ pc[p] = "clean"
    /\ walk[p] = <<>>
    /\ pc' = [pc EXCEPT ![p] = "load"]
    /\ UNCHANGED <<src, stg, stgExists, mainTf, walk, cfg, wrote, clock>>

\* A load that leaves the creation of .tap out.
LoadAndApplyNoMkdir(p) ==
    /\ pc[p] = "load"
    /\ cfg' = [cfg EXCEPT ![p] = ConfigOf(src)]
    /\ pc' = [pc EXCEPT ![p] = "copy"]
    /\ walk' = [walk EXCEPT ![p] = Visits(src)]
    /\ UNCHANGED <<src, stg, stgExists, mainTf, wrote, clock>>

\* terraform.Load and tap.Apply (setup.go 43-53): the configuration is read
\* from the working directory; copyDir then creates .tap (helper.go 112).
LoadAndApply(p) ==
    /\ pc[p] = "load"
    /\ cfg' = [cfg EXCEPT ![p] = ConfigOf(src)]
    /\ pc' = [pc EXCEPT ![p] = "copy"]
    /\ stgExists' = TRUE
    /\ walk' = [walk EXCEPT ![p] = Visits(src)]
    /\ UNCHANGED <<src, stg, mainTf, wrote, clock>>

\* A copy that overwrites state files.
CopiesOverwriting(e) ==
    /\ src[e] # Absent
    /\ ~(e.root /\ e.ext = ".tf")

\* Whether copyDir writes entry e of the working directory into .tap: root
\* .tf files are skipped (135-137), state files that .tap already has are
\* not overwritten (179-184), everything else is copied over (188-206).
Copies(e) ==
    /\ src[e] # Absent
    /\ ~(e.root /\ e.ext = ".tf")
    /\ ~(e.state /\ stg[e] # Absent)

\* copyDir visits the next top-level name of the working directory.
CopyStep(p) ==
    /\ pc[p] = "copy"
    /\ walk[p] # <<>>
    /\ stg' = [e \in Entries |-> IF e.top = Head(walk[p]) /\ Copies(e) THEN src[e] ELSE stg[e]]
    /\ walk' = [walk EXCEPT ![p] = Tail(walk[p])]
    /\ UNCHANGED <<src, stgExists, mainTf, pc, cfg, wrote, clock>>

\* main.tf is opened with O_TRUNC (setup.go 61): from here until Write
\* returns it holds part of the configuration.
OpenMainTf(p) ==
    /\ pc[p] = "copy"
    /\ walk[p] = <<>>
    /\ mainTf' = PartialMainTf
    /\ pc' = [pc EXCEPT ![p] = "write"]
    /\ UNCHANGED <<src, stg, stgExists, walk, cfg, wrote, clock>>

\* terraform.Write returns (setup.go 68-73) and Setup hands the staging
\* directory to the delegated binary.
WriteMainTf(p) ==
    /\ pc[p] = "write"
    /\ mainTf' = FullMainTf(cfg[p])
    /\ pc' = [pc EXCEPT ![p] = "run_stg"]
    /\ UNCHANGED <<src, stg, stgExists, walk, cfg, wrote, clock>>

\* The process is killed, or a file operation fails and Setup returns the
\* error, after any step: nothing of Setup is undone.
Abort(p) ==
    /\ pc[p] \in {"clean", "load", "copy", "write"}
    /\ pc' = [pc EXCEPT ![p] = "idle"]
    /\ walk' = [walk EXCEPT ![p] = <<>>]
    /\ UNCHANGED <<src, stg, stgExists, mainTf, cfg, wrote, clock>>

-----------------------------------------------------------------------------
(* The environment: the delegated binary and the user.                     *)

\* terraform or tofu runs in .tap: it writes one of its files there (the
\* state, a workspace's state, what init installs).
TerraformInStaging(p) ==
    /\ pc[p] = "run_stg"
    /\ clock < MaxClock
    /\ \E e \in TfWrites :
          /\ stg' = [stg EXCEPT ![e] = clock]
          /\ wrote' = [wrote EXCEPT ![e] = clock]
    /\ clock' = clock + 1
    /\ pc' = [pc EXCEPT ![p] = "idle"]
    /\ UNCHANGED <<src, stgExists, mainTf, walk, cfg>>

\* It runs in the working directory itself.
TerraformInSource(p) ==
    /\ pc[p] = "run_src"
    /\ clock < MaxClock
    /\ \E e \in TfWrites : src' = [src EXCEPT ![e] = clock]
    /\ clock' = clock + 1
    /\ pc' = [pc EXCEPT ![p] = "idle"]
    /\ UNCHANGED <<stg, stgExists, mainTf, walk, cfg, wrote>>

\* The command ends without writing anything.
TerraformReadOnly(p) ==
    /\ pc[p] \in {"run_stg", "run_src"}
    /\ pc' = [pc EXCEPT ![p] = "idle"]
    /\ UNCHANGED <<src, stg, stgExists, mainTf, walk, cfg, wrote, clock>>

\* Between two commands the user edits, creates or deletes a file.
Edit ==
    /\ \A p \in Procs : pc[p] = "idle"
    /\ clock < MaxClock
    /\ \E e \in UserFiles, v \in {Absent, clock} :
          /\ src[e] # v
          /\ src' = [src EXCEPT ![e] = v]
    /\ clock' = clock + 1
    /\ UNCHANGED <<stg, stgExists, mainTf, pc, walk, cfg, wrote>>

Next == \/ \E p \in Procs :
              \/ Start(p) \/ CleanStep(p) \/ CleanDone(p) \/ LoadAndApply(p)
              \/ CopyStep(p) \/ OpenMainTf(p) \/ WriteMainTf(p) \/ Abort(p)
              \/ TerraformInStaging(p) \/ TerraformInSource(p) \/ TerraformReadOnly(p)
        \/ Edit

Spec == Init /\ [][Next]_vars

-----------------------------------------------------------------------------
(* Properties                                                              *)

\* The types of the variables; nothing is in .tap while it does not exist.
TypeOK ==
    /\ ~stgExists => stg = [e \in Entries |-> Absent] /\ mainTf = NoMainTf
    /\ src \in [Entries -> 0..MaxClock]
    /\ stg \in [Entries -> 0..MaxClock]
    /\ wrote \in [Entries -> 0..MaxClock]
    /\ mainTf \in {NoMainTf, PartialMainTf} \cup
                 {FullMainTf(c) : c \in [{e \in Entries : IsConfig(e)} -> 0..MaxClock]}
    /\ pc \in [Procs -> {"idle", "clean", "load", "copy", "write", "run_stg", "run_src"}]
    /\ \A p \in Procs : \A i \in DOMAIN walk[p] : \E j \in DOMAIN TopOrder : walk[p][i] = TopOrder[j]
    /\ clock \in 2..MaxClock

\* No invocation of tap, whatever it is interrupted by, loses or replaces
\* a state file terraform wrote at the root of .tap: cleanDir keeps state
\* files (helper.go 67-68, 92-98) and copyDir does not overwrite them
\* (109-110, 177-184), over any number of runs, edits and runs of
\* terraform outside .tap.
RootStateKept ==
    \A e \in Entries : e.root /\ e.state /\ wrote[e] # Absent => stg[e] = wrote[e]

\* Every state file terraform wrote anywhere in .tap is still there
\* ("clean a directory, but keep the state files", helper.go 67-68).
StateKept ==
    \A e \in Entries : e.state /\ wrote[e] # Absent => stg[e] = wrote[e]

\* While terraform runs in .tap, whatever other invocation runs beside
\* it, it finds the directory as the user has it now: main.tf complete
\* and generated from the current configuration, every other file copied
\* from the working directory at its current content, no file the user
\* has deleted since an earlier run, and none of the root .tf files
\* main.tf replaces.  State files are the
\* exception this property leaves to RootStateKept.
StagingCurrent ==
    \A p \in Procs : pc[p] = "run_stg" =>
        /\ mainTf = FullMainTf(ConfigOf(src))
        /\ \A e \in Entries :
              ~e.state => stg[e] = IF e.root /\ e.ext = ".tf" THEN Absent ELSE src[e]

=============================================================================
