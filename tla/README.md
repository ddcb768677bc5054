# TLA+ models of tap

tap sits in front of `terraform` or `tofu`. It works in four steps:
1. It reads `-chdir` from the command line.
2. It loads the Terraform configuration of the working directory, merging override files, and loads the patch files (`*_tap.hcl`, `tap.hcl`).
3. It applies the patches to the resource bodies and stages the result in `<dir>/.tap`: it cleans `.tap`, copies the directory into it and writes the patched root module to `.tap/main.tf`.
4. It runs the real binary with `-chdir=<dir>/.tap`.

This directory holds TLA+ models of every part of that pipeline where correctness is hard to see by testing:
- the patch engine and its dispatcher;
- the override merge;
- the entry point and the `-chdir` handling, with the loading of the patch files and of the Terraform configuration with its modules;
- the staging of the directory over repeated invocations;
- the writer that prints `main.tf`, with its expression unparser.

## 1. Inventory of the system

| Part | Source | State it keeps | Status |
|---|---|---|---|
| Path tokenizer | `pkg/tap/operate_with_json_pointer.go` 26-33, 643-665 | none (pure) | `JsonPointerPathOperator`, called by `TapApply` |
| Path resolver `Search` | same file, 44-136 | none; it walks the tree | `JsonPointerPathOperator` |
| Operation engine: `Add`, `Replace`, `Remove`, `Set` | same file, 138-641 | mutates the resource tree in place | `JsonPointerPathOperator`, `HclDocument` |
| Dispatcher: `Apply`, `Operate` | `pkg/tap/apply.go`, `operate.go` | the configuration and the loop position | `TapApply` |
| Patch-spec loader | `pkg/tap/load.go` 72-340 | the files found, the parsed bodies, the `Config` of patches, the collected diagnostics | `TapLoad` (`HasConfig`, unused, is left out) |
| Override merge | `pkg/terraform/load_overrider.go`, `load.go` | merged resource bodies | `OverrideMerge`, refined to `LoadOverrides` |
| Terraform loader | `pkg/terraform/load.go`, `load_walker.go` | the module manifest and the module tree | `TerraformLoad` (operators), composed into `ChdirOption`'s `Handover`; its root resource bodies are the MC modules' initial trees |
| Writer and unparser | `pkg/terraform/write.go`, `write_tokens.go`, `staging/hcl/hclwrite/*` | the `main.tf` being built | `Writer`, `HclTokens` (every node type of the `tokensForExpression` switch) |
| `-chdir`, Setup, the hand-over and `delegate` | `pkg/workingdir/setup.go` 13-81, `helper.go` 13-65, `cmd/delegate.go` | the arguments, the working directory, tap's output and exit status | `ChdirOption`, composed with `TapLoad` and `TerraformLoad` |
| Staging | `setup.go` 30-74, `helper.go` 67-210 | the `.tap` directory | `Staging` |
| Entry point, process start | `main.go`, `cmd/command_*.go` | child process | partly: `ChdirOption`'s `Main` (the argv[0] test and the binary lookup) and main's exit status; process start and signals are process I/O |
| Logging, signals, patched Terraform files | `staging/utils`, `staging/terraform` | none | not modelled (I/O, upstream code) |

How the parts interact:
1. `Setup` extracts `-chdir` and calls `tap.Load`. With no configuration it hands the working directory on unchanged; with one it calls `terraform.Load`, which merges override files with `mergeOverrides`, then `tap.Apply`.
2. `Apply` does the following for each patch:
   - it selects the managed or the data resources by type and name;
   - it skips the patch when there are none;
   - it calls `Operate`, which applies each operation to each selected resource in Go map order.

   An error ends `Apply` unless the patch has `continue_on_error`. A negative index panics.
3. `Setup` cleans `.tap` (keeping state files), copies the working directory into it (skipping root `.tf` files and existing state), and opens `main.tf` with `O_TRUNC`. `terraform.Write` then prints the patched module into it.
4. The binary runs in `.tap` with the new arguments.

Within one invocation the program is sequential. What makes it hard:
- **Aliasing.** The Go code shares pointers (`*hclsyntax.Body`, expressions, attribute maps) between resources.
- **Go map order.** Resources, attributes and provider metas are visited in Go map order, and `sort.Slice` is unstable.
- **Partial failure and interruption.** A splice can fail half way, and Setup can be killed after any step.
- **Invocations over time.** Terraform writes state between invocations and the user edits files.
- **Invocations at once.** Two invocations in one directory share `.tap` with no lock.
- **Lossy printing.** The unparser can print a tree that means something else.

## 2. Modules

* **`HclDocument`**: the syntax tree as a heap of nodes with integer handles. The node kinds are `body`, `amap` (the Go attribute map), `attr`, `block`, `object`, `tuple` and `lit`. Sharing a Go pointer is sharing a handle. `Den` gives the tree a handle denotes, which is what the writer would print.
* **`JsonPointerPathOperator`**: the tokenizer (`SplitPath`, `Unescape`, `TokenizeJSONPointerPath`, `NewJSONPointerPathOperator`) over paths written as sequences of atoms (`/`, `~` and words), with RFC 6901's decoding (`RFCSegments`) beside it; `Search` and the four operations, each an operator from a heap to the set of outcomes `[h, err]`, with one branch per `case` of the Go type switch.
  - `Panic` is the outcome of a negative slice index, and of a loop over a body's blocks that reaches a dynamic block without labels (`ScanPanics`; for Add's loop, which returns at the first match, `AddScanPanics`).
  - Add into a block group inserts attributes in map order and stops at the first one that exists, so any subset may have been inserted.
* **`TapApply`**: the dispatcher. It is a state machine over `heap`, `status`, the current operation, the resources still `todo` and a history.
  - `SkipPatch` (apply.go 26-28) and `RejectPath`.
  - `BeginOp`: selection, tokenizing the operation's path (`getPathOperator`), and `buildValue`'s allocation. `RejectPath` is `getPathOperator` failing.
  - One action per mode, `AddStep` … `SetStep`: one iteration of `Operate`'s loop, on a resource chosen with `\E`, which models Go map order.
  - `EndOp` and `Finish`.
* **`MCTapApply`**: three resources (`aws_instance.a`, `aws_instance.b`, `data.aws_ami.c`) with an object with a quoted and a bare key, a tuple, a block group with a static and a dynamic member, and a `lifecycle` block. Its library of 55 operations reaches every branch and error tag of every operation.
* **`OverrideMerge`**: `mergeOverrides` resource by resource, first the managed and then the data map, then Load's return. A body is one of:
  - native;
  - json;
  - `MergeBody{base, override}`, nested to either side;
  - nil.

  The merge follows the code:
  - attribute override;
  - the block filter by type;
  - dynamic blocks identified by their label;
  - the native-body checks that fail the load.
* **`LoadOverrides`**: the abstract load of spec §4.5. Every resource is either merged as a fold of its layers, or the load fails. `OverrideMerge` instantiates it with `INSTANCE … WITH` and checks `LO!Spec` as a property.
* **`TapLoad`**: `tap.Load` as a state machine over `lphase`, the directory `ldir`, the files found, the bodies parsed so far, the selectors still to decode, the `Config` and the collected error flag. A directory maps each file name to absent, a directory, or a file that reads and parses or not, holding top-level blocks; a block is a record of the fields the decoder reads (`header`, `ok`, `coe`, `syntax`, labels, operations).
  - `Discover` is the Glob-Stat-`tap.hcl` discovery (74-109); `ReadFile` is one iteration of the read loop (111-130); `BuildConfig` is `buildConfig` with the schema check of `buildResourcePatches` (140-199); `BuildResourcePatch` is one iteration of the selector loop (201-243), using `BuildOperations`, `BuildValue` and `PatchOf`; `FinishLoad` is Load's return (132-137).
  - `SpecLoad` is the loader of spec §4.4, §6 and §7, written from the spec: every file, merged, the tap block optional with defaults, every malformed element a load-time error, patches compared as a set since the spec leaves the file order open.
* **`ChdirOption`**: `extractChdirOption` as a RECURSIVE scan, and `Setup` composed with both loaders (`TL == INSTANCE TapLoad WITH Dirs <- SpecDirs`, `TF == INSTANCE TerraformLoad`). The actions are `Main` (main.go 15-41: os.Args[0] exactly `terraform` or `tofu` panics; otherwise the binary is found or tap exits 1), `Setup` up to `tap.Load` (13-31), `Load` (a step of `TL!Next`), `Handover` (32-81: a load error; no configuration; or a configuration, for which `terraform.Load` of a working directory from `TfDirs` fails, panics, or succeeds and the staging, modelled in `Staging`, succeeds or fails) and `Delegate`. Every failure before the binary runs sets tap's exit status: 1 for an error Setup returns, 2 for a panic. `Delegate` is `delegate` (delegate.go 28-57) with main's exit status (main.go 43-51). It covers the version hijack over all arguments, the banner, and the buffered `-json` run with its merge, its nil-map panic and its second `ce.Run`. It also covers the delegated binary parsing the new arguments and ending with a result from `Results`: the version command succeeds with a JSON object, and any other command exits 0 or 2 with output that may or may not be an object.
* **`TerraformLoad`**: `terraform.Load` and the module walker as operators over a working directory record: the state of `.terraform/modules/modules.json` (absent, an empty file, records, corrupt, or existing but unopenable), the manifest's records `[source, version, dir]` by module key, the root module and the installed modules (each readable or not, with or without errors, and its module calls `[name, source, constraint]`), and whether `mergeOverrides` succeeds. `ModuleKey` joins a path with `.`; `Walk` is the walker (nullWalker for an empty manifest, "not installed", the source and version checks, an unreadable directory); `BuildChildModules` is `configs.BuildConfig`'s recursion, which lives upstream and is modelled at its interface (every call of a loaded module is a request with its full path, a nil module ends the branch, diagnostics are collected); `Load` is the sequence of lines 18-61. `ReferenceLoad` states the loader's promise without the walk: the set of module paths whose every call resolves, and an error when any of them disagrees with the manifest.
* **`Staging`**: `Setup` over invocations in one directory, one after another or several at once (`Procs`). A directory is a function from entries to versions. Each invocation has its own `pc`, `walk` and `cfg`; the directories, `main.tf` and the clock are shared.
  - The steps are `Start`, `CleanStep` (one top-level name per step, from the listing `filepath.Walk` read at `Start`; a name another invocation removed meanwhile fails the walk's `Lstat`, and Setup returns the error), `CleanDone`, `LoadAndApply`, `CopyStep`, `OpenMainTf` (truncate), `WriteMainTf` and `Abort`. `Abort` is a kill or an I/O error after any step.
  - The environment has three actions: terraform writing in `.tap` or in the working directory, a read-only run, and the user's `Edit`.
* **`HclTokens`**: `tokensForExpression` and one operator per `TokensFor*Expr` function, over expression trees that are records tagged by node kind. It also defines `Eval`, HCL's evaluation of the same nodes, which is the reference the printed tokens are judged by.
* **`Writer`**: `terraform.Write`, one action per section in the code's order. Each section appends its blocks in an order `sort.Slice` can produce from a Go map (`SortedOrders`). `AppendHCLBody` is recursive over nested blocks, and `Flush` is `WriteTo`, which succeeds or fails.

Each MC module defines only the constants of its runs. `MCWriter` has:
- a rich root module, with settings, two providers (one aliased), variables in two files, locals, resources (the lexically first file has the later line), data, a module call and an output;
- a module with only a cloud block;
- an empty module.

The rich module's `name` attribute ranges over an expression library. The library holds only trees HCL's parser can produce: operators nested by precedence, left-associative, and no conditional used as an operand. `ForObjExprs` adds:
- `for` expressions with a key and a value variable, with a condition, with a key expression, and with grouping (`...`);
- an object, an attribute of an object (a relative traversal), and a splat with nothing after `[*]`.

The `for` expressions of the passing library have two variables. The code writes `for , v in` for a one-variable `for`, which cannot be parsed back; `main_tf` shows it.

## 3. Runs

| Run | cfg | Checks | Result, states |
|---|---|---|---|
| engine | `MCTapApply.cfg` | TypeOK, AddRemoveInverse, PathsFollowRFC, AddMonotone | holds, 63,534 |
| isolation | `MC_isolation.cfg` | Isolation | **violated**: one object value added to two resources is shared, and a later Add on one changes both |
| group_remove | `MC_group_remove.cfg` | RemoveIndexRemovesOne | **violated**: `remove /ebs/0` also drops `lifecycle` |
| operator_panic | `MC_operator_panic.cfg` | NoPanic | **violated**: `remove /ports/-2` panics. So does `add /dynamic` followed by `remove /ebs`: a value block has no labels, so the added dynamic block has none, and `Labels[0]` panics |
| override_merge | `MCOverrideMerge.cfg` | TypeOK, LastLayerWins, LoadSpec | holds, 4,105 |
| chdir | `MCChdirOption.cfg` | ExtractMatchesReference, LoadMatchesSpec, TfLoadMatchesReference, SetupEnds | holds, 58,850 (585 command lines × 17 layouts of patch files × 2 names tap is started under, 12 module layouts for `terraform.Load`, and the binary's results) |
| staging | `MCStaging.cfg` | TypeOK, RootStateKept, StagingCurrent | holds, 436,267 |
| workspace_state | `MC_workspace_state.cfg` | StateKept | **violated**: `cleanDir` deletes a workspace's and the backend's state in `.tap` |
| concurrent | `MC_concurrent.cfg` | StagingCurrent | **violated**: with two invocations, the second one's `cleanDir` removes the `main.tf` the first one's terraform is running on (spec §5 says invocations share no mutable state) |
| writer | `MCWriter.cfg` | TypeOK, BodiesKept, PrintedMeansOneThing | holds, 2,584 |
| main_tf | `MC_main_tf.cfg` | MainTfFaithful (BodiesKept, PrintedMeansOneThing and PrintedParses) | **violated**: in the trace TLC shows, a module call with a version gets `required_version` beside `version`, and `"${var.s}"` is printed as `${var.s}`. Each other cause, checked alone under the same model, violates it too: `(var.n + 1) * 2` prints as `var.n + 1 * 2`; `xs[*].a` prints as `xs[*]`; `[for v in xs : v]` prints as `[for , v in xs : v]`; a resource declared in a `.tf.json` file is printed with an empty body |
| delegation | `MC_delegation.cfg` | DelegatesVerbatim | **violated**: started as exactly `terraform`, main panics (the trace TLC shows). Each other cause, checked alone with the rest taken out of the cfg, violates it too: a `modules.json` that cannot be opened makes `terraform.Load` panic; `tap -chdir=a -chdir=b` stages `b` but terraform runs in `a`; and with only `plan -json version` as the command line (standing for `output -json version`), tap panics after terraform succeeded |

What the passing properties say:
- **AddMonotone**: Add never removes anything.
- **AddRemoveInverse**: Add then Remove of an attribute restores the tree.
- **PathsFollowRFC**: every operation begun has an RFC 6901 pointer as its path and walks exactly the RFC's reference tokens of it (`~01` is the key `~1`, `a~1b` the key `a/b`).
- **LastLayerWins**: the last override file wins per attribute and per block identity.
- **LoadSpec**: the merge implements the all-or-nothing `LoadOverrides`.
- **ExtractMatchesReference**: the `-chdir` extraction agrees with Terraform's rule stated over the whole command line.
- **LoadMatchesSpec**: when `tap.Load` returns, it fails exactly when the spec says the patch files are in error, and otherwise its patches are the spec's, each with the `continue_on_error` it or the tap block gives.
- **SetupEnds**: whatever the command line and the patch files, Setup either fails or the delegated binary accepts the arguments and runs.
- **DelegatesVerbatim** (spec.md 88-90): the binary runs in the directory Setup staged, its output reaches the user, and tap exits with its exit code; a failure before that exits 1 with Setup's error, never by a panic.
- **TfLoadMatchesReference**: `terraform.Load` and its walker return the configuration with every installed module, or fail when a module of the tree is not installed, has a changed source or version, cannot be read, or has errors; with no manifest the root stands alone.
- **RootStateKept**: the root state in `.tap` survives every interruption and edit.
- **StagingCurrent**: while terraform runs in `.tap`, the directory is complete and current. With one invocation at a time this holds; `concurrent` shows it failing when two run at once.
- **BodiesKept**: every declaration is printed once with its whole body, nested blocks included.
- **PrintedMeansOneThing**: no two library expressions of different meaning print the same tokens.
- **PrintedParses** (checked only inside MainTfFaithful): every interpolation printed into `main.tf` stands between quotes, and every `for` keyword is followed by a variable name.

Each violation is a finding in `PROJECT.json`. Each property of a passing run has a mutant, a plausible bug in the mapped code that TLC catches:

| Run / property | Mutant |
|---|---|
| engine TypeOK | no dynamic unwrap in Replace/Set |
| engine AddRemoveInverse | off-by-one tuple removal |
| engine PathsFollowRFC | `~0` unescaped before `~1` |
| engine AddMonotone | Add without the exists check |
| override_merge TypeOK | data resources never merged |
| override_merge LastLayerWins | block filter by type, ignoring dynamic labels |
| override_merge LoadSpec | merge error not returned |
| chdir ExtractMatchesReference | scan without the break at the first non-option |
| chdir LoadMatchesSpec | a selector not inheriting the tap block's `continue_on_error` |
| chdir SetupEnds | no default to the current directory |
| chdir TfLoadMatchesReference | a walker that looks the record up by the call's own name, not its whole path (`WalkOwnKey`) |
| staging TypeOK | Load without creating `.tap` |
| staging RootStateKept | copy overwriting state |
| staging StagingCurrent | clean removing only directories |
| writer TypeOK | `WriteTo` error dropped |
| writer BodiesKept | setter that appends a duplicate |
| writer PrintedMeansOneThing | `-` printed as `+` |

### Bounds

- **engine.** `MaxOps = 2`. Every sequence hazard needs two operations, one that creates sharing or state and one that acts on it. The library covers each error tag, the empty path, two keys written with escapes (`/tags/a~1b`, `/tags/~01`), indices `-2`, `-1`, `0`, `1` and `5`, a non-integer index, and paths through an attribute into a literal. Paths without the leading `/`, and `/` itself, are left out: the code accepts them and PathsFollowRFC fails on them (a hazard in `PROJECT.json`).
- **override_merge.** Two managed resources and one data resource, each with a body from a set that covers:
  - every body kind;
  - merge trees nested to both sides;
  - static and dynamic blocks sharing a type.
- **chdir.** Every command line of up to three arguments over `-chdir`, `-chdir=`, `-chdir=a`, `-chdir=b`, `-v`, `-json`, a subcommand `plan` and the word `version`. Two `-chdir=` options, and a version word with `-json`, are what `delegation` needs; three arguments allow `plan -json version`. The working directory holds one of 17 layouts over `a_tap.hcl`, `b_tap.hcl` and `tap.hcl` (`MCSpecDirs`): no file, `tap.hcl` a directory, an empty file, patches spread over three files with inherited and overridden `continue_on_error`, aliases and name filters, an unreadable file, a syntax error, a tap header with a label, a tap body that does not decode, an element the grammar does not allow, a selector that does not decode, an operation without a path, without a value or with two value blocks, and a selector without operations. Each layout has at most one tap block: `DivergentDirs` holds the layouts on which code and spec part (no tap block, an unknown `path_syntax`); with `SpecDirs <- DivergentDirs` LoadMatchesSpec fails, and these are recorded as hazards. tap is started as `tap` or as exactly `terraform`. For `terraform.Load` (`MCTfDirs`) the root calls `a` and `b` (local modules) and `a` calls `b` from a registry, pinned to v1. The manifest keys are `a`, `a.b` and `b`, so a walker that used the call's own name as the key would find `b`'s record for `a.b`. There is one directory per outcome: no manifest; an empty one; all installed; the overrides failing; the root with errors; a corrupt manifest; `a.b` with a changed source, a changed version, no version, or no record; its directory unreadable; and `a` with errors. Depth two is the least at which the key of a whole path differs from a call's name. `delegation` adds a manifest that exists but cannot be opened (`UnopenableTfDirs`), on which the code panics where `ReferenceLoad` fails.
- **staging.** Seven entries: a root `.tf` file, a root non-`.tf` file, the tap file, the root, backend and workspace states, and a provider directory. `MaxClock = 7` allows several invocations with edits and terraform writes between them. `staging` and `workspace_state` run one invocation at a time (`Procs = {p1}`). `concurrent` runs two with `MaxClock = 4`: the clash needs only one complete staging and the start of a second.
- **writer.** 122 expressions: arithmetic two operators deep, and the for, object and splat forms above. `main_tf` uses six: the two parenthesis trees, a splat over two objects with and without `.a` after `[*]`, `"${var.s}"` and a one-variable `for`. Its modules carry each of them with a module call with and without a version, and with resource `b` declared in `a.tf` or in `a.tf.json`. `Envs` gives `n` the values 0 and 2 and `b` both booleans, which is enough to tell `(n+1)*2` from `n+1*2`. Declarations sit in several files, so the file-first comparator is exercised, and no two declarations share a file and line.

### Fairness

- **OverrideMerge, LoadOverrides, TapLoad and ChdirOption** have `WF_vars(Next)`. Each is straight-line Go in one goroutine that never waits, so it takes a step until it returns.
- **TapApply, Staging and Writer** have no fairness and no liveness property. TapApply's loops are bounded by the finite paths and heap, so its termination says nothing about the code. Staging's environment (the user, terraform) is under no obligation to act. Writer's properties are invariants.
- **Deadlock checking** is off where a final state (returned, failed, panicked, done) is the program stopping. It stays on for `staging`, where the idle state can always start another invocation.

## 4. Not modelled, and the plan

These parts are not modelled:
- **HCL parsing of the patch files**: a file either parses into its top-level blocks or reports an error; which text does which is HCL's parser, not tap's.
- **HCL parsing of the Terraform configuration and `configs.BuildConfig`**: upstream code. A module is the record of what the walker and Load look at; BuildConfig is modelled at its interface. Module sources form a tree (a module that calls itself is not an input).
- **The rest of the unparser**:
  - JSON bodies, which `AppendHCLBody` ignores (a hazard);
  - constraints after the first `required_version` (a hazard).
- **Process start, logging and signals**: I/O. `newCommandContext` starts the binary in its own process group (`Setpgid`), so the terminal's interrupt reaches only tap, and the context the signal handler cancels makes `exec.CommandContext` kill the binary. The handler's source is not in the repository (only `staging/utils/signals/doc.go`), so this is left out.
- **The copied upstream Terraform files.**

Abstractions:
- Literal values are small records.
- Formatting, whitespace and source ranges are dropped. The writer keeps only the (file, line) key its sorts use.
- In Staging, file contents are version numbers, and symlinks and `isSameFile` are left out. A clean or copy step handles one top-level name atomically, so interleavings inside a name (a `MkdirAll` of one invocation before the other's `RemoveAll` of the same directory) are not explored; the clash `concurrent` shows needs none of them. Concurrent invocations read the same configuration, since the user edits only while none runs.
