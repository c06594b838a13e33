# TLA+ models of kubeclipper's container-runtime and registry handling

This directory holds TLA+ models of parts of kubeclipper that are checked
with TLC. Each model is translated from the Go sources under `src/`. The
model for each part has two layers: a specification module (`X.tla`), and
an `MC_X.tla` module that fixes its constants for TLC. Each question the
model answers has its own `MC_X*.cfg`. `PROJECT.json` records:

- the runs;
- the mutants that show each checked property can fail;
- the map from every definition to the source lines it translates;
- the findings;
- the hazards.

## 1. The system and its parts

| Part | Source | State and operations | Interacts with |
|---|---|---|---|
| CRI registry reconciler | `src/pkg/apis/core/v1/cri_utils.go` | Reads a `Cluster`: insecure hosts, addon configs, registry entries that are inline or by reference. Produces a sorted, de-duplicated `[]RegistrySpec`. Filters `ContainerRuntime.Registries` in place. Diffs the result against `Status.Registries` and builds an update step for the cluster's nodes. | The registry store (`GetRegistry`), the node list (`ListNodes`), and the step executor that runs the produced step on nodes. |
| Registry configuration on a node | `src/pkg/scheme/core/v1/cri/containerd.go` (`ContainerdRegistryConfigure`, `renderConfigs`, `ToContainerdRegistryConfig`) | Disk state: the `certs.d/<server>/` directories, each holding `hosts.toml` and `<host>.pem`, plus `config.toml` and the running containerd. One `Install` call does ReadDir, renders each server, removes stale directories, writes `config.toml` and restarts containerd. | Receives the reconciler's registry list as a step. The executor retries failed attempts. |
| Container teardown | `src/pkg/scheme/core/v1/k8s/utils.go` (`deleteContainer`) | Walks a snapshot of a namespace's containers: Task, Wait, Kill, receive the exit, delete the task, delete the container. | containerd, whose tasks exit and which other clients (kubelet, the CRI plugin) modify concurrently. |
| Containerd runnable | `containerd.go` (`InitStep`, `GetActionSteps`, `Install`, `Uninstall`, `matchPauseVersion`) | `InitStep` fills a fresh runnable and marshals it into the steps' JSON payload. On the node, `Install` downloads, writes `config.toml`, renders `certs.d` with `renderRegistryConfig`, enables and restarts containerd and configures crictl. `Uninstall` stops and disables the unit and removes the files, logging every error. | The executor; the registry list from the reconciler. |
| Calico runnable | `src/unnamed/part_000` | `InitStep`, `InstallSteps`/`UninstallSteps`, and a closed table of version templates. | The executor. |
| Join-command extraction | `utils.go` (`sanitizeCommand`, `extractJoinCommands`) | Joins the continuation lines of `kubeadm init` output, then cuts out the control-plane and worker join commands with two lazy regular expressions. | The kubeadm install steps that hand the commands to joining nodes. |
| kubeadm helpers | `utils.go` (`generateKubeConfig`, `doCommandRemoveStep`, `isServiceActive`) | Constructors and single I/O calls. | None. |

### Hard behaviours

- **Keys.** The reconciler keys entries by `Scheme+Host` with no separator, so two different registries can get the same key. The reconciler inserts by binary search (`sort.Find`), which is only correct if the slice stays sorted.
- **In-place filter.** `validRegistries := c.ContainerRuntime.Registries[:0]` writes into the caller's backing array. An error return halfway through leaves that array half rewritten.
- **The node's file operations can fail anywhere.** Any of them can fail, and the agent can crash between any two. `os.Create` truncates `hosts.toml` before `Encode` writes it. `RemoveAll`, `config.toml` and restart errors are only logged. The executor re-runs a failed attempt.
- **Asynchronous Wait.** The containerd client's `task.Wait` returns a channel at once and issues the RPC from a goroutine. The RPC therefore races the task's exit and the task's deletion by other clients. The receive on the channel blocks until it answers.

### What makes each part correct

- **Reconciler.**
  - The result is, for each key, the first candidate in insertion order, sorted by key.
  - The caller's list keeps exactly the resolvable entries, with an empty ref normalised to nil.
  - An update step is produced exactly when the set changed.
- **Registry configuration.** When a step reports success, `certs.d` holds exactly the wanted servers, each with a complete `hosts.toml` rendered from its hosts, and containerd runs the new config. Each https entry's CA file holds its CA.
- **Teardown.** A nil return means no listed task is still running, apart from a task whose lookup failed, which spec §8 treats as "no task". The function always returns. It aborts only on real errors.
- **Join extraction.** master is the control-plane command and worker the other one, whichever comes first in the output (spec §8).

## 2. Modules

| Module | Models | State (VARIABLES) | Actions |
|---|---|---|---|
| `CRIRegistries` | `getClusterCRIRegistries`, `appendUniqueRegistry`, `registriesEqual`, `getCRIRegistriesStep`, `criRegistryUpdateStep` | Inputs (`insecureCfg`, `addons`, `status`, `nodeCount`, `origRegs`). `clusterRegs` is the caller's backing array. Also `insecureRegistry`, `registries`, `validLen` (the length of `validRegistries`), `i`, `pc` and `step`. | One per loop iteration kind: `CopyInsecure`, `AddonMirror`, `ExpandInsecure`, `InlineRegistry`, `LookupFound`, `LookupNotFound` and `LookupError`. Then `RegistriesDone`, `Diff`, `ListNodesFailed` and `UpdateStep`. |
| `RegistryConfigure` | `ContainerdRegistryConfigure.Install`, `renderConfigs`, `ToContainerdRegistryConfig`, across repeated steps and retries | Disk: `dirs`, `toml`, `pem` and `configToml`, plus `daemonCfg` (the configuration containerd is running). The attempt's locals: `oldDirs`, `todo`, `cur`, `entries` and `staged`. What the attempt only logged: `removeFailed` and `errLogged` (a failed config.toml write or restart). | `ReadDir`, `RenderNext` (MkdirAll), `RenderEntry` (CA file, map entry), `CreateHostsToml` (truncate), `EncodeHostsToml` (write, `delete(oldDirs)`), `RemoveStale`, `WriteConfigToml` and `RestartContainerd`. The executor and environment actions are `StartStep`, `Crash` and `AttemptFailed`. |
| `RegistryConfigureAbstract` | The update step's contract (spec §4.2: Install converges when re-run; §7(d): cleanup errors are logged) | `dirs`, `toml`, `pem`, `want`, `run`, `busy`, `outcome`, `logged` | `Begin`. While busy: `Prepare(s)` (a wanted server's directory, CA file or hosts.toml, either truncated or with its rendered content), `EvictStale(s)`, `LogRemoveFailure(s)` and `NewAttempt`. Then `Fail`, or `Succeed` only from a `Converged` store. |
| `ContainerdHosts` | `ToContainerdRegistryConfig`, `HostFileConfig`, `HostFile`, and the content `renderConfigs` writes | None: operators shared by `RegistryConfigure` and `ContainerdRunnable`. | `Rendered(regs, s)` is the complete hosts.toml of server `s`. |
| `ContainerdRunnable` | `InitStep`, `GetActionSteps`, `Install`, `Uninstall`, `setupContainerdConfig`, `renderRegistryConfig`, `enableContainerdService`, `disableContainerdService`, `matchPauseVersion` | Node: `unpacked`, `configToml`, `dirs`, `toml`, `enabled`, `running`, `loaded` (the config containerd was last restarted with) and `crictl`. Controller: `installed`, `metaVersion`, `payload` (what was marshaled), `runnablePause` (the runnable's pause after the fallback), `action`, `dryRun` (the step's `opts.DryRun`) and `run`. The attempt: `attempt`, `pc` and `todo`. | `StartInstall` (InitStep and the install step), `StartUninstall`. Install: `Download`, `SetupConfig`, `RenderServer`, `EnableService` and `Crictl`. Uninstall: `DisableService`, `UninstallNewInstance` and `RemoveFiles`. Executor and environment: `AttemptFailed`, `StepDone`, `Crash` and `Finished`. |
| `ContainerTeardown` | `deleteContainer` and the containerd client's Wait goroutine | containerd: `ctrExists`, `task`, `killed`. The function: `ctrs` (the snapshot), `k`, `pc` and `failedAt`. History: `lookupFailed`, the containers whose `Task` RPC failed while they had a task. The Wait RPC: `waitRPC`. | One per call: `Connect`, `List`, `GetTask`, `Wait`, `Kill`, `Recv`, `DeleteTask`, `DeleteCtr` and `LoopDone`. The Wait goroutine's actions are `WaitServed` and `WaitAnswered`. containerd and other clients: `TaskExit`, `OtherDeletesTask` and `OtherDeletesCtr`. |
| `JoinCommands` | `sanitizeCommand`, `extractJoinCommands` | `cmds` (the join commands of the output, in print order; the output is `Output(cmds)`), `master`, `worker`, `done` | `ExtractJoinCommands`. `Sanitize`, `MasterEnd`/`WorkerEnd` (one pattern tried at one word), `FindAll` (`FindAllString`) and `Extract` are operators; `RefMaster`/`RefWorker` are the spec's definition. |

A module abstracts data as follows:

- strings that are compared or concatenated are sequences of byte values;
- CAs and registry references are model values;
- formatting, logging, capabilities and file paths are left out;
- a hosts.toml is the map from scheme to (skip_verify, has-CA).

Every action models the whole handler step, error paths included.

## 3. Runs

| Run | cfg | Expect | Shows |
|---|---|---|---|
| `cri_registries` | `MC_CRIRegistries.cfg` | pass | Checked over all inputs of up to 2 insecure hosts, 1 addon and 2 registry entries. The merge equals the reference set (`RegistriesMatchReference`). The in-place filter keeps exactly the resolvable entries (`ValidRegistriesKept`). A step is produced exactly when the set changed (`StepIffChanged`). About 72k states in under 20 s. |
| `cri_lookup_error` | `_error.cfg` | violation | `[r2 (deleted), r1, r1 (GetRegistry error)]` leaves the cluster with `[r1, r1, r1]`: one entry duplicated and one lost. |
| `teardown` | `MC_ContainerTeardown.cfg` | pass | Three containers in every task state. Every RPC may fail spuriously except `task.Wait`, whose client returns a nil error and leaves the failure to the RPC behind the channel, and containerd and other clients race the loop. A nil return leaves no listed task running except one whose `Task` lookup failed while it ran (utils.go:120, which spec §8 allows), and `deleteContainer` always returns (under the fairness below). |
| `teardown_wait_race` | `_waitrace.cfg` | violation | With no spurious failures, the sequence is: kill, exit, another client deletes the task, then the Wait RPC is served. The RPC answers NotFound, `status.Result()` fails, and the uninstall aborts. |
| `registry_configure` | `MC_RegistryConfigure.cfg` | pass | Three update steps with every file operation able to fail, crashes at any point, and one retry. `RefinesAbstract` checks `RegistryConfigureAbstract!ASpec` under the mapping `busy <- pc # "idle"`, `logged <- removeFailed`, with the disk variables mapped to themselves. So every intermediate disk state of every attempt is one the contract allows, and a successful step leaves exactly its servers with complete hosts.toml files, stale directories surviving only where their `RemoveAll` failed (the abstract `Succeed` requires a converged store). `DaemonStaleOnlyWhenLogged` checks that a successful step leaves containerd on a configuration other than its own (an older one, or a config.toml broken by a failed write) only when that attempt logged the failed write or restart (containerd.go:362-375). |
| `registry_ca_file` | `_ca.cfg` | violation | Host `t` has both schemes with different CAs. The sorted order is https then http, so the http CA overwrites `t.pem`, which the https entry trusts. |
| `containerd_runnable` | `MC_ContainerdRunnable.cfg` | pass | Three install or uninstall steps in any order, every file and systemctl operation able to fail, crashes, and one retry. A successful install leaves containerd enabled and running the payload's `config.toml`, crictl configured, and every payload server's hosts.toml complete (`InstalledAsPayload`). `matchPauseVersion` agrees with a reference parse of major and minor on v1.24 to v1.28 strings, and the marshaled payload carries the pause of `metadata.KubeVersion` (`PauseVersionMatchesReference`). About 91k states in under 20 s. |
| `containerd_pause_payload` | `_sandbox.cfg` | violation | With an empty `metadata.KubeVersion`, `json.Marshal` (line 87) runs before the fallback to `cluster.KubernetesVersion` (lines 91-93). The node's containerd is configured with pause `""` on `k8s.gcr.io`, while the runnable settled on 3.9 on `registry.k8s.io`. |
| `containerd_stale_certs` | `_stale.cfg` | violation | A failed install leaves `certs.d/t`. A later install with other registries succeeds and keeps it, because `renderRegistryConfig` only writes. An uninstall whose `RemoveAll` failed leaves the same state. |
| `containerd_dry_run` | `_dryrun.cfg` | violation | Install, then a dry-run uninstall. `disableContainerdService` and `RemoveConfigs` respect `opts.DryRun`, but the `os.RemoveAll` calls (lines 198-210) do not, so the dry run deletes `config.toml` and `certs.d` (`DryRunLeavesNode`, an action property). spec.md says dry-run mode skips all filesystem and service mutations. |
| `join_commands` | `MC_JoinCommands.cfg` | pass | Every output of up to two join commands (each worker or control-plane, over two value words) is extracted. On the output `kubeadm init` prints, the control-plane command followed by the worker command with the same endpoint, token and hash, both are returned whole (`KubeadmInitExtracted`). The worker is right only because its first match, the start of the control-plane command, has the same words. |
| `join_worker_first` | `_order.cfg` | violation | Worker command first: the master pattern's leftmost match starts at the worker command's `kubeadm join`, and the lazy `.*?` runs across the prose to `--control-plane`, so master is both commands. |

Each property of a passing run has a mutant in `PROJECT.json`: a plausible bug in a mapped definition that TLC catches with the property.

### Bounds

- **`CRIRegistries`.**
  - The two hosts `a` and `sa` are the smallest pair whose keys collide (`http`+`sa` = `https`+`a`). The code keeps only one of the two entries. `RegistriesMatchReference` deduplicates with the same key, so it checks that the code is consistent, not that the key is right. The collision is listed as a hazard without a property in `PROJECT.json`.
  - The two references cover "exists" and "deleted".
  - `OldStore` makes a recorded status of the same length but different content possible.
  - One addon, inserted into a sorted list of 0 to 2 insecure hosts, reaches every position of the mirror insert.
  - Two entries per list is enough for every insertion position of the binary search (front, middle, end) and for the alias to overwrite an earlier slot.
  - Three entries make the run take more than 5 minutes. The error run uses three with no insecure hosts or addons.
- **`RegistryConfigure`.**
  - Two servers and three registry lists: the empty list (every registry removed), the insecure pair of `a`, and `https://t` with a CA. Lists that add and drop a server between steps exercise stale-directory removal.
  - Three steps and one retry (the steps the code builds use `RetryTimes: 1`). A step can then follow one that failed halfway and one that succeeded, and a retry can follow a partial attempt.
- **`ContainerdRunnable`.**
  - Two registry lists with disjoint servers make stale directories possible.
  - Three steps allow install, uninstall, install.
  - One retry (`RetryTimes: 1`, lines 103 and 123).
  - `DryRuns` is the set of `opts.DryRun` values a step may carry. The pass run fixes it to `{FALSE}` to stay small; the dry-run run allows both over two steps, which is the shortest sequence that has something on disk for a dry run to touch.
  - The version strings include 1.25 (the registry switch), strings with and without `v`, a two-digit patch, and a release outside the pause table.
- **`JoinCommands`.** Two commands cover both print orders. Two value words let the worker command differ from the start of the control-plane command. Each command is printed with kubeadm's continuations, so `sanitizeCommand` has work to do. The 601 outputs are all the inputs of that shape.
- **`ContainerTeardown`.** Three containers, each with any initial task state, cover every combination of visited, exited and deleted.

### Fairness

`ContainerTeardown` assumes weak fairness on the following:

- the loop itself, which is a single goroutine that only blocks on the channel;
- the client's Wait goroutine;
- the exit of a task to which SIGKILL was delivered, since the kernel ends it.

Spontaneous exits and other clients get no fairness. `CRIRegistries`, `RegistryConfigure`, `ContainerdRunnable` and `JoinCommands` check only safety. That their steps end would follow from the executor's attempt limit, which is outside `src/` and modelled from its contract, and from each attempt being straight-line code, so no liveness property is stated for them. `JoinCommands` takes one step and stops, so its cfgs turn off the deadlock check.

## 4. Not modelled (yet)

- In `ContainerdRunnable`:
  - `OfflineUpgrade` and `OnlineUpgrade`, which only return an error;
  - the Offline/LocalRegistry mirror choice, which no property tells apart;
  - the text of the `config.toml` template, which is not under `src/`. `ConfigOf` keeps only the sandbox image the runnable's pause fields select.
  - `FilterRegistryWithAuth` (line 517): its result only feeds that template;
  - the steps' `Identity`. The install step uses `RegisterStepKeyFormat` (line 109), the uninstall step `RegisterTemplateKeyFormat` (line 129). Both format strings and the agent's handler lookup are outside `src/`, so the model assumes both steps reach `Install`/`Uninstall`.
- `criRegistryUpdateStep` allocates `wrapNodes` with length 0 and indexes it (cri_utils.go:146). It therefore panics for every non-empty node list. Any unit test reaches this, so no run is spent on it. The `UpdateStep` action still models the panic.
- The Calico runnable. The steps it returns (chart install, `RenderYaml`, `ApplyYaml`, `InstallCalicoRelease`) and `BaseCni` run in code that is not under `src/`. What is under `src/` copies fields and switches on a closed version table, with no state across calls, so a unit test reaches every case.
- `generateKubeConfig`, `doCommandRemoveStep` and `isServiceActive`, which are constructors and single I/O calls.
- The CI workflow and `calico_test.go`.
- The step executor itself, which is outside `src/`. `StartStep`, `Crash` and `AttemptFailed` model it from its contract.

One behaviour is modelled, but no run checks a property about it. It is listed as a hazard in `PROJECT.json` with a note:

- The `Scheme+Host` key collision (cri_utils.go:101). The reference uses the same key.

## 5. Plan

The modules are listed in order of importance.

1. `CRIRegistries`. Done.
2. `RegistryConfigure`. Done.
3. `ContainerTeardown`. Done.
4. `ContainerdRunnable`. Done. The cached-steps branch (line 96) is not a hazard: spec §4.2 constructs a fresh runnable per `InitStep`.
5. `CalicoSteps`. Not modelled; see §4.
6. A composition `RegistryPipeline`. It would instance `CRIRegistries` for the reconciler, and feed its step into `RegistryConfigure` on each node.
7. `RegistryConfigureAbstract` and the refinement of `RegistryConfigure`. Done. `ContainerdRunnable`'s install path cannot refine it, because it never evicts stale servers (`containerd_stale_certs`).
8. `JoinCommands`. Done.
