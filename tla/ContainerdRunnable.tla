-------------------------- MODULE ContainerdRunnable --------------------------
(***************************************************************************)
(* The containerd component (src/pkg/scheme/core/v1/cri/containerd.go).    *)
(* On the controller, InitStep fills a fresh ContainerdRunnable and        *)
(* serializes it into the payload of the install and uninstall steps; on   *)
(* the node, the agent deserializes the payload and runs Install or        *)
(* Uninstall.  The node's state is what those leave behind: the unpacked   *)
(* configs, config.toml, the certs.d host directories, the systemd unit    *)
(* and the crictl endpoint.                                                *)
(*                                                                         *)
(* The controller installs containerd on a node that does not have it and  *)
(* uninstalls it at any time; each step is retried RetryTimes times, and   *)
(* the agent may crash during any attempt.                                 *)
(***************************************************************************)
EXTENDS Integers, FiniteSets, ContainerdHosts

CONSTANTS
    Desired,        \* registry lists an install step may carry
    ClusterVersion, \* cluster.KubernetesVersion, a string as a sequence of characters
    PauseTable,     \* k8sMatchPauseVersion: 3-digit key -> pause image version
    PauseByMinor,   \* the pause image each Kubernetes 1.<minor> release uses
    KubeVersions,   \* version strings matchPauseVersion is checked on
    MaxRuns,        \* how many steps reach the node
    RetryTimes,     \* Step.RetryTimes of the install and uninstall steps
    FailingOps,     \* operations that may fail, a subset of Ops
    DryRuns         \* the opts.DryRun values steps are run with

Ops == {"Download", "MkdirAll", "WriteConfig", "Render", "Reload", "Enable",
        "Restart", "Crictl", "NewInstance", "Stop", "Disable", "RemoveConfigs",
        "RemoveAll"}

ASSUME /\ Desired \subseteq Seq(RegistrySpec)
       /\ FailingOps \subseteq Ops /\ DryRuns \subseteq BOOLEAN
       /\ RetryTimes \in Nat /\ MaxRuns \in Nat

Fails(op) == op \in FailingOps

-----------------------------------------------------------------------------
(* matchPauseVersion(kubeVersion): strip every "v" and ".", keep the first *)
(* three characters (a shorter string panics on the slice), look them up   *)
(* in k8sMatchPauseVersion ("" when absent) and choose registry.k8s.io     *)
(* when strconv.Atoi of them is at least 125 (an Atoi error yields 0).     *)
DigitChars == <<"0", "1", "2", "3", "4", "5", "6", "7", "8", "9">>

DigitValue(c) == CHOOSE n \in 0..9 : DigitChars[n + 1] = c

Atoi(s) ==
    IF \A j \in DOMAIN s : s[j] \in ToSet(DigitChars)
    THEN FoldLeft(LAMBDA acc, c : acc * 10 + DigitValue(c), 0, s)
    ELSE 0

OldRegistry == "k8s.gcr.io"
NewRegistry == "registry.k8s.io"
Panic       == [version |-> "panic", registry |-> "panic"]

\* mutant: the registry switch is taken from 1.26 on.
UsesNewRegistryGT(key) == Atoi(key) > 125

\* if v, _ := strconv.Atoi(kubeVersion); v >= 125
UsesNewRegistry(key) == Atoi(key) >= 125

MatchPauseVersion(kubeVersion) ==
    LET digits == SelectSeq(kubeVersion, LAMBDA c : c \notin {"v", "."})
        key    == SubSeq(digits, 1, 3)
    IN  IF kubeVersion = <<>> THEN [version |-> "", registry |-> OldRegistry]
        ELSE IF Len(digits) < 3 THEN Panic
        ELSE [version  |-> IF key \in DOMAIN PauseTable THEN PauseTable[key] ELSE "",
              registry |-> IF UsesNewRegistry(key) THEN NewRegistry ELSE OldRegistry]

(* The reference: read "v"? major "." minor from the version string and    *)
(* pick the pause image and registry of that release.                      *)
Fields(s) ==
    LET dots == SelectSeq([j \in DOMAIN s |-> j], LAMBDA j : s[j] = ".")
        from == IF s # <<>> /\ s[1] = "v" THEN 2 ELSE 1
    IN  [major |-> Atoi(SubSeq(s, from, dots[1] - 1)),
         minor |-> Atoi(SubSeq(s, dots[1] + 1, IF Len(dots) > 1 THEN dots[2] - 1 ELSE Len(s)))]

ReferencePause(v) ==
    LET f == Fields(v)
    IN  [version  |-> IF f.minor \in DOMAIN PauseByMinor THEN PauseByMinor[f.minor] ELSE "",
         registry |-> IF f.major > 1 \/ f.minor >= 25 THEN NewRegistry ELSE OldRegistry]

-----------------------------------------------------------------------------
(* InitStep: the fields it sets, then json.Marshal(runnable) into the      *)
(* payload of both steps, and only then the fallback to                    *)
(* cluster.KubernetesVersion when the metadata gave no pause version.      *)
InitStepPayload(metaVersion, regs) ==
    [registries |-> regs, pause |-> MatchPauseVersion(metaVersion)]

InitStepRunnablePause(metaVersion) ==
    IF MatchPauseVersion(metaVersion).version = ""
    THEN MatchPauseVersion(ClusterVersion)
    ELSE MatchPauseVersion(metaVersion)

(* config.toml, by what the template renders from the runnable that        *)
(* matters here: the sandbox (pause) image.                                *)
ConfigAbsent == [st |-> "absent", pause |-> [version |-> "", registry |-> ""]]
ConfigBroken == [st |-> "broken", pause |-> [version |-> "", registry |-> ""]]
ConfigOf(p)  == [st |-> "written", pause |-> p.pause]
VARIABLES
    unpacked,     \* node: the containerd configs/binaries are unpacked
    configToml,   \* node: /etc/containerd/config.toml
    dirs,         \* node: certs.d/<server> exists
    toml,         \* node: certs.d/<server>/hosts.toml
    enabled,      \* node: containerd.service enabled
    running,      \* node: containerd.service running
    loaded,       \* node: the config.toml containerd was last (re)started with
    crictl,       \* node: crictl runtime-endpoint configured
    installed,    \* controller: the component is recorded as installed on the node
    metaVersion,  \* metadata.KubeVersion InitStep saw for the current step
    payload,      \* the payload of the current step
    runnablePause,\* the pause image the controller's runnable ended up with
    action,       \* "install" or "uninstall"
    dryRun,       \* opts.DryRun of the current step
    run,          \* steps started
    attempt,      \* attempts of the current step
    pc,           \* where the attempt is
    todo,         \* servers renderRegistryConfig has still to render
    outcome       \* result of the last finished step

node == <<unpacked, configToml, dirs, toml, enabled, running, loaded, crictl>>
ctrl == <<installed, metaVersion, payload, runnablePause, action, dryRun, run>>
vars == <<node, ctrl, attempt, pc, todo, outcome>>

NoPayload == [registries |-> <<>>, pause |-> [version |-> "", registry |-> ""]]

Init ==
    /\ unpacked = FALSE /\ configToml = ConfigAbsent
    /\ dirs = [s \in Servers |-> FALSE] /\ toml = [s \in Servers |-> Absent]
    /\ enabled = FALSE /\ running = FALSE /\ loaded = ConfigAbsent /\ crictl = FALSE
    /\ installed = FALSE /\ metaVersion = <<>> /\ payload = NoPayload
    /\ runnablePause = payload.pause /\ action = "none" /\ dryRun = FALSE
    /\ run = 0 /\ attempt = 0 /\ pc = "idle" /\ todo = {} /\ outcome = "none"

-----------------------------------------------------------------------------
(* The controller and the executor.                                        *)

\* InitStep on a fresh runnable, for a node that does not have containerd:
\* the metadata carries the Kubernetes version or leaves it empty.
StartInstall ==
    /\ pc = "idle" /\ run < MaxRuns /\ ~installed
    /\ \E meta \in {<<>>, ClusterVersion}, regs \in Desired, d \in DryRuns :
         /\ metaVersion' = meta /\ dryRun' = d
         /\ payload' = InitStepPayload(meta, regs)
         /\ runnablePause' = InitStepRunnablePause(meta)
    /\ action' = "install" /\ run' = run + 1 /\ attempt' = 0 /\ pc' = "start"
    /\ UNCHANGED <<node, installed, todo, outcome>>

\* GetActionSteps(ActionUninstall): the uninstall step of the same runnable.
StartUninstall ==
    /\ pc = "idle" /\ run < MaxRuns
    /\ \E d \in DryRuns : dryRun' = d
    /\ action' = "uninstall" /\ run' = run + 1 /\ attempt' = 0 /\ pc' = "start"
    /\ UNCHANGED <<node, installed, metaVersion, payload, runnablePause, todo, outcome>>

\* The executor counts the attempts of a step.
NextAttempt(a) == a + 1

\* mutant: one retry too many.
RetriesLeftOffByOne(a) == a <= RetryTimes + 1

\* The executor re-runs a failed attempt while Step.RetryTimes allows.
RetriesLeft(a) == a <= RetryTimes

AttemptFailed ==
    /\ pc = "failed"
    /\ IF RetriesLeft(attempt) THEN pc' = "start" /\ UNCHANGED outcome
                               ELSE pc' = "idle" /\ outcome' = "failed"
    /\ UNCHANGED <<node, ctrl, attempt, todo>>

\* A successful step; a dry run records nothing.
StepDone ==
    /\ pc = "done"
    /\ pc' = "idle" /\ outcome' = "success"
    /\ installed' = IF dryRun THEN installed ELSE action = "install"
    /\ UNCHANGED <<node, metaVersion, payload, runnablePause, action, dryRun, run,
                   attempt, todo>>

\* The agent dies during an attempt; the executor sees it fail.
Crash ==
    /\ pc \notin {"idle", "start", "failed", "done"}
    /\ pc' = "failed"
    /\ UNCHANGED <<node, ctrl, attempt, todo, outcome>>

Finished ==
    /\ pc = "idle" /\ run = MaxRuns
    /\ UNCHANGED vars

-----------------------------------------------------------------------------
(* Install, on the node.  Every error is returned; in a dry run the        *)
(* downloader, the config write, renderRegistryConfig, systemctl and       *)
(* crictl do nothing and succeed.                                          *)

\* downloader.NewInstance and DownloadAndUnpackConfigs.
Download ==
    /\ pc = "start" /\ action = "install"
    /\ attempt' = NextAttempt(attempt)
    /\ \/ pc' = "setup" /\ unpacked' = (unpacked \/ ~dryRun)
       \/ Fails("Download") /\ pc' = "failed" /\ UNCHANGED unpacked
    /\ UNCHANGED <<configToml, dirs, toml, enabled, running, loaded, crictl, ctrl, todo, outcome>>

\* setupContainerdConfig: MkdirAll(/etc/containerd), config.toml written
\* with O_TRUNC (a failed write leaves a broken file), then
\* renderRegistryConfig over ToContainerdRegistryConfig(Registies).
SetupConfig ==
    /\ pc = "setup"
    /\ \/ /\ configToml' = IF dryRun THEN configToml ELSE ConfigOf(payload)
          /\ todo' = IF dryRun THEN {} ELSE ServersOf(payload.registries)
          /\ pc' = "render"
       \/ Fails("MkdirAll") /\ pc' = "failed" /\ UNCHANGED <<configToml, todo>>
       \/ /\ Fails("WriteConfig") /\ ~dryRun /\ pc' = "failed" /\ UNCHANGED todo
          /\ configToml' \in {configToml, ConfigBroken}
    /\ UNCHANGED <<unpacked, dirs, toml, enabled, running, loaded, crictl, ctrl, attempt, outcome>>

\* One server of the map, in any order: renderConfigs(RegistryConfigDir).
\* It fails at MkdirAll (nothing written), at a CA file or os.Create
\* (directory made, hosts.toml untouched) or at Encode (hosts.toml
\* truncated); renderRegistryConfig returns the first error.
RenderServer ==
    /\ pc = "render"
    /\ \E s \in todo :
         \/ /\ dirs' = [dirs EXCEPT ![s] = TRUE]
            /\ toml' = [toml EXCEPT ![s] = Rendered(payload.registries, s)]
            /\ todo' = todo \ {s}
            /\ UNCHANGED pc
         \/ /\ Fails("Render") /\ pc' = "failed" /\ UNCHANGED todo
            /\ \/ UNCHANGED <<dirs, toml>>
               \/ dirs' = [dirs EXCEPT ![s] = TRUE] /\ UNCHANGED toml
               \/ dirs' = [dirs EXCEPT ![s] = TRUE] /\ toml' = [toml EXCEPT ![s] = Truncated]
    /\ UNCHANGED <<unpacked, configToml, enabled, running, loaded, crictl, ctrl, attempt, outcome>>

\* mutant: the restart error is only logged.
AfterRestartErrorLogged == "crictl"

\* if err := systemctl.RestartUnit(...); err != nil { return err }
AfterRestartError == "failed"

\* enableContainerdService: daemon-reload, enable, restart; each error is
\* returned, the restart loads the config.toml on disk.
EnableService ==
    /\ pc = "render" /\ todo = {}
    /\ \/ /\ pc' = "crictl"
          /\ IF dryRun THEN UNCHANGED <<enabled, running, loaded>>
             ELSE enabled' = TRUE /\ running' = TRUE /\ loaded' = configToml
       \/ /\ (Fails("Reload") \/ Fails("Enable")) /\ ~dryRun
          /\ pc' = "failed" /\ UNCHANGED <<enabled, running, loaded>>
       \/ /\ Fails("Restart") /\ ~dryRun
          /\ pc' = AfterRestartError /\ enabled' = TRUE /\ UNCHANGED <<running, loaded>>
    /\ UNCHANGED <<unpacked, configToml, dirs, toml, crictl, ctrl, attempt, todo, outcome>>

\* crictl config runtime-endpoint /run/containerd/containerd.sock
Crictl ==
    /\ pc = "crictl"
    /\ \/ crictl' = (crictl \/ ~dryRun) /\ pc' = "done"
       \/ Fails("Crictl") /\ ~dryRun /\ pc' = "failed" /\ UNCHANGED crictl
    /\ UNCHANGED <<unpacked, configToml, dirs, toml, enabled, running, loaded, ctrl,
                   attempt, todo, outcome>>

-----------------------------------------------------------------------------
(* Uninstall, on the node.                                                 *)

\* disableContainerdService: stop and disable the unit, errors only logged;
\* a dry run does neither.
DisableService ==
    /\ pc = "start" /\ action = "uninstall"
    /\ attempt' = NextAttempt(attempt)
    /\ \/ running' = (running /\ dryRun)
       \/ Fails("Stop") /\ UNCHANGED running
    /\ \/ enabled' = (enabled /\ dryRun)
       \/ Fails("Disable") /\ UNCHANGED enabled
    /\ pc' = "newInstance"
    /\ UNCHANGED <<unpacked, configToml, dirs, toml, loaded, crictl, ctrl, todo, outcome>>

\* downloader.NewInstance: its error is returned.
UninstallNewInstance ==
    /\ pc = "newInstance"
    /\ \/ pc' = "remove"
       \/ Fails("NewInstance") /\ pc' = "failed"
    /\ UNCHANGED <<node, ctrl, attempt, todo, outcome>>

\* instance.RemoveConfigs (the downloader honours the dry run), then
\* os.RemoveAll of /run/containerd, DataRootDir (by default
\* /etc/containerd), /etc/containerd and the data dir whatever
\* opts.DryRun says, then daemon-reload: every error is only logged and nil
\* is returned.  A failed RemoveAll may have removed any part of the tree.
RemoveFiles ==
    /\ pc = "remove"
    /\ \/ unpacked' = (unpacked /\ dryRun)
       \/ Fails("RemoveConfigs") /\ UNCHANGED unpacked
    /\ \/ /\ configToml' = ConfigAbsent
          /\ dirs' = [s \in Servers |-> FALSE]
          /\ toml' = [s \in Servers |-> Absent]
       \/ /\ Fails("RemoveAll")
          /\ configToml' \in {configToml, ConfigAbsent}
          /\ \E gone \in SUBSET Servers :
               /\ dirs' = [s \in Servers |-> dirs[s] /\ s \notin gone]
               /\ toml' = [s \in Servers |-> IF s \in gone THEN Absent ELSE toml[s]]
    /\ pc' = "done"
    /\ UNCHANGED <<enabled, running, loaded, crictl, ctrl, attempt, todo, outcome>>

-----------------------------------------------------------------------------
Next ==
    \/ StartInstall \/ StartUninstall \/ AttemptFailed \/ StepDone \/ Crash
    \/ Download \/ SetupConfig \/ RenderServer \/ EnableService \/ Crictl
    \/ DisableService \/ UninstallNewInstance \/ RemoveFiles
    \/ Finished

Spec == Init /\ [][Next]_vars

-----------------------------------------------------------------------------
(* Properties                                                              *)

InstallSucceeded == pc = "idle" /\ outcome = "success" /\ action = "install" /\ ~dryRun

TypeOK ==
    /\ {unpacked, enabled, running, crictl, installed, dryRun} \subseteq BOOLEAN
    /\ dirs \in [Servers -> BOOLEAN] /\ toml \in [Servers -> HostsToml]
    /\ {configToml, loaded} \subseteq
           [st: {"absent", "broken", "written"},
            pause: [version: Range(PauseTable) \cup {""}, registry: {OldRegistry, NewRegistry, ""}]]
    /\ pc \in {"idle", "start", "setup", "render", "crictl", "newInstance", "remove",
               "done", "failed"}
    /\ attempt \in 0..(RetryTimes + 1)
    /\ todo \subseteq Servers

\* After an install step reports success, whatever earlier attempts,
\* crashes, dry runs and uninstalls left behind: containerd is enabled and
\* running the config.toml rendered from the step's payload, crictl points
\* at it, and every registry server of the payload has a complete hosts.toml.
InstalledAsPayload ==
    InstallSucceeded =>
        /\ unpacked /\ enabled /\ running /\ crictl
        /\ configToml = ConfigOf(payload) /\ loaded = configToml
        /\ \A s \in ServersOf(payload.registries) : dirs[s] /\ toml[s] = Rendered(payload.registries, s)

\* matchPauseVersion picks, for every checked Kubernetes version string,
\* the pause image and the registry of that release, and the payload
\* InitStep marshals for a step carries those of metadata.KubeVersion.
PauseVersionMatchesReference ==
    /\ \A v \in KubeVersions : MatchPauseVersion(v) = ReferencePause(v)
    /\ metaVersion # <<>> => payload.pause = ReferencePause(metaVersion)

\* Violated: after a successful install, containerd's sandbox image is the
\* pause image InitStep settled on for the cluster (after its fallback to
\* cluster.KubernetesVersion).
SandboxImageOfCluster ==
    InstallSucceeded => loaded.pause = runnablePause

\* Violated: after a successful install, certs.d holds a directory only for
\* the registry servers of the installed payload.
OnlyPayloadServers ==
    InstallSucceeded => \A s \in Servers : dirs[s] => s \in ServersOf(payload.registries)

\* Violated: no step of a dry-run Install or Uninstall changes the node's
\* files, unit or crictl configuration (spec: dry-run mode skips all
\* filesystem and service mutations).
DryRunLeavesNode ==
    [][dryRun /\ pc # "idle" => UNCHANGED node]_vars

====
