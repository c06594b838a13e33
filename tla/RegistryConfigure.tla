------------------------- MODULE RegistryConfigure -------------------------
(***************************************************************************)
(* The registry-update step on a node (src/pkg/scheme/core/v1/cri/         *)
(* containerd.go): ContainerdRegistryConfigure.Install renders one         *)
(* certs.d/<server>/ directory per registry server (renderConfigs: CA      *)
(* files, then hosts.toml truncated and re-encoded), removes directories   *)
(* of servers no longer wanted, rewrites config.toml and restarts          *)
(* containerd.  ToContainerdRegistryConfig groups the step's registry list *)
(* by host.                                                                *)
(*                                                                         *)
(* Several update steps run one after another on the node.  Any file      *)
(* operation in FailingOps may fail, the agent may crash at any point of   *)
(* an attempt, and the executor re-runs a failed attempt RetryTimes times; *)
(* what is on disk survives all of it.                                     *)
(***************************************************************************)
EXTENDS Integers, FiniteSets, ContainerdHosts

CONSTANTS
    Desired,        \* registry lists an update step may carry (sorted, unique Scheme+Host)
    MaxRuns,        \* how many update steps reach the node
    RetryTimes,     \* Step.RetryTimes of the update step
    FailingOps,     \* operations that may fail, a subset of Ops
    BrokenToml      \* model value: a config.toml whose write failed half-way

Ops == {"ReadDir", "MkdirAll", "WriteCA", "Create", "Encode", "RemoveAll",
        "WriteConfig", "Restart"}

ASSUME /\ Desired \subseteq Seq(RegistrySpec)
       /\ FailingOps \subseteq Ops
       /\ RetryTimes \in Nat /\ MaxRuns \in Nat

VARIABLES
    dirs,        \* disk: certs.d/<server> exists
    toml,        \* disk: certs.d/<server>/hosts.toml
    pem,         \* disk: certs.d/<server>/<server>.pem
    configToml,  \* disk: /etc/containerd/config.toml, by the registry list rendered into it
    daemonCfg,   \* the config.toml containerd was last restarted with
    run,         \* how many update steps have started
    want,        \* the registry list of the current step
    attempt,     \* attempts of the current step so far
    pc,          \* where the attempt is
    oldDirs,     \* oldDirs: server directories not (yet) rendered this attempt
    todo,        \* servers of c.Registries not yet rendered this attempt
    cur,         \* the server renderConfigs is working on
    entries,     \* its hosts still to process
    staged,      \* the HostConfigs map being built for it
    outcome,     \* result of the last finished attempt
    removeFailed,\* servers whose stale directory RemoveAll failed this attempt
    errLogged    \* config.toml and restart errors this attempt only logged

vars == <<dirs, toml, pem, configToml, daemonCfg, run, want, attempt, pc,
          oldDirs, todo, cur, entries, staged, outcome, removeFailed, errLogged>>

disk == <<dirs, toml, pem, configToml, daemonCfg>>

NoServer == "none"

Fails(op) == op \in FailingOps

-----------------------------------------------------------------------------
WantServers == ServersOf(want)

-----------------------------------------------------------------------------
Init ==
    /\ dirs = [s \in Servers |-> FALSE]
    /\ toml = [s \in Servers |-> Absent]
    /\ pem = [s \in Servers |-> NoCA]
    /\ configToml = <<>>
    /\ daemonCfg = <<>>
    /\ run = 0
    /\ want = <<>>
    /\ attempt = 0
    /\ pc = "idle"
    /\ oldDirs = {}
    /\ todo = {}
    /\ cur = NoServer
    /\ entries = <<>>
    /\ staged = EmptyHostFile
    /\ outcome = "none"
    /\ removeFailed = {}
    /\ errLogged = {}

Scratch == <<oldDirs, todo, cur, entries, staged, removeFailed, errLogged>>

\* The executor hands the next update step to the node.
StartStep ==
    /\ pc = "idle"
    /\ run < MaxRuns
    /\ \E d \in Desired : want' = d
    /\ run' = run + 1
    /\ attempt' = 0
    /\ pc' = "start"
    /\ UNCHANGED <<disk, Scratch, outcome>>

\* The executor counts the attempts of a step.
NextAttempt(a) == a + 1

\* An attempt begins: os.ReadDir(ConfigDir); a missing directory is no
\* entries, another error is returned.  oldDirs holds the directories.
ReadDir ==
    /\ pc = "start"
    /\ attempt' = NextAttempt(attempt)
    /\ \/ /\ oldDirs' = {s \in Servers : dirs[s]}
          /\ todo' = WantServers
          /\ removeFailed' = {} /\ errLogged' = {}
          /\ pc' = "render"
          /\ UNCHANGED <<outcome>>
       \/ /\ Fails("ReadDir")
          /\ pc' = "failed"
          /\ UNCHANGED <<oldDirs, todo, removeFailed, errLogged, outcome>>
    /\ UNCHANGED <<disk, run, want, cur, entries, staged>>

\* Mutant: the HostConfigs map is not made afresh for the next server.
HostConfigsKept(old) == old

\* c := HostFile{Server: h.Server, HostConfigs: make(map[string]HostFileConfig)}
HostConfigsFor(old) == EmptyHostFile

\* for _, r := range c.Registries (map order): r.renderConfigs(ConfigDir),
\* which first does os.MkdirAll(hostDir).
RenderNext ==
    /\ pc = "render"
    /\ \E s \in todo :
         /\ cur' = s
         /\ entries' = ToContainerdRegistryConfig(want)[s]
         /\ staged' = HostConfigsFor(staged)
         /\ \/ /\ dirs' = [dirs EXCEPT ![s] = TRUE]
               /\ pc' = "entry"
            \/ Fails("MkdirAll") /\ pc' = "failed" /\ UNCHANGED dirs
    /\ UNCHANGED <<toml, pem, configToml, daemonCfg, run, want, attempt, oldDirs, todo,
                   outcome, removeFailed, errLogged>>

\* One host of the server: with a CA, os.WriteFile(<host>.pem) (an error is
\* returned); then HostConfigs[scheme://host] = hostConfig.
RenderEntry ==
    /\ pc = "entry"
    /\ entries # <<>>
    /\ LET h == Head(entries)
       IN \/ /\ pem' = IF h.ca # NoCA THEN [pem EXCEPT ![cur] = h.ca] ELSE pem
             /\ staged' = RenderHost(staged, h)
             /\ entries' = Tail(entries)
             /\ UNCHANGED pc
          \/ /\ h.ca # NoCA /\ Fails("WriteCA")
             /\ pc' = "failed"
             /\ UNCHANGED <<pem, staged, entries>>
    /\ UNCHANGED <<dirs, toml, configToml, daemonCfg, run, want, attempt, oldDirs, todo,
                   cur, outcome, removeFailed, errLogged>>

\* os.Create(hosts.toml) truncates the file; an error is returned.
CreateHostsToml ==
    /\ pc = "entry"
    /\ entries = <<>>
    /\ \/ /\ toml' = [toml EXCEPT ![cur] = Truncated]
          /\ pc' = "encode"
       \/ Fails("Create") /\ pc' = "failed" /\ UNCHANGED toml
    /\ UNCHANGED <<dirs, pem, configToml, daemonCfg, run, want, attempt, Scratch, outcome>>

\* delete(oldDirs, r.Server) once renderConfigs has returned nil.
AfterRender(old, s) == old \ {s}

\* toml.NewEncoder(f).Encode(c); on success delete(oldDirs, r.Server).
EncodeHostsToml ==
    /\ pc = "encode"
    /\ \/ /\ toml' = [toml EXCEPT ![cur] = Written(staged)]
          /\ oldDirs' = AfterRender(oldDirs, cur)
          /\ todo' = todo \ {cur}
          /\ pc' = "render"
       \/ Fails("Encode") /\ pc' = "failed" /\ UNCHANGED <<toml, oldDirs, todo>>
    /\ UNCHANGED <<dirs, pem, configToml, daemonCfg, run, want, attempt, cur, entries,
                   staged, outcome, removeFailed, errLogged>>

\* for d := range oldDirs: os.RemoveAll; an error is only logged.
RemoveStale ==
    /\ pc = "render"
    /\ todo = {}
    /\ \E d \in oldDirs :
         /\ oldDirs' = oldDirs \ {d}
         /\ \/ /\ dirs' = [dirs EXCEPT ![d] = FALSE]
               /\ toml' = [toml EXCEPT ![d] = Absent]
               /\ pem' = [pem EXCEPT ![d] = NoCA]
               /\ UNCHANGED removeFailed
            \/ /\ Fails("RemoveAll")
               /\ removeFailed' = removeFailed \cup {d}
               /\ UNCHANGED <<dirs, toml, pem>>
    /\ UNCHANGED <<configToml, daemonCfg, run, want, attempt, pc, todo, cur, entries,
                   staged, outcome, errLogged>>

\* MkdirAll and WriteFileWithContext(config.toml, O_TRUNC): an error is only
\* logged, and a write that fails after the truncate leaves a broken file.
WriteConfigToml ==
    /\ pc = "render"
    /\ todo = {} /\ oldDirs = {}
    /\ \/ configToml' = want /\ UNCHANGED errLogged
       \/ /\ Fails("WriteConfig") /\ configToml' \in {configToml, BrokenToml}
          /\ errLogged' = errLogged \cup {"WriteConfig"}
    /\ pc' = "restart"
    /\ UNCHANGED <<dirs, toml, pem, daemonCfg, run, want, attempt, oldDirs, todo, cur,
                   entries, staged, removeFailed, outcome>>

\* Mutant: only systemctl daemon-reload, which leaves containerd running on
\* the configuration it was started with.
ReloadedOnly(running, file) == running

\* systemctl restart containerd: containerd re-reads config.toml.
Restarted(running, file) == file

\* systemctl daemon-reload and restart containerd: errors only logged; the
\* attempt returns nil.
RestartContainerd ==
    /\ pc = "restart"
    /\ \/ daemonCfg' = Restarted(daemonCfg, configToml) /\ UNCHANGED errLogged
       \/ /\ Fails("Restart") /\ UNCHANGED daemonCfg
          /\ errLogged' = errLogged \cup {"Restart"}
    /\ pc' = "idle"
    /\ outcome' = "success"
    /\ UNCHANGED <<dirs, toml, pem, configToml, run, want, attempt, oldDirs, todo, cur,
                   entries, staged, removeFailed>>

\* The agent dies in the middle of an attempt; the executor sees it fail.
Crash ==
    /\ pc \in {"render", "entry", "encode", "restart"}
    /\ pc' = "failed"
    /\ UNCHANGED <<disk, run, want, attempt, Scratch, outcome>>

\* Mutant: one retry too many.
RetriesLeftOffByOne(a) == a <= RetryTimes + 1

\* Step.RetryTimes bounds the attempts of a step.
RetriesLeft(a) == a <= RetryTimes

\* A failed attempt is retried while Step.RetryTimes allows, else the step fails.
AttemptFailed ==
    /\ pc = "failed"
    /\ IF RetriesLeft(attempt)
         THEN pc' = "start" /\ UNCHANGED outcome
         ELSE pc' = "idle" /\ outcome' = "failed"
    /\ UNCHANGED <<disk, run, want, attempt, Scratch>>

\* All update steps have been handled.
Finished ==
    /\ pc = "idle" /\ run = MaxRuns
    /\ UNCHANGED vars

Next ==
    \/ StartStep \/ ReadDir \/ RenderNext \/ RenderEntry \/ CreateHostsToml
    \/ EncodeHostsToml \/ RemoveStale \/ WriteConfigToml \/ RestartContainerd
    \/ Crash \/ AttemptFailed \/ Finished

Spec == Init /\ [][Next]_vars

-----------------------------------------------------------------------------
(* Properties                                                              *)

StepSucceeded == pc = "idle" /\ outcome = "success"

TypeOK ==
    /\ dirs \in [Servers -> BOOLEAN]
    /\ toml \in [Servers -> HostsToml]
    /\ pem \in [Servers -> CAs \cup {NoCA}]
    /\ run \in 0..MaxRuns
    /\ attempt \in 0..(RetryTimes + 1)
    /\ pc \in {"idle", "start", "render", "entry", "encode", "restart", "failed"}
    /\ oldDirs \subseteq Servers /\ todo \subseteq Servers /\ removeFailed \subseteq Servers
    /\ errLogged \subseteq {"WriteConfig", "Restart"}
    /\ staged \in HostFile
    /\ outcome \in {"none", "success", "failed"}

\* A step reported successful leaves containerd running on a configuration
\* other than the step's registry list (an older one, or a config.toml
\* broken by a failed write) only when that attempt logged the failed
\* config.toml write or the failed restart: earlier crashed or failed
\* attempts, and earlier steps, leave nothing behind that success hides.
DaemonStaleOnlyWhenLogged ==
    StepSucceeded /\ daemonCfg # want => errLogged # {}

\* The step implements the abstract update step: every file operation of
\* Install (MkdirAll, CA file, truncate, Encode, RemoveAll) moves a wanted
\* server towards its rendered hosts.toml or removes an unwanted one, and
\* success is reported only from a converged certs.d.
Abstract == INSTANCE RegistryConfigureAbstract WITH busy <- pc # "idle", logged <- removeFailed

RefinesAbstract == Abstract!ASpec

\* Violated: after a successful step, the CA file an https host's config
\* points at holds that host's CA.
HttpsTrustsItsCA ==
    StepSucceeded =>
        \A j \in DOMAIN want :
            want[j].scheme = "https" /\ want[j].ca # NoCA => pem[want[j].host] = want[j].ca

=============================================================================
