--------------------- MODULE RegistryConfigureAbstract ---------------------
(***************************************************************************)
(* What a registry-update step promises about the node's trust store       *)
(* (certs.d), whatever its attempts, crashes and retries do in between:    *)
(* while the step is in progress every change either brings a server of   *)
(* the step closer to its rendered hosts.toml or removes a server that is  *)
(* no longer wanted, and the step reports success only when certs.d holds  *)
(* the wanted servers, each complete, and nothing else but directories     *)
(* whose removal failed and was logged (spec section 4.2: Install is safe  *)
(* to re-run and converges; section 7(d): cleanup errors are logged).      *)
(***************************************************************************)
EXTENDS Integers, FiniteSets, ContainerdHosts

CONSTANTS Desired, MaxRuns

VARIABLES
    dirs,     \* certs.d/<server> exists
    toml,     \* certs.d/<server>/hosts.toml
    pem,      \* certs.d/<server>/<server>.pem
    want,     \* the registry list of the step in progress or last run
    run,      \* steps started
    busy,     \* a step is in progress
    outcome,  \* result of the last step
    logged    \* stale servers whose removal failed in the current attempt

avars == <<dirs, toml, pem, want, run, busy, outcome, logged>>

store == <<dirs, toml, pem>>

\* The CAs the hosts of server s in registry list w carry.
CAsOf(w, s) == {h.ca : h \in ToSet(ToContainerdRegistryConfig(w)[s])} \ {NoCA}

Converged ==
    /\ \A s \in ServersOf(want) : dirs[s] /\ toml[s] = Rendered(want, s)
    /\ \A s \in Servers \ ServersOf(want) : dirs[s] => s \in logged

AInit ==
    /\ dirs = [s \in Servers |-> FALSE]
    /\ toml = [s \in Servers |-> Absent]
    /\ pem = [s \in Servers |-> NoCA]
    /\ want = <<>> /\ run = 0 /\ busy = FALSE /\ outcome = "none" /\ logged = {}

Begin ==
    /\ ~busy /\ run < MaxRuns
    /\ want' \in Desired /\ run' = run + 1 /\ busy' = TRUE
    /\ UNCHANGED <<store, outcome, logged>>

\* A wanted server's directory is made, its CA file written with one of its
\* CAs, or its hosts.toml truncated or written with its rendered content.
Prepare(s) ==
    /\ busy /\ s \in ServersOf(want)
    /\ dirs' = [dirs EXCEPT ![s] = TRUE]
    /\ toml' \in {[toml EXCEPT ![s] = t] : t \in {toml[s], Truncated, Rendered(want, s)}}
    /\ pem' \in {[pem EXCEPT ![s] = c] : c \in {pem[s]} \cup CAsOf(want, s)}
    /\ UNCHANGED <<want, run, busy, outcome, logged>>

\* A server that is not wanted is removed, or its removal fails and is logged.
EvictStale(s) ==
    /\ busy /\ s \notin ServersOf(want)
    /\ dirs' = [dirs EXCEPT ![s] = FALSE]
    /\ toml' = [toml EXCEPT ![s] = Absent]
    /\ pem' = [pem EXCEPT ![s] = NoCA]
    /\ UNCHANGED <<want, run, busy, outcome, logged>>

LogRemoveFailure(s) ==
    /\ busy /\ s \notin ServersOf(want) /\ dirs[s]
    /\ logged' = logged \cup {s}
    /\ UNCHANGED <<store, want, run, busy, outcome>>

\* An attempt starts over: what was logged belongs to the earlier attempt.
NewAttempt ==
    /\ busy
    /\ logged' = {}
    /\ UNCHANGED <<store, want, run, busy, outcome>>

Fail ==
    /\ busy
    /\ busy' = FALSE /\ outcome' = "failed"
    /\ UNCHANGED <<store, want, run, logged>>

Succeed ==
    /\ busy /\ Converged
    /\ busy' = FALSE /\ outcome' = "success"
    /\ UNCHANGED <<store, want, run, logged>>

ANext ==
    \/ Begin \/ NewAttempt \/ Fail \/ Succeed
    \/ \E s \in Servers : Prepare(s) \/ EvictStale(s) \/ LogRemoveFailure(s)

ASpec == AInit /\ [][ANext]_avars

=============================================================================
