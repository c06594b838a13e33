--------------------------- MODULE ContainerdHosts ---------------------------
(***************************************************************************)
(* The certs.d layout containerd reads its registry hosts from, as         *)
(* src/pkg/scheme/core/v1/cri/containerd.go writes it: ToContainerdRegistry *)
(* Config groups a registry list by host, and renderConfigs turns one      *)
(* server's hosts into the HostConfigs map it encodes into                 *)
(* certs.d/<server>/hosts.toml.  Shared by the registry-update step        *)
(* (RegistryConfigure) and the containerd install step                     *)
(* (ContainerdRunnable).                                                   *)
(***************************************************************************)
EXTENDS Sequences, SequencesExt

CONSTANTS
    Servers,        \* registry host names
    CAs,            \* CA bundles
    NoCA            \* model value: RegistrySpec.CA is empty

Schemes == {"http", "https"}

RegistrySpec == [scheme: Schemes, host: Servers, skipVerify: BOOLEAN, ca: CAs \cup {NoCA}]

(* HostFileConfig, reduced to what the step writes: skip_verify and        *)
(* whether ca names the server's <host>.pem file.  A hosts.toml is         *)
(* absent, truncated by os.Create, or a map from scheme to its config.     *)
HostFileConfig == [skipVerify: BOOLEAN, caFile: BOOLEAN]

HostFile == UNION {[S -> HostFileConfig] : S \in SUBSET Schemes}

HostsToml == [st: {"absent", "empty", "written"}, cfg: HostFile]

(* ToContainerdRegistryConfig: one ContainerdRegistry per host, its Hosts  *)
(* in the order of the list.                                               *)
ToContainerdRegistryConfig(regs) ==
    [s \in {regs[j].host : j \in DOMAIN regs} |-> SelectSeq(regs, LAMBDA r : r.host = s)]

ServersOf(regs) == DOMAIN ToContainerdRegistryConfig(regs)

(* The hosts.toml renderConfigs encodes: HostConfigs[scheme://host].       *)
(* The map is keyed by scheme, a later host of the same scheme overwrites. *)
RenderHost(c, h) ==
    [sc \in DOMAIN c \cup {h.scheme} |->
        IF sc = h.scheme THEN [skipVerify |-> h.skipVerify, caFile |-> h.ca # NoCA]
                         ELSE c[sc]]

EmptyHostFile == [sc \in {} |-> [skipVerify |-> FALSE, caFile |-> FALSE]]

RenderAll(hosts) == FoldLeft(RenderHost, EmptyHostFile, hosts)

Absent     == [st |-> "absent", cfg |-> EmptyHostFile]
Truncated  == [st |-> "empty", cfg |-> EmptyHostFile]
Written(c) == [st |-> "written", cfg |-> c]

(* The hosts.toml a completed renderConfigs leaves for server s of regs.   *)
Rendered(regs, s) == Written(RenderAll(ToContainerdRegistryConfig(regs)[s]))
=============================================================================
