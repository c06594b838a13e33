---------------------------- MODULE CRIRegistries ----------------------------
(***************************************************************************)
(* The registry reconciler of the cluster handler                          *)
(* (src/pkg/apis/core/v1/cri_utils.go):                                    *)
(* getClusterCRIRegistries computes the container-runtime registry set of  *)
(* a cluster, appendUniqueRegistry keeps it sorted and free of duplicate   *)
(* Scheme+Host keys by a binary-search insert, registriesEqual diffs it    *)
(* against the recorded set, and getCRIRegistriesStep builds the update    *)
(* step.  One invocation of the handler is modelled, loop iteration by     *)
(* loop iteration; the registry store is an environment whose GetRegistry  *)
(* answers found, not-found or a transient error.                          *)
(*                                                                         *)
(* Strings are sequences of byte values, so that the concatenated key      *)
(* Scheme+Host and strings.Compare keep their real meaning.                *)
(***************************************************************************)
EXTENDS Integers, Sequences, SequencesExt, FiniteSets, TLC

CONSTANTS
    Hosts,          \* registry host names (byte sequences) a cluster may name
    RefNames,       \* names of registry objects a cluster may reference
    Store,          \* the registry objects that exist: RefName -> RegistrySpec
    OldStore,       \* the same objects as they were at the last reconciliation
    CAs,            \* CA bundles a stored registry may carry
    NoCA,           \* model value: RegistrySpec.CA is empty
    NoRef,          \* model value: RegistryRef == nil
    EmptyRef,       \* model value: RegistryRef points at ""
    ParseError,     \* model value: an addon config that is not JSON of mirror
    MaxInsecure,    \* bound on len(ContainerRuntime.InsecureRegistry)
    MaxAddons,      \* bound on len(Addons)
    MaxRegs,        \* bound on len(ContainerRuntime.Registries)
    MaxNodes        \* bound on the number of nodes labelled with the cluster

\* Byte values of the characters used by the schemes and the host names.
HTTP  == <<104, 116, 116, 112>>          \* "http"
HTTPS == HTTP \o <<115>>                 \* "https"

RegistrySpec ==
    [scheme: {HTTP, HTTPS}, host: Hosts, skipVerify: BOOLEAN, ca: CAs \cup {NoCA}]

ASSUME /\ Store \in [DOMAIN Store -> RegistrySpec] /\ DOMAIN Store \subseteq RefNames
       /\ OldStore \in [DOMAIN Store -> RegistrySpec]

\* An entry of ContainerRuntime.Registries: a reference or an inline host.
CRIRegistry ==
    [ref: {NoRef, EmptyRef}, insecure: Hosts] \cup [ref: RefNames, insecure: {<<>>}]

\* What json.Unmarshal of an addon's config yields: an error, or the
\* imageRepoMirror field, which is "" when absent.
AddonConfig == {ParseError, <<>>} \cup Hosts

VARIABLES
    insecureCfg,      \* c.ContainerRuntime.InsecureRegistry (input)
    addons,           \* the imageRepoMirror each addon's config parses to
    status,           \* c.Status.Registries, the last recorded set
    nodeCount,        \* how many nodes ListNodes returns for the cluster
    clusterRegs,      \* c.ContainerRuntime.Registries: the caller's slice (its backing array)
    origRegs,         \* the caller's registries before the call (history)
    insecureRegistry, \* the local sorted host list
    registries,       \* the result being built
    validLen,         \* len(validRegistries), which aliases clusterRegs[:0]
    notFound,         \* indices of references GetRegistry reported not found (history)
    i,                \* loop index (1-based)
    pc,               \* where the handler is
    step              \* the update step returned, or NoStep

vars == <<insecureCfg, addons, status, nodeCount, clusterRegs, origRegs,
          insecureRegistry, registries, validLen, notFound, i, pc, step>>

NoStep == [none |-> TRUE]

-----------------------------------------------------------------------------
(* strings.Compare on byte strings.                                        *)
RECURSIVE StrCompare(_, _)
StrCompare(a, b) ==
    CASE a = <<>> /\ b = <<>> -> 0
      [] a = <<>>             -> -1
      [] b = <<>>             -> 1
      [] Head(a) < Head(b)    -> -1
      [] Head(a) > Head(b)    -> 1
      [] OTHER                -> StrCompare(Tail(a), Tail(b))

StrLess(a, b) == StrCompare(a, b) < 0

(* sort.Find(len(keys), func(i) { return strings.Compare(t, keys[i]) }):   *)
(* the binary search for the smallest 0-based index whose cmp is <= 0.     *)
\* mutant: the comparison is >= instead of >, so an equal key is passed over.
SearchRightGE(cmp) == cmp >= 0

\* The search goes right while strings.Compare(t, keys[h]) > 0.
SearchRight(cmp) == cmp > 0

FindIndex(keys, t) ==
    LET RECURSIVE Search(_, _)
        Search(lo, hi) ==
            IF lo >= hi THEN lo
            ELSE LET h == (lo + hi) \div 2
                 IN IF SearchRight(StrCompare(t, keys[h + 1])) THEN Search(h + 1, hi)
                                                                ELSE Search(lo, h)
    IN Search(0, Len(keys))

Found(keys, t) ==
    LET idx == FindIndex(keys, t)
    IN idx < Len(keys) /\ StrCompare(t, keys[idx + 1]) = 0

(* The insert shared by the mirror loop and appendUniqueRegistry: when the *)
(* key is not found, e goes to position idx (append when idx = len, else   *)
(* the shift-and-store), otherwise s is returned unchanged.                *)
InsertUnique(s, keys, k, e) ==
    IF Found(keys, k) THEN s ELSE InsertAt(s, FindIndex(keys, k) + 1, e)

Key(r) == r.scheme \o r.host

KeysOf(s) == [j \in DOMAIN s |-> Key(s[j])]

AppendUnique1(s, r) == InsertUnique(s, KeysOf(s), Key(r), r)

appendUniqueRegistry(s, items) == FoldLeft(AppendUnique1, s, items)

(* The http / https(skip-verify) pair synthesized for an insecure host.    *)
InsecurePair(h) ==
    << [scheme |-> HTTP,  host |-> h, skipVerify |-> FALSE, ca |-> NoCA],
       [scheme |-> HTTPS, host |-> h, skipVerify |-> TRUE,  ca |-> NoCA] >>

\* mutant: only the lengths are compared.
registriesEqualLenOnly(a, b) == Len(a) = Len(b)

registriesEqual(a, b) ==
    Len(a) = Len(b) /\ \A j \in 1..Len(a) : a[j] = b[j]

-----------------------------------------------------------------------------
(* The set the handler must return, stated without the binary search:     *)
(* every candidate entry in insertion order, the first of each key kept,   *)
(* sorted by key.  valid is the list of registries that resolved.          *)
EntriesOf(st, r) ==
    IF r.ref \in {NoRef, EmptyRef} THEN InsecurePair(r.insecure) ELSE <<st[r.ref]>>

InsecureHosts == ToSet(insecureCfg) \cup (ToSet(addons) \cap Hosts)

Candidates(st, valid) ==
    FlattenSeq([j \in 1..Cardinality(InsecureHosts) |->
                    InsecurePair(SetToSortSeq(InsecureHosts, StrLess)[j])])
    \o FlattenSeq([j \in DOMAIN valid |-> EntriesOf(st, valid[j])])

FirstOfEachKey(c) ==
    { c[j] : j \in {j \in DOMAIN c : \A k \in 1..(j - 1) : Key(c[k]) # Key(c[j])} }

ReferenceRegistries(st, valid) ==
    SetToSortSeq(FirstOfEachKey(Candidates(st, valid)), LAMBDA a, b : StrLess(Key(a), Key(b)))

Resolvable(r) == r.ref \in {NoRef, EmptyRef} \/ r.ref \in DOMAIN Store

-----------------------------------------------------------------------------
Init ==
    /\ insecureCfg \in BoundedSeq(Hosts, MaxInsecure)
    /\ addons \in BoundedSeq(AddonConfig, MaxAddons)
    /\ origRegs \in BoundedSeq(CRIRegistry, MaxRegs)
    /\ clusterRegs = origRegs
    \* the recorded set is empty (first reconciliation) or what the cluster
    \* resolved to last time, before or after its registry objects were edited
    /\ status \in {<<>>} \cup {ReferenceRegistries(st, SelectSeq(origRegs, Resolvable)) :
                               st \in {Store, OldStore}}
    /\ nodeCount \in 0..MaxNodes
    /\ insecureRegistry = <<>>
    /\ registries = <<>>
    /\ validLen = 0
    /\ notFound = {}
    /\ i = 1
    /\ pc = "start"
    /\ step = NoStep

Inputs == <<insecureCfg, addons, status, nodeCount, origRegs>>

\* insecureRegistry := append([]string{}, InsecureRegistry...); sort.Strings(insecureRegistry)
CopyInsecure ==
    /\ pc = "start"
    /\ insecureRegistry' = SortSeq(insecureCfg, StrLess)
    /\ pc' = "mirrors"
    /\ UNCHANGED <<Inputs, clusterRegs, registries, validLen, notFound, i, step>>

\* One addon: a parse error or an empty mirror is skipped, a mirror host is
\* inserted into insecureRegistry unless sort.Find finds it.
\* mutant: the m.ImageRepoMirror != "" check is dropped.
MirrorUsableAnyMirror(m) == m # ParseError

MirrorUsable(m) == m # ParseError /\ m # <<>>

AddonMirror ==
    /\ pc = "mirrors"
    /\ i <= Len(addons)
    /\ LET m == addons[i]
       IN insecureRegistry' =
            IF MirrorUsable(m) THEN InsertUnique(insecureRegistry, insecureRegistry, m, m)
                               ELSE insecureRegistry
    /\ i' = i + 1
    /\ UNCHANGED <<Inputs, clusterRegs, registries, validLen, notFound, pc, step>>

MirrorsDone ==
    /\ pc = "mirrors"
    /\ i > Len(addons)
    /\ pc' = "insecure"
    /\ i' = 1
    /\ UNCHANGED <<Inputs, clusterRegs, insecureRegistry, registries, validLen, notFound, step>>

\* One insecure host: merge its http and https(skip-verify) entries.
ExpandInsecure ==
    /\ pc = "insecure"
    /\ i <= Len(insecureRegistry)
    /\ registries' = appendUniqueRegistry(registries, InsecurePair(insecureRegistry[i]))
    /\ i' = i + 1
    /\ UNCHANGED <<Inputs, clusterRegs, insecureRegistry, validLen, notFound, pc, step>>

InsecureDone ==
    /\ pc = "insecure"
    /\ i > Len(insecureRegistry)
    /\ pc' = "registries"
    /\ i' = 1
    /\ validLen' = 0
    /\ UNCHANGED <<Inputs, clusterRegs, insecureRegistry, registries, notFound, step>>

\* validRegistries = append(validRegistries, reg) stores reg into the
\* caller's backing array at index len(validRegistries).
KeepValid(reg) ==
    /\ clusterRegs' = [clusterRegs EXCEPT ![validLen + 1] = reg]
    /\ validLen' = validLen + 1

\* A registry without a reference (nil or ""): the ref is reset to nil and
\* the inline host's http/https pair is merged.
\* mutant: the reg.RegistryRef = nil fix is dropped.
ClearedRefKept(reg) == reg

\* reg.RegistryRef = nil
ClearedRef(reg) == [reg EXCEPT !.ref = NoRef]

InlineRegistry ==
    /\ pc = "registries"
    /\ i <= Len(origRegs)
    /\ LET reg == clusterRegs[i]
       IN /\ reg.ref \in {NoRef, EmptyRef}
          /\ registries' = appendUniqueRegistry(registries, InsecurePair(reg.insecure))
          /\ KeepValid(ClearedRef(reg))
    /\ i' = i + 1
    /\ UNCHANGED <<Inputs, insecureRegistry, notFound, pc, step>>

\* GetRegistry finds the referenced registry object: merge its spec.
LookupFound ==
    /\ pc = "registries"
    /\ i <= Len(origRegs)
    /\ LET reg == clusterRegs[i]
       IN /\ reg.ref \in DOMAIN Store
          /\ registries' = appendUniqueRegistry(registries, <<Store[reg.ref]>>)
          /\ KeepValid(reg)
    /\ i' = i + 1
    /\ UNCHANGED <<Inputs, insecureRegistry, notFound, pc, step>>

\* GetRegistry answers NotFound: the reference is dropped, the loop goes on.
LookupNotFound ==
    /\ pc = "registries"
    /\ i <= Len(origRegs)
    /\ clusterRegs[i].ref \in RefNames \ DOMAIN Store
    /\ notFound' = notFound \cup {i}
    /\ i' = i + 1
    /\ UNCHANGED <<Inputs, clusterRegs, insecureRegistry, registries, validLen, pc, step>>

\* GetRegistry fails otherwise: return nil, err, leaving the caller's slice
\* header (and the backing array written so far) as it is.
LookupError ==
    /\ pc = "registries"
    /\ i <= Len(origRegs)
    /\ clusterRegs[i].ref \in RefNames
    /\ pc' = "lookupFailed"
    /\ UNCHANGED <<Inputs, clusterRegs, insecureRegistry, registries, validLen, notFound, i, step>>

\* c.ContainerRuntime.Registries = validRegistries; return registries, nil
RegistriesDone ==
    /\ pc = "registries"
    /\ i > Len(origRegs)
    /\ clusterRegs' = SubSeq(clusterRegs, 1, validLen)
    /\ pc' = "diff"
    /\ UNCHANGED <<Inputs, insecureRegistry, registries, validLen, notFound, i, step>>

\* getCRIRegistriesStep: no step when the recorded set is equal.
Diff ==
    /\ pc = "diff"
    /\ pc' = IF registriesEqual(status, registries) THEN "done" ELSE "listNodes"
    /\ UNCHANGED <<Inputs, clusterRegs, insecureRegistry, registries, validLen, notFound, i, step>>

ListNodesFailed ==
    /\ pc = "listNodes"
    /\ pc' = "listFailed"
    /\ UNCHANGED <<Inputs, clusterRegs, insecureRegistry, registries, validLen, notFound, i, step>>

\* ListNodes succeeds and criRegistryUpdateStep runs: wrapNodes is made with
\* length 0, so wrapNodes[i] = &nodes[i] is an index out of range (a panic)
\* as soon as one node is listed.
UpdateStep ==
    /\ pc = "listNodes"
    /\ IF nodeCount = 0
         THEN /\ step' = [registries |-> registries, nodes |-> 0]
              /\ pc' = "done"
         ELSE /\ pc' = "panicked"
              /\ step' = step
    /\ UNCHANGED <<Inputs, clusterRegs, insecureRegistry, registries, validLen, notFound, i>>

\* The handler has returned; nothing changes any more.
Returned ==
    /\ pc \in {"done", "lookupFailed", "listFailed", "panicked"}
    /\ UNCHANGED vars

Next ==
    \/ CopyInsecure \/ AddonMirror \/ MirrorsDone
    \/ ExpandInsecure \/ InsecureDone
    \/ InlineRegistry \/ LookupFound \/ LookupNotFound \/ LookupError \/ RegistriesDone
    \/ Diff \/ ListNodesFailed \/ UpdateStep
    \/ Returned

Spec == Init /\ [][Next]_vars

-----------------------------------------------------------------------------
(* Properties                                                              *)

Returned1 == pc \in {"diff", "listNodes", "done", "listFailed", "panicked"}

Normalize(r) == IF r.ref = EmptyRef THEN [r EXCEPT !.ref = NoRef] ELSE r

TypeOK ==
    /\ insecureRegistry \in Seq(Hosts)
    /\ registries \in Seq(RegistrySpec)
    /\ clusterRegs \in Seq(CRIRegistry)
    /\ validLen \in 0..MaxRegs
    /\ notFound \subseteq 1..MaxRegs
    /\ pc \in {"start", "mirrors", "insecure", "registries", "diff", "listNodes",
               "done", "lookupFailed", "listFailed", "panicked"}
    /\ step \in {NoStep} \cup [registries: Seq(RegistrySpec), nodes: 0..MaxNodes]

\* Merging by the binary-search insert (the mirror loop, then
\* appendUniqueRegistry over insecure hosts and explicit registries) yields,
\* once getClusterCRIRegistries returns, exactly the reference set: for
\* every Scheme+Host key the first candidate in insertion order, sorted by key.
RegistriesMatchReference ==
    Returned1 => registries = ReferenceRegistries(Store, clusterRegs)

\* After a successful return, c.ContainerRuntime.Registries holds the
\* original entries, in order, without those GetRegistry reported not found,
\* and with an empty RegistryRef reset to nil: the in-place filter through
\* the aliased validRegistries slice loses and duplicates nothing.
ValidRegistriesKept ==
    Returned1 =>
        LET kept == SelectSeq([j \in 1..Len(origRegs) |-> j], LAMBDA j : j \notin notFound)
        IN clusterRegs = [k \in DOMAIN kept |-> Normalize(origRegs[kept[k]])]

\* An update step is returned exactly when the reconciled set differs from
\* c.Status.Registries, and it carries the reconciled set.
StepIffChanged ==
    pc = "done" =>
        IF status = registries THEN step = NoStep
        ELSE step # NoStep /\ step.registries = registries

\* Violated: when GetRegistry fails and the handler returns the error, the
\* cluster's registry list is left as it was (up to the nil/"" reference).
RegistriesIntactOnError ==
    pc = "lookupFailed" =>
        [j \in DOMAIN clusterRegs |-> Normalize(clusterRegs[j])]
            = [j \in DOMAIN origRegs |-> Normalize(origRegs[j])]

=============================================================================
