---------------------------- MODULE JoinCommands ----------------------------
(***************************************************************************)
(* extractJoinCommands (k8s/utils.go): the control-plane and the worker   *)
(* join commands are cut out of `kubeadm init` output with two lazy       *)
(* regular expressions, after sanitizeCommand has joined the "\\\n"       *)
(* continuations and collapsed all whitespace to single spaces.           *)
(*                                                                         *)
(* Text is a sequence of words, the unit both Fields and the patterns'    *)
(* \s+ and \S+ work on.  The words the patterns name are atomic; value    *)
(* words (endpoint, token, hash, key) come from Values and contain none   *)
(* of them, so a literal of a pattern can only match a whole word.  The   *)
(* regexp package's leftmost-first semantics are kept: a match starts at  *)
(* the first "kubeadm join" from which one exists, and each .*? stops at  *)
(* the first word that lets the rest match.                               *)
(***************************************************************************)
EXTENDS Naturals, Sequences, SequencesExt

CONSTANTS
    Values,   \* value words of a command
    MaxCmds   \* join commands in one output

KJ == <<"kubeadm", "join">>
Token == "--token"
Hash == "--discovery-token-ca-cert-hash"
CP == "--control-plane"
CertKey == "--certificate-key"
Text == "text"   \* the prose kubeadm prints before each command
Cont == "\\"     \* a backslash-newline continuation

Words == {KJ[1], KJ[2], Token, Hash, CP, CertKey, Text} \cup Values

\* The commands kubeadm init prints, as words.
WorkerCmd(e, t, h) == KJ \o <<e, Token, t, Hash, h>>
MasterCmd(e, t, h, k) == WorkerCmd(e, t, h) \o <<CP, CertKey, k>>

Cmds == {WorkerCmd(e, t, h) : e, t, h \in Values}
        \cup {MasterCmd(e, t, h, k) : e, t, h, k \in Values}

\* kubeadm breaks a command before the hash and the control-plane flags.
Printed(c) == FlattenSeq([i \in DOMAIN c |-> IF c[i] \in {Hash, CP} THEN <<Cont, c[i]>> ELSE <<c[i]>>])

Output(cs) == FlattenSeq([i \in DOMAIN cs |-> <<Text>> \o Printed(cs[i])])

-----------------------------------------------------------------------------
(* The code.                                                               *)

\* mutant: the continuations are left in.
SanitizeKeepCont(raw) == raw

\* sanitizeCommand: "\\\n" becomes a space, then strings.Fields.
Sanitize(raw) == SelectSeq(raw, LAMBDA x : x # Cont)

\* The first index from `from` on where word x stands, 0 when none.
FirstAt(w, from, x) ==
    LET J == {j \in from..Len(w) : w[j] = x}
    IN IF J = {} THEN 0 ELSE CHOOSE j \in J : \A j2 \in J : j <= j2

\* mutant: the pattern stops at --certificate-key, without its value.
MasterEndNoKeyValue(w, i) ==
    LET j == FirstAt(w, i + 2, CP)
        k == FirstAt(w, j + 1, CertKey)
    IN IF j # 0 /\ k # 0 THEN k ELSE 0

\* kubeadm join.*?--control-plane.*?--certificate-key\s+\S+ tried at word
\* i (which holds "kubeadm" before "join"): the index of the match's last
\* word, 0 when no match starts at i.
MasterEnd(w, i) ==
    LET j == FirstAt(w, i + 2, CP)
        k == FirstAt(w, j + 1, CertKey)
    IN IF j # 0 /\ k # 0 /\ k < Len(w) THEN k + 1 ELSE 0

\* kubeadm join.*?--token\s+\S+.*?--discovery-token-ca-cert-hash\s+\S+
\* tried at word i.  The \S+ after --token takes a whole word.
WorkerEnd(w, i) ==
    LET j == FirstAt(w, i + 2, Token)
        k == FirstAt(w, j + 2, Hash)
    IN IF j # 0 /\ j < Len(w) /\ k # 0 /\ k < Len(w) THEN k + 1 ELSE 0

MatchEnd(w, i, pattern) ==
    IF pattern = "master" THEN MasterEnd(w, i) ELSE WorkerEnd(w, i)

\* Regexp.FindAllString(s, -1): leftmost matches, each search resuming
\* after the previous match.
RECURSIVE FindAll(_, _, _)
FindAll(w, from, pattern) ==
    LET S == {i \in from..(Len(w) - 1) :
                 SubSeq(w, i, i + 1) = KJ /\ MatchEnd(w, i, pattern) # 0}
    IN IF S = {} THEN <<>>
       ELSE LET i == CHOOSE i \in S : \A i2 \in S : i <= i2
                e == MatchEnd(w, i, pattern)
            IN <<SubSeq(w, i, e)>> \o FindAll(w, e + 1, pattern)

\* The first element of a list of matches, "" when it is empty.
FirstOr(ms) == IF ms = <<>> THEN <<>> ELSE ms[1]

\* master is the first master match; worker the first worker match that
\* does not contain --control-plane.
Extract(raw) ==
    LET w == Sanitize(raw)
    IN [master |-> FirstOr(FindAll(w, 1, "master")),
        worker |-> FirstOr(SelectSeq(FindAll(w, 1, "worker"), LAMBDA m : ~Contains(m, CP)))]

VARIABLES
    cmds,     \* the join commands the output carries, in print order
    master,   \* the returned master command
    worker,   \* the returned worker command
    done

vars == <<cmds, master, worker, done>>

Init ==
    /\ cmds \in UNION {[1..n -> Cmds] : n \in 0..MaxCmds}
    /\ master = <<>> /\ worker = <<>> /\ done = FALSE

ExtractJoinCommands ==
    /\ ~done
    /\ master' = Extract(Output(cmds)).master
    /\ worker' = Extract(Output(cmds)).worker
    /\ done' = TRUE
    /\ UNCHANGED cmds

Next == ExtractJoinCommands

Spec == Init /\ [][Next]_vars

-----------------------------------------------------------------------------
(* What the spec says extraction returns (spec sections 6 and 8): the     *)
(* control-plane command for master, the non-control-plane command for    *)
(* worker, first command wins, "" when there is none.                     *)

IsMasterCmd(c) == Contains(c, CP)

RefMaster == FirstOr(SelectSeq(cmds, IsMasterCmd))
RefWorker == FirstOr(SelectSeq(cmds, LAMBDA c : ~IsMasterCmd(c)))

\* The output of `kubeadm init` on a control-plane node: the control-plane
\* command, then the worker command with the same endpoint, token and hash.
KubeadmInitOutput ==
    \E e, t, h, k \in Values : cmds = <<MasterCmd(e, t, h, k), WorkerCmd(e, t, h)>>

TypeOK ==
    /\ master \in Seq(Words) /\ worker \in Seq(Words)
    /\ done \in BOOLEAN

\* For the output kubeadm init prints, extractJoinCommands returns both
\* commands whole, although the worker pattern's first match lies inside
\* the control-plane command.
KubeadmInitExtracted ==
    done /\ KubeadmInitOutput => master = RefMaster /\ worker = RefWorker

\* Violated: whatever order the commands are printed in, master is the
\* control-plane command (spec section 8: "in either order").
MasterInEitherOrder ==
    done => master = RefMaster

=============================================================================
