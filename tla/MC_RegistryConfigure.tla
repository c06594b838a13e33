------------------------ MODULE MC_RegistryConfigure ------------------------
(* Registry lists as the reconciler emits them: sorted by Scheme+Host,    *)
(* so for "a" http precedes https, while for "t" ("httpst" < "httpt")     *)
(* https precedes http.                                                    *)
EXTENDS RegistryConfigure

CONSTANTS ca1, ca2

MC_Servers == {"a", "t"}

MC_CAs == {ca1, ca2}

Reg(sc, h, skip, ca) == [scheme |-> sc, host |-> h, skipVerify |-> skip, ca |-> ca]

\* insecure registry "a": the http / https(skip-verify) pair
InsecureA == << Reg("http", "a", FALSE, NoCA), Reg("https", "a", TRUE, NoCA) >>

\* registry object https://t with its CA
SecureT == << Reg("https", "t", FALSE, ca1) >>

\* both schemes of "t" registered, each with its own CA
BothT == << Reg("https", "t", FALSE, ca1), Reg("http", "t", FALSE, ca2) >>

MC_Desired == {<<>>, InsecureA, SecureT}

MC_DesiredBothT == {BothT}
=============================================================================
