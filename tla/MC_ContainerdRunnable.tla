----------------------- MODULE MC_ContainerdRunnable -----------------------
(* Version strings are sequences of characters.  The pause table holds    *)
(* the releases around the registry switch at 1.25.                        *)
EXTENDS ContainerdRunnable

CONSTANTS ca1

MC_Servers == {"a", "t"}

MC_CAs == {ca1}

Reg(sc, h, skip, ca) == [scheme |-> sc, host |-> h, skipVerify |-> skip, ca |-> ca]

\* insecure registry "a": the http / https(skip-verify) pair
InsecureA == << Reg("http", "a", FALSE, NoCA), Reg("https", "a", TRUE, NoCA) >>

\* registry object https://t with its CA
SecureT == << Reg("https", "t", FALSE, ca1) >>

MC_Desired == {InsecureA, SecureT}

V1_24_17 == <<"v", "1", ".", "2", "4", ".", "1", "7">>
V1_25_0  == <<"v", "1", ".", "2", "5", ".", "0">>
V1_26_1  == <<"1", ".", "2", "6", ".", "1">>
V1_27_3  == <<"v", "1", ".", "2", "7", ".", "3">>
V1_27_10 == <<"v", "1", ".", "2", "7", ".", "1", "0">>
V1_28_0  == <<"v", "1", ".", "2", "8", ".", "0">>

MC_ClusterVersion == V1_27_3

MC_PauseTable ==
    (<<"1", "2", "4">> :> "3.7") @@ (<<"1", "2", "5">> :> "3.8") @@
    (<<"1", "2", "6">> :> "3.9") @@ (<<"1", "2", "7">> :> "3.9")

MC_PauseByMinor == (24 :> "3.7") @@ (25 :> "3.8") @@ (26 :> "3.9") @@ (27 :> "3.9")

MC_KubeVersions == {V1_24_17, V1_25_0, V1_26_1, V1_27_3, V1_27_10, V1_28_0}
=============================================================================
