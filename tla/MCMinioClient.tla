--------------------------- MODULE MCMinioClient ---------------------------
(***************************************************************************)
(* Values for the constants of MinioClient that a configuration file       *)
(* cannot state.                                                           *)
(***************************************************************************)
EXTENDS MinioClient, TLC

CONSTANTS c1, c2, b1, b2, o1, d1, d2

MCNameLength == (b1 :> 3) @@ (b2 :> 64)
MCSecretOf   == ("ak" :> "sk")
MCDataSize   == (d1 :> 5) @@ (d2 :> 4)

Plain(r) == [secure |-> FALSE, host |-> "minio", port |-> 9000,
                  accessKey |-> "ak", secretKey |-> "sk", region |-> r]
Tls(r)   == [Plain(r) EXCEPT !.secure = TRUE, !.port = 443]
WrongKey      == [Plain("") EXCEPT !.secretKey = "other"]
Anonymous     == [Plain("") EXCEPT !.accessKey = "", !.secretKey = ""]

DefaultType == {Absent}
SomeTypes   == {Absent, <<"image/png">>}

EveryConfig == {Plain(""), Plain("eu"), Tls(US_EAST_1), WrongKey, Anonymous}
EveryBucket == {"", b1, b2}

PlainConfig == {Plain("")}

Busy     == Reply(503, "")
Conflict == Reply(409, "")

TransientFaults == {Busy}
InUsEast == {US_EAST_1}

(* The clients differ in their names only. *)
Symmetry == Permutations(Clients)

NoFaults        == {}
ConflictFault   == {Conflict}
=============================================================================
