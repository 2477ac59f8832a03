---------------------------- MODULE MCClientMain ----------------------------
(***************************************************************************)
(* Values for the constants of ClientMain that a configuration file cannot *)
(* state.                                                                  *)
(***************************************************************************)
EXTENDS ClientMain, TLC

CONSTANTS c1, c2, b1, o1, d1

MCNameLength == b1 :> 9
MCSecretOf   == "ak" :> "sk"
MCDataSize   == d1 :> 2

DefaultType == {Absent}

Complete == [secure |-> FALSE, host |-> "minio", port |-> 9000,
             accessKey |-> "ak", secretKey |-> "sk", region |-> ""]
NoKey    == [Complete EXCEPT !.accessKey = ""]
WrongKey == [Complete EXCEPT !.secretKey = "other"]

Arguments         == {Complete, NoKey, WrongKey}

Busy       == Reply(503, "")
BadGateway == [status |-> 502, body |-> <<"text">>]

GatewayFaults == {Busy, BadGateway}
InUsEast      == {US_EAST_1}
=============================================================================
