---------------------------- MODULE MCHttpUring ----------------------------
(***************************************************************************)
(* Up to two requests and three URLs, one of them the catch-all, as long   *)
(* as the shorter literal prefix; both requests start with that one, the   *)
(* second also with the longer prefix.                                     *)
(***************************************************************************)
EXTENDS HttpUring

CONSTANTS r1, r2

MCPrefixLen == [u \in Urls |-> IF u = "/ab" THEN 3 ELSE 2]
MCStartsWith == [r \in Requests |-> (IF r = r1 THEN {"/a"} ELSE {"/a", "/ab"}) \cap Urls]
=============================================================================
