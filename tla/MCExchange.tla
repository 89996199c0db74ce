------------------------------ MODULE MCExchange ------------------------------
(***************************************************************************)
(* Every exchange for TLC over one status code of each kind: the ends of   *)
(* the 4xx and 5xx ranges, those ClassifyHTTPResponse tells apart, and a   *)
(* redirect that was not followed.                                         *)
(***************************************************************************)
EXTENDS Exchange

CONSTANT a1

SomeCodes == {304, 400, 401, 403, 404, 429, 499, 500, 503, 599}
=============================================================================
