--------------------------- MODULE MCRfbHandshake ---------------------------
(* Two connections from one address, and a ban at the second failure; both  *)
(* passwords are set at first, and the person at the server is asked.       *)
EXTENDS RfbHandshake

MCKinds ==
    [minor : {3, 7, 8}, tight : {FALSE}] \cup [minor : {8}, tight : {TRUE}]

MCConfigurations ==
    [using : {TRUE}, passwords : {Passwords}, action : {"query"}]
=============================================================================
