--------------------------- MODULE MC_AuthKeeper ---------------------------
(***************************************************************************)
(* Flag values for AuthKeeper: the controller flag unset (its default "c"),*)
(* explicitly empty, or naming an issuer; http unset or set; the timeout   *)
(* flag at its default.                                                    *)
(***************************************************************************)
EXTENDS AuthKeeper

MCControllers == {"", "c", "issuer.example"}
MCHttpAddrs   == {"", "localhost:8080"}
MCTimeouts    == {5}
=============================================================================
