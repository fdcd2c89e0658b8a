--------------------------- MODULE MCAsyncStorage ---------------------------
(* An instance of AsyncStorage for TLC. *)
EXTENDS AsyncStorage, TLC
=============================================================================
