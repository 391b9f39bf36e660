---------------------------- MODULE MCAccountSession ----------------------------
(* One account that exists and one that may be registered; cfg files give the *)
(* values.                                                                    *)
EXTENDS AccountSession
=============================================================================
