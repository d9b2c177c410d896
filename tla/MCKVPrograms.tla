---------------------------- MODULE MCKVPrograms -----------------------------
(***************************************************************************)
(* KVPrograms on the small instance of MCKVFile; main asks for a value of  *)
(* k1 and of k2.                                                           *)
(***************************************************************************)
EXTENDS KVPrograms, MCKVFile

MCMainKeys == <<k1, k2>>
=============================================================================
