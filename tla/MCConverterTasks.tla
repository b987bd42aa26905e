-------------------------- MODULE MCConverterTasks --------------------------
(***************************************************************************)
(* Small instances of ConverterTasks for TLC.                              *)
(***************************************************************************)
EXTENDS ConverterTasks
=============================================================================
