---------------------------- MODULE MCInstallWup ----------------------------
(***************************************************************************)
(* InstallWup with two results of an installation, any number of which     *)
(* follow one another.                                                     *)
(***************************************************************************)
EXTENDS InstallWup

ASSUME InstallInstance == Results = {"ok", "error"}
=============================================================================
