----------------------------- MODULE MCAnalyser -----------------------------
(***************************************************************************)
(* The files the configurations of Analyser analyse.                        *)
(***************************************************************************)
EXTENDS Analyser, MCCodeFiles

AllFiles     == AnyFiles @@ BrokenFiles
MCFiles      == AllFiles
=============================================================================
