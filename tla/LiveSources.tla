----------------------------- MODULE LiveSources ----------------------------
(***************************************************************************)
(* What the program gets its data from: the vendors, whose answers every   *)
(* adapter keeps in the file cache (adapters/live, cache/fileTtlCache.ts), *)
(* and the providers of web search (sources/webSearch.ts), whose answers   *)
(* are kept in memory.  They share nothing: a behaviour follows one of     *)
(* them.                                                                   *)
(***************************************************************************)
EXTENDS VendorLoads, WebSearch

VARIABLE source

sourceVars == <<source, vars, searchVars>>

\* Web searches look at no file: one state of the directory is enough for them.
SourcesInit ==
  /\ source \in {"vendors", "web"}
  /\ Init /\ WebInit
  /\ source = "web" => added = 0

SourcesNext ==
  \/ source = "vendors" /\ Next /\ UNCHANGED <<source, searchVars>>
  \/ source = "web" /\ WebNext /\ UNCHANGED <<source, vars>>

SourcesSpec == SourcesInit /\ [][SourcesNext]_sourceVars

=============================================================================
