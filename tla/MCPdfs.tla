------------------------------- MODULE MCPdfs -------------------------------
(* A disk of thirteen sectors: the boot area, whose sectors the ATA driver   *)
(* refuses to write, ends where the volume begins.  One entry per directory  *)
(* sector, so that every second entry extends a chain.                       *)
EXTENDS Pdfs

MCScaffold ==
  << [op |-> "mkdir",  path |-> <<"home">>, uid |-> 0, mode |-> DIR_DEF],
     [op |-> "chmod",  path |-> <<"home">>, uid |-> 0, mode |-> DIR_DEF],
     [op |-> "create", path |-> <<"version">>, val |-> <<"v">>] >>

MCNames    == { "home", "version", "a", "b", "old" }
MCContents == { "v", "w" }
MCPaths   == { <<"version">>, <<"a">>, <<"home", "b">> }
MCCallers == { [uid |-> 0, root |-> TRUE], [uid |-> 1, root |-> FALSE] }
MCRoot    == { [uid |-> 0, root |-> TRUE] }
MCModes   == { {"XUSR"} }
MCValues  == { <<"v">>, <<"w", "w">> }
=============================================================================
