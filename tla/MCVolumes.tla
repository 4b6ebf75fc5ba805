----------------------------- MODULE MCVolumes -----------------------------
(* Four clusters, and an ext2 volume whose indirect block and fifth data     *)
(* block do not fit at the same time.  Two FAT names share their 8.3 form.   *)
EXTENDS Volumes

FatPath(n) == <<"/", "mnt/fat", "/", n>>
ExtPath(n) == <<"/", "mnt/ext2", "/", n>>

MC83(name) == IF name = <<"report-1">> THEN "REPORT" ELSE IF name = <<"report-2">> THEN "REPORT" ELSE "B"

MCPaths == { FatPath("report-1"), FatPath("report-2"), FatPath("b"),
             ExtPath("x"), ExtPath("d"), ExtPath("d") \o <<"/", "y">> }
MCValues == { <<>>, <<"p", "q">>, <<"r", "s", "t", "u">> }
\* Longer sequences of commands where one volume only is mounted.
MCCommands(mt) == IF Len(mt) = 3 THEN 3 ELSE 5
=============================================================================
