---------------------------- MODULE MCWorkerPool ----------------------------
(* A small instance of WorkerPool for TLC: one spec for each path a job can *)
(* take through execute.                                                    *)
EXTENDS WorkerPool

CONSTANTS j1, j2, j3

Job(kind, driver, platform, commands, parser, material) ==
  [kind |-> kind, driver |-> driver, platform |-> platform,
   commands |-> commands, parser |-> parser, material |-> material]

Backup  == Job("backup", "cli", "custom", 2, FALSE, TRUE)
Scan    == Job("cve_scan", "cli", "builtin", 1, TRUE, TRUE)
Collect == Job("collect", "cli", "none", 1, TRUE, TRUE)
Netconf(commands) == Job("backup", "netconf", "none", commands, FALSE, TRUE)
Bare    == Job("backup", "cli", "builtin", 1, FALSE, FALSE)

MCQueues ==
  {[j \in Jobs |-> IF j = j1 THEN first ELSE IF j = j2 THEN second ELSE Bare] :
     <<first, second>> \in {<<Backup, Collect>>, <<Scan, Bare>>, <<Netconf(1), Netconf(0)>>}}
=============================================================================
