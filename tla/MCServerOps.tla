----------------------------- MODULE MCServerOps -----------------------------
(* All the tests, on clusters of one to three servers. *)
EXTENDS ServerOps

MCTests == {"certRotate", "clusterReset", "classic", "rotateKeys", "both",
            "restartService", "upgrade", "upgradeSlemicro"}
MCServerCounts == 1..3
MCAgentCounts == 0..1
=============================================================================
