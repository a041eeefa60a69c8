-------------------------- MODULE MCTerraformLocks --------------------------
(* Four nodes over two source directories, three of them with a workdir.     *)
EXTENDS TerraformLocks, TLC

CONSTANTS a, b, c, d

MCRank == a :> 1 @@ b :> 2 @@ c :> 3 @@ d :> 4

MCSource == a :> "vpc" @@ b :> "vpc" @@ c :> "vpc" @@ d :> "dns"
=============================================================================
