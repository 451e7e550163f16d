--------------------------- MODULE MCDeployment ---------------------------
(***************************************************************************)
(* An instance of Deployment for TLC: the shape of a configuration file    *)
(* with one lending contract, its registry, a refinance proxy with its     *)
(* flash lender, and an external payment token.                            *)
(***************************************************************************)
EXTENDS Deployment, TLC

MCDependencies ==
  [k \in Contracts |->
     CASE k = "p2p.eth_nfts" -> {"common.p2p_controller", "common.weth"}
       [] k = "proxies.arcade" -> {"p2p.eth_nfts", "common.balancer"}
       [] OTHER -> {}]
MCProxiedBy == "proxies.arcade" :> "p2p.eth_nfts"
=============================================================================
