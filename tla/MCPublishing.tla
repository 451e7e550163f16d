--------------------------- MODULE MCPublishing ---------------------------
(***************************************************************************)
(* An instance of Publishing for TLC, of the shape of prod/ethereum: one   *)
(* lending contract and a proxy that names it and a contract of others.    *)
(***************************************************************************)
EXTENDS Publishing

MCProperties == [k \in Deployed |-> IF k = "arcade" THEN {"usdc", "ext"} ELSE {}]
MCFileAbi == [k \in {"ext", "nftfi"} |-> <<k, 0>>]
MCChainOf == [c \in {"bayc", "punk"} |-> IF c = "bayc" THEN "eth" ELSE "ape"]
MCCollections == <<"bayc", "punk">>
===========================================================================
