------------------------- MODULE MCSnapshotContents -------------------------
(* Instances of SnapshotContents for TLC: an EVM address in two spellings,   *)
(* two Solana addresses that differ in case only, a wallet of another type.  *)
EXTENDS SnapshotContents, TLC

OneEvm == 1 :> "evm"
FiveTypes == 1 :> "evm" @@ 2 :> "evm" @@ 3 :> "solana" @@ 4 :> "solana" @@ 5 :> "other"
FiveAddresses == 1 :> "X" @@ 2 :> "x" @@ 3 :> "X" @@ 4 :> "x" @@ 5 :> "y"
OneAddress == 1 :> "X"
AsListed == [c \in EvmChains |-> ("mainnet" :> 1 @@ "base" :> 2 @@ "arbitrum" :> 3)[c]]
AsNamed == [c \in EvmChains |-> ("mainnet" :> 3 @@ "base" :> 2 @@ "arbitrum" :> 1)[c]]
LowerCase == "X" :> "x" @@ "x" :> "x" @@ "y" :> "y"
=============================================================================
