--------------------------- MODULE MCRpcFailover ---------------------------
(* An instance of RpcFailover for TLC: "shared" is listed for two EVM chains *)
(* and serves one of them; Solana has an endpoint of its own.                *)
EXTENDS RpcFailover, TLC

MCUrls == "main" :> <<"primary", "shared">> @@ "base" :> <<"shared", "other">>
          @@ "solana" :> <<"sol">>
MCNetwork == "primary" :> "main" @@ "shared" :> "main" @@ "other" :> "base"
             @@ "sol" :> "solana"
=============================================================================
