------------------------------ MODULE MCMempool ------------------------------
(* Small instances of Mempool. *)
EXTENDS Mempool

MCConfigs == {[Recheck |-> TRUE, KeepInvalidTxsInCache |-> FALSE],
              [Recheck |-> FALSE, KeepInvalidTxsInCache |-> TRUE]}
=============================================================================
