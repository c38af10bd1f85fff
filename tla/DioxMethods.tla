----------------------------- MODULE DioxMethods -----------------------------
(***************************************************************************)
(* The RPC operations of DioxClient (client/dioxclient.py) as a table: the *)
(* method each names, the params it puts in the body and what it takes out *)
(* of the answer.  An operation with optional params has a row without any *)
(* of them and one with all: what a node accepts grows with the params.    *)
(*   An answer has the fields that the comments in the source give it and  *)
(* those that the source reads.                                             *)
(***************************************************************************)
EXTENDS Naturals, TLC

Row(method, keys, reads) == [method |-> method, keys |-> keys, reads |-> reads]

(* "object": the answer goes into a Box, which takes nothing but a mapping. *)
QueryTable ==
  "get_overview" :> Row("dx.overview", {}, {}) @@
  "get_block_number" :> Row("dx.committed_head_height", {}, {"HeadHeight"}) @@
  "get_shard_index" :> Row("dx.shard_index", {"scope", "scope_key"}, {"ShardIndex"}) @@
  "get_isn" :> Row("dx.isn", {"address"}, {"ISN"}) @@
  "get_consensus_header_by_height" :>
     Row("dx.consensus_header", {"query_type", "height"}, {"object"}) @@
  "get_consensus_header_by_hash" :>
     Row("dx.consensus_header", {"query_type", "hash"}, {"object"}) @@
  "get_transaction_block_by_height" :>
     Row("dx.transaction_block", {"query_type", "shard_index", "height"}, {"object"}) @@
  "get_transaction_block_by_hash" :>
     Row("dx.transaction_block", {"query_type", "shard_index", "hash"}, {"object"}) @@
  "get_transaction" :> Row("dx.transaction", {"hash"}, {"object"}) @@
  "get_transaction_on_shard" :> Row("dx.transaction", {"hash", "shard_index"}, {"object"})

CodeTable ==
  "get_contract_info" :> Row("dx.contract_info", {"contract"}, {"object"}) @@
  "get_source_code" :> Row("dx.source_code", {"contract"}, {})

StateTable ==
  "get_contract_state" :> Row("dx.contract_state", {"contract_with_scope"}, {"object"}) @@
  "get_contract_state_of_key" :>
     Row("dx.contract_state", {"contract_with_scope", "scope_key"}, {"object"}) @@
  "get_dapp_info" :> Row("dx.dapp", {"name"}, {"object"}) @@
  "get_token_info" :> Row("dx.token", {"symbol"}, {"object"})

ComposeTable ==
  LET required == {"function", "args"}
      optional == {"gasprice", "gaslimit", "isn", "tokens", "ttl"}
  IN "compose_transaction" :> Row("tx.compose", required \cup {"sender"}, {"TxData"}) @@
     "compose_delegatee" :> Row("tx.compose", required \cup {"delegatee"}, {"TxData"}) @@
     "compose_transaction_in_full" :>
        Row("tx.compose", required \cup {"sender"} \cup optional, {"TxData"}) @@
     "compose_delegatee_in_full" :>
        Row("tx.compose", required \cup {"delegatee"} \cup optional, {"TxData"})

SendTable ==
  "send_raw_transaction" :> Row("tx.send", {"txdata"}, {"Hash"}) @@
  "send_transaction_with_sk" :>
     Row("tx.send_withSK", {"privatekey", "function", "args"}, {"Hash"})

Table == QueryTable @@ CodeTable @@ StateTable @@ ComposeTable @@ SendTable

DioxMethod == [o \in DOMAIN Table |-> Table[o].method]
DioxKeys == [o \in DOMAIN Table |-> Table[o].keys]
DioxReads == [o \in DOMAIN Table |-> Table[o].reads]

QueryAnswers ==
  "dx.overview" :> {"object", "HeadHeight"} @@
  "dx.committed_head_height" :> {"object", "HeadHeight"} @@
  "dx.shard_index" :> {"object", "ShardIndex"} @@
  "dx.isn" :> {"object", "ISN"} @@
  "dx.consensus_header" :> {"object", "Hash"} @@
  "dx.transaction_block" :> {"object", "Hash"} @@
  "dx.transaction" :> {"object", "Hash"}

(* The source code comes as a string.                                       *)
CodeAnswers ==
  "dx.contract_info" :> {"object", "Hash"} @@
  "dx.source_code" :> {}

StateAnswers ==
  "dx.contract_state" :> {"object"} @@
  "dx.dapp" :> {"object"} @@
  "dx.token" :> {"object"}

SendAnswers ==
  "tx.compose" :> {"object", "TxData"} @@
  "tx.send" :> {"object", "Hash"} @@
  "tx.send_withSK" :> {"object", "Hash"}

AnswerFields == QueryAnswers @@ CodeAnswers @@ StateAnswers @@ SendAnswers

Sending == {"tx.send", "tx.send_withSK"}

=============================================================================
