----------------------------- MODULE AdminOps -----------------------------
(***************************************************************************)
(* The operations of the admin client that name items and report an        *)
(* outcome for each (kafka-admin: topics, configs, partitions, offsets,    *)
(* groups, transactions, cluster_info, security, tokens), each by what its *)
(* control depends on: the api key it sends, the broker it sends it to,    *)
(* what the request does to an item at the broker, and how the operation   *)
(* deals with the answer.  What is in the requests and the descriptions    *)
(* that come back is left out.                                             *)
(***************************************************************************)

\* ApiKey::is_mutating: these keys do not mutate, every other key does.
ReadKeys == {"Fetch", "ListOffsets", "Metadata", "OffsetFetch", "FindCoordinator", "DescribeGroups",
   "ListGroups", "SaslHandshake", "ApiVersions", "OffsetForLeaderEpoch", "DescribeAcls",
   "DescribeConfigs", "DescribeLogDirs", "SaslAuthenticate", "DescribeDelegationToken",
   "ListPartitionReassignments", "DescribeClientQuotas", "DescribeUserScramCredentials",
   "DescribeQuorum", "DescribeCluster", "DescribeProducers", "DescribeTransactions",
   "ListTransactions", "ConsumerGroupDescribe", "ListConfigResources", "DescribeTopicPartitions",
   "ShareGroupDescribe", "DescribeShareGroupOffsets"}
is_mutating_AllowList(key) == key \in {"CreateTopics", "DeleteTopics", "CreatePartitions",
   "DeleteRecords", "IncrementalAlterConfigs", "OffsetCommit", "DeleteGroups"}
is_mutating(key) == key \notin ReadKeys

\* `verb` is what the broker does with an item: "create" it, "delete" it,
\* "alter" one that exists, "put" it whether it exists or not, or "read" it.
\* `how` is the control of the operation:
\*   "narrow"  the answer goes through per_item_retrying;
\*   "split"   one request for each leader, group or broker, and a request
\*             that fails is the outcome of its items, not of the call;
\*   "named"   an item the answer does not mention gets an error, where the
\*             other operations report it nowhere;
\*   "positional"  the answer has no names, and one entry for each item;
\*   "spread"  a retriable code of the whole answer becomes each item's.
Asks(key, to, verb, how) == [key |-> key, to |-> to, verb |-> verb, how |-> how]

-----------------------------------------------------------------------------
create_topics == Asks("CreateTopics", "controller", "create", {"narrow", "named"})
validate_topics == Asks("CreateTopics", "controller", "read", {"narrow", "named"})
delete_topics == Asks("DeleteTopics", "controller", "delete", {"narrow"})
\* The item is the larger partition count: one a topic already has is refused.
create_partitions == Asks("CreatePartitions", "controller", "create", {"narrow", "named"})
describe_topics == Asks("DescribeTopicPartitions", "any", "read", {})
delete_records == Asks("DeleteRecords", "leader", "alter", {"split"})
describe_configs == Asks("DescribeConfigs", "any", "read", {})
alter_configs == Asks("IncrementalAlterConfigs", "any", "alter", {})
alter_partition_reassignments == Asks("AlterPartitionReassignments", "controller", "alter", {})
list_partition_reassignments == Asks("ListPartitionReassignments", "controller", "read", {})
elect_leaders == Asks("ElectLeaders", "controller", "put", {})
list_offsets == Asks("ListOffsets", "leader", "read", {"narrow", "split", "named"})
topic_offset_range == Asks("ListOffsets", "leader", "read", {"twice"})
list_transactions == Asks("ListTransactions", "any", "read", {"split"})
describe_transactions == Asks("DescribeTransactions", "coordinator", "read", {"split", "named"})
describe_producers == Asks("DescribeProducers", "leader", "read", {"split"})
describe_cluster == Asks("DescribeCluster", "any", "read", {})
describe_log_dirs == Asks("DescribeLogDirs", "any", "read", {"split", "named"})
topic_size == Asks("DescribeLogDirs", "any", "read", {"split", "sizes"})
describe_consumer_groups == Asks("ConsumerGroupDescribe", "coordinator", "read", {"split", "named"})
describe_share_groups == Asks("ShareGroupDescribe", "coordinator", "read", {"split", "named"})
fetch_offsets == Asks("OffsetFetch", "coordinator", "read", {})
reset_offsets == Asks("OffsetCommit", "coordinator", "put", {"narrow", "named"})
delete_offsets == Asks("OffsetDelete", "coordinator", "delete", {"narrow", "spread"})
delete_groups == Asks("DeleteGroups", "coordinator", "delete", {"split", "named"})
describe_acls == Asks("DescribeAcls", "any", "read", {})
create_acls == Asks("CreateAcls", "any", "put", {"positional"})
delete_acls == Asks("DeleteAcls", "any", "delete", {"positional"})
describe_client_quotas == Asks("DescribeClientQuotas", "any", "read", {})
alter_client_quotas == Asks("AlterClientQuotas", "any", "put", {})
describe_scram_credentials == Asks("DescribeUserScramCredentials", "any", "read", {})
upsert_scram_credentials == Asks("AlterUserScramCredentials", "any", "put", {})
delete_scram_credentials == Asks("AlterUserScramCredentials", "any", "delete", {})
create_delegation_token == Asks("CreateDelegationToken", "any", "create", {})
renew_delegation_token == Asks("RenewDelegationToken", "any", "alter", {})
expire_delegation_token == Asks("ExpireDelegationToken", "any", "delete", {})
describe_delegation_tokens == Asks("DescribeDelegationToken", "any", "read", {})

\* The operations that are one round of requests, or rounds of per_item_retrying.
Operations == {create_topics, validate_topics, delete_topics, create_partitions, delete_records,
   describe_configs, alter_configs, alter_partition_reassignments, list_partition_reassignments,
   elect_leaders, list_offsets, list_transactions, describe_transactions, describe_producers,
   describe_cluster, describe_log_dirs, describe_consumer_groups, describe_share_groups,
   fetch_offsets, delete_offsets, delete_groups, describe_acls, create_acls,
   delete_acls, describe_client_quotas, alter_client_quotas, describe_scram_credentials,
   upsert_scram_credentials, delete_scram_credentials, create_delegation_token,
   renew_delegation_token, expire_delegation_token, describe_delegation_tokens}
=============================================================================
