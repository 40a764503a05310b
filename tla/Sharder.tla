------------------------------- MODULE Sharder -------------------------------
(***************************************************************************)
(* src/runner/filter/sharder.ts: which part of a sorted list of cases the  *)
(* run of --shard=index/total executes.                                    *)
(***************************************************************************)
EXTENDS Integers, Sequences

\* validateShard, of an index and a total that are integers.
ValidShard(index, total) == total >= 1 /\ index \in 1 .. total

ShardStart(n, index, total) == ((index - 1) * n) \div total

\* Variant: the end is rounded up.
ShardEndUp(n, index, total) == (index * n + total - 1) \div total

ShardEnd(n, index, total) == (index * n) \div total

\* The positions, of n, that the shard gets: sorted.slice(start, end).
Shard(n, index, total) ==
  ShardStart(n, index, total) + 1 .. ShardEnd(n, index, total)

ShardCases(sorted, index, total) ==
  SubSeq(sorted, ShardStart(Len(sorted), index, total) + 1,
                 ShardEnd(Len(sorted), index, total))

\* Every position belongs to exactly one of the shards, and no two shards
\* differ by more than one in size.
Partitioned(n, total) ==
  /\ \A k \in 1 .. n : \E i \in 1 .. total :
       k \in Shard(n, i, total) /\ \A j \in 1 .. total : k \in Shard(n, j, total) => j = i
  /\ \A i \in 1 .. total :
       /\ ShardStart(n, i, total) >= 0
       /\ ShardEnd(n, i, total) \in ShardStart(n, i, total) .. n
       /\ (ShardEnd(n, i, total) - ShardStart(n, i, total)) * total \in (n - total + 1) .. (n + total - 1)
=============================================================================
