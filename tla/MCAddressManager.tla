-------------------------- MODULE MCAddressManager --------------------------
(* Two threads, two addresses, buckets of one entry each.            *)
EXTENDS AddressManager, TLC

CONSTANTS T1, T2, A1, A2, S1, S2

TwoThreads == {T1, T2}
TwoAddrs == {A1, A2}
TwoSources == {S1, S2}

\* The new bucket of A1 depends on who told us; in the tried table both
\* addresses have the same bucket.
NewBucketTable   == [x \in TwoAddrs \X TwoSources |->
                        IF x = <<A1, S2>> THEN 2 ELSE 1]
TriedBucketTable == [a \in TwoAddrs |-> 1]

\* get_addresses takes the steps of select.
MethodsCalled == DOMAIN Program \ {"get_addresses"}

ThreadSymmetry == Permutations(TwoThreads)
=============================================================================
