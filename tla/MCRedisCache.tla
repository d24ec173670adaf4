---------------------------- MODULE MCRedisCache ----------------------------
(* Two rows, one of which changes, read one by one and as a collection.     *)
EXTENDS RedisCache, TLC

CONSTANTS fixed, changing, one1, one2, all1

BothIds == {fixed, changing}
TwoReaders == {one1, one2}
OneAllReader == {all1}
Changing == {changing}
ReadersAlike == Permutations(TwoReaders)

=============================================================================
