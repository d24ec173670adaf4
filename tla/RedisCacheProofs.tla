--------------------------- MODULE RedisCacheProofs ---------------------------
(* Theorems about RedisCache, for any rows, readers, versions and lengths of *)
(* a SCAN.                                                                   *)
EXTENDS RedisCache, TLAPS

-----------------------------------------------------------------------------
(* The inductive invariant *)

Calls == Readers \cup AllReaders

(* A row counts as lasting only while it is there, and the row of an id that *)
(* nothing updates is the one version the id has ever had.                   *)
RowsAccounted ==
    /\ \A r \in Calls : lasting[r] \subseteq Rows
    /\ \A i \in Ids \ Mutable : db[i] = ever[i]

(* What is on its way to the cache is a row, and of an id that nothing        *)
(* updates it is the row itself.                                             *)
FillsAreRows ==
    /\ \A r \in Readers : pc[r] = "set" =>
         value[r] # Absent /\ (id[r] \notin Mutable => value[r] = db[id[r]])
    /\ \A r \in AllReaders : \A item \in missing[r] :
         item[1] \notin Mutable => item[2] = db[item[1]]

(* cacheAside() answers null for no row that was there all the time.          *)
NullMeansNoRow ==
    \A r \in Readers : pc[r] = "done" /\ value[r] = Absent => id[r] \notin lasting[r]

(* A collection holds nothing until MGET has answered, all lasting rows once  *)
(* the query has, and one item per row unless SCAN repeated a key.            *)
CollectionsGrow == \A r \in AllReaders :
    /\ pc[r] \in {"idle", "scan", "mget"} => cached[r] = {}
    /\ pc[r] \in {"set", "done"} => lasting[r] \subseteq CachedIds(r)
    /\ IsInjective(keys[r]) =>
         \A item, other \in cached[r] : item[2] = other[2] => item = other

IInv ==
    /\ TypeOK /\ RowsAccounted /\ FillsAreRows
    /\ NullMeansNoRow /\ CollectionsGrow /\ CoherentIfImmutable

-----------------------------------------------------------------------------
USE CacheAssumption DEF CacheAssumption, Absent, Versions

LEMMA Initially == Init => IInv
<1> SUFFICES ASSUME Init PROVE IInv
  OBVIOUS
<1>1. TypeOK
  BY DEF Init, TypeOK, Items
<1>2. RowsAccounted /\ FillsAreRows /\ NullMeansNoRow /\ CoherentIfImmutable
  BY DEF Init, Calls, RowsAccounted, FillsAreRows, NullMeansNoRow, CoherentIfImmutable
<1>3. CollectionsGrow
  BY DEF Init, CollectionsGrow
<1> QED BY <1>1, <1>2, <1>3 DEF IInv

(* The world *)

LEMMA WriteKeeps == ASSUME IInv, NEW i \in Ids, Write(i) PROVE IInv'
<1> USE DEF Write, data, one, all
<1> PICK v \in Versions \cup {Absent} :
         /\ v = Absent => i \in Mutable /\ db[i] # Absent
         /\ v # Absent => v > ever[i]
         /\ i \in Mutable \/ ever[i] = Absent
         /\ db' = [db EXCEPT ![i] = v]
         /\ ever' = [ever EXCEPT ![i] = IF v = Absent THEN @ ELSE v]
         /\ lasting' = [r \in DOMAIN lasting |-> IF v = Absent THEN lasting[r] \ {i} ELSE lasting[r]]
  OBVIOUS
<1>1. TypeOK'
  BY DEF IInv, TypeOK
<1>2. RowsAccounted'
  BY DEF IInv, TypeOK, RowsAccounted, Rows, Calls
<1>3. \A j \in Ids \ Mutable : db'[j] = db[j] \/ db[j] = Absent
  BY DEF IInv, TypeOK, RowsAccounted
<1>4. FillsAreRows'
  BY <1>3 DEF IInv, TypeOK, FillsAreRows, Items
<1>5. NullMeansNoRow'
  BY DEF IInv, TypeOK, NullMeansNoRow
<1>6. CollectionsGrow'
  BY DEF IInv, TypeOK, CollectionsGrow, CachedIds
<1>7. CoherentIfImmutable'
  BY <1>3 DEF IInv, TypeOK, CoherentIfImmutable
<1> QED BY <1>1, <1>2, <1>4, <1>5, <1>6, <1>7 DEF IInv

LEMMA EvictKeeps == ASSUME IInv, NEW i \in Ids, Evict(i) PROVE IInv'
<1> USE DEF Evict, one
<1>1. TypeOK'
  BY DEF IInv, TypeOK
<1>2. RowsAccounted' /\ FillsAreRows' /\ NullMeansNoRow'
  BY DEF IInv, RowsAccounted, Rows, FillsAreRows, NullMeansNoRow
<1>3. CollectionsGrow'
  BY DEF IInv, CollectionsGrow, CachedIds
<1>4. CoherentIfImmutable'
  BY DEF IInv, TypeOK, CoherentIfImmutable
<1> QED BY <1>1, <1>2, <1>3, <1>4 DEF IInv

-----------------------------------------------------------------------------
(* Both kinds of call *)

LEMMA BeginKeeps == ASSUME IInv, NEW r \in Calls, Begin(r) PROVE IInv'
<1> USE DEF Begin, Goes, data, one, Calls
<1>1. TypeOK'
  BY DEF IInv, TypeOK, Rows, Hits
<1>2. RowsAccounted' /\ FillsAreRows' /\ NullMeansNoRow'
  BY DEF IInv, TypeOK, RowsAccounted, Rows, FillsAreRows, NullMeansNoRow
<1>3. CollectionsGrow'
  BY DEF IInv, TypeOK, CollectionsGrow, CachedIds
<1>4. CoherentIfImmutable'
  BY DEF IInv, CoherentIfImmutable
<1> QED BY <1>1, <1>2, <1>3, <1>4 DEF IInv

LEMMA ThrowsKeeps == ASSUME IInv, NEW r \in Calls, Throws(r) PROVE IInv'
<1> USE DEF Throws, Goes, data, one, all, Calls
<1>1. TypeOK'
  BY DEF IInv, TypeOK
<1>2. RowsAccounted' /\ FillsAreRows' /\ NullMeansNoRow'
  BY DEF IInv, TypeOK, RowsAccounted, Rows, FillsAreRows, NullMeansNoRow
<1>3. CollectionsGrow'
  BY DEF IInv, TypeOK, CollectionsGrow, CachedIds
<1>4. CoherentIfImmutable'
  BY DEF IInv, CoherentIfImmutable
<1> QED BY <1>1, <1>2, <1>3, <1>4 DEF IInv

-----------------------------------------------------------------------------
(* cacheAside() *)

LEMMA GetKeeps == ASSUME IInv, NEW r \in Readers, Get(r) PROVE IInv'
<1> USE DEF Get, Goes, data, all, Calls
<1>1. TypeOK'
  BY DEF IInv, TypeOK
<1>2. RowsAccounted' /\ FillsAreRows' /\ NullMeansNoRow'
  BY DEF IInv, TypeOK, RowsAccounted, Rows, FillsAreRows, NullMeansNoRow
<1>3. CollectionsGrow'
  BY DEF IInv, TypeOK, CollectionsGrow, CachedIds
<1>4. CoherentIfImmutable'
  BY DEF IInv, CoherentIfImmutable
<1> QED BY <1>1, <1>2, <1>3, <1>4 DEF IInv

LEMMA FallbackKeeps == ASSUME IInv, NEW r \in Readers, Fallback(r) PROVE IInv'
<1> USE DEF Fallback, Goes, data, all, Calls
<1>1. TypeOK'
  BY DEF IInv, TypeOK
<1>2. RowsAccounted' /\ FillsAreRows' /\ NullMeansNoRow'
  BY DEF IInv, TypeOK, RowsAccounted, Rows, FillsAreRows, NullMeansNoRow
<1>3. CollectionsGrow'
  BY DEF IInv, TypeOK, CollectionsGrow, CachedIds
<1>4. CoherentIfImmutable'
  BY DEF IInv, CoherentIfImmutable
<1> QED BY <1>1, <1>2, <1>3, <1>4 DEF IInv

LEMMA SetKeeps == ASSUME IInv, NEW r \in Readers, Set(r) PROVE IInv'
<1> USE DEF Set, Goes, one, all, Calls
<1>1. TypeOK'
  BY DEF IInv, TypeOK
<1>2. RowsAccounted' /\ FillsAreRows' /\ NullMeansNoRow'
  BY DEF IInv, TypeOK, RowsAccounted, Rows, FillsAreRows, NullMeansNoRow
<1>3. CollectionsGrow'
  BY DEF IInv, TypeOK, CollectionsGrow, CachedIds
<1>4. CoherentIfImmutable'
  BY DEF IInv, TypeOK, FillsAreRows, CoherentIfImmutable
<1> QED BY <1>1, <1>2, <1>3, <1>4 DEF IInv

-----------------------------------------------------------------------------
(* cacheAsideAll() *)

LEMMA ScanKeeps == ASSUME IInv, NEW r \in AllReaders, ScanBatch(r) \/ ScanEnds(r) PROVE IInv'
<1> USE DEF ScanBatch, ScanEnds, Goes, data, one, all, Calls
<1>1. TypeOK'
  <2>1. ASSUME NEW i \in Hits PROVE Append(keys[r], i) \in Seq(Ids)
    BY DEF IInv, TypeOK, Hits
  <2>2. keys' \in [AllReaders -> Seq(Ids)]
    BY <2>1 DEF IInv, TypeOK
  <2> QED BY <2>2 DEF IInv, TypeOK
<1>2. RowsAccounted' /\ FillsAreRows' /\ NullMeansNoRow'
  BY DEF IInv, TypeOK, RowsAccounted, Rows, FillsAreRows, NullMeansNoRow
<1>3. CollectionsGrow'
  BY DEF IInv, TypeOK, CollectionsGrow, CachedIds
<1>4. CoherentIfImmutable'
  BY DEF IInv, CoherentIfImmutable
<1> QED BY <1>1, <1>2, <1>3, <1>4 DEF IInv

LEMMA MgetKeeps == ASSUME IInv, NEW r \in AllReaders, Mget(r) PROVE IInv'
<1> USE DEF Mget, Goes, data, one, Calls
<1>1. keys[r] \in Seq(Ids) /\ DOMAIN keys[r] \subseteq Nat
  BY DEF IInv, TypeOK
<1>2. Found(r) \subseteq Nat \X Ids \X Versions
  BY <1>1 DEF IInv, TypeOK, Found
<1>3. TypeOK'
  BY <1>2 DEF IInv, TypeOK
<1>4. RowsAccounted' /\ FillsAreRows' /\ NullMeansNoRow'
  BY DEF IInv, TypeOK, RowsAccounted, Rows, FillsAreRows, NullMeansNoRow
<1>5. IsInjective(keys[r]) => \A item, other \in Found(r) : item[2] = other[2] => item = other
  BY DEF Found, IsInjective
<1>6. CollectionsGrow'
  BY <1>5 DEF IInv, TypeOK, CollectionsGrow, CachedIds
<1>7. CoherentIfImmutable'
  BY DEF IInv, CoherentIfImmutable
<1> QED BY <1>3, <1>4, <1>6, <1>7 DEF IInv

LEMMA FallbackAllKeeps == ASSUME IInv, NEW r \in AllReaders, FallbackAll(r) PROVE IInv'
<1> USE DEF FallbackAll, Goes, data, one, Calls
<1> DEFINE added == {<<0, row[1], row[2]>> : row \in Uncached(r)}
<1>1. Uncached(r) \subseteq Items /\ \A row \in Uncached(r) : row[2] = db[row[1]] /\ row[1] \notin CachedIds(r)
  BY DEF IInv, TypeOK, Uncached, Rows, Items
<1>2. added \subseteq Nat \X Ids \X Versions /\ {item[2] : item \in added} = Rows \ CachedIds(r)
  <2>1. added \subseteq Nat \X Ids \X Versions
    BY <1>1 DEF Items
  <2>2. \A item \in added : item[2] \in Rows \ CachedIds(r)
    BY DEF Uncached
  <2>3. ASSUME NEW i \in Rows \ CachedIds(r) PROVE \E item \in added : item[2] = i
    <3>1. <<i, db[i]>> \in Uncached(r)
      BY <2>3 DEF Uncached
    <3>2. <<0, i, db[i]>> \in added
      BY <3>1
    <3> QED BY <3>2
  <2> QED BY <2>1, <2>2, <2>3
<1>3. \A item, other \in added : item[2] = other[2] => item = other
  BY <1>1
<1>4. \A item \in cached[r], other \in added : item[2] # other[2]
  BY <1>2 DEF CachedIds
<1> HIDE DEF added
<1>5. cached' = [cached EXCEPT ![r] = cached[r] \cup added] /\ missing' = [missing EXCEPT ![r] = Uncached(r)]
  BY DEF added
<1>6. TypeOK'
  BY <1>1, <1>2, <1>5 DEF IInv, TypeOK
<1>7. RowsAccounted' /\ NullMeansNoRow'
  BY DEF IInv, TypeOK, RowsAccounted, Rows, NullMeansNoRow
<1>8. FillsAreRows'
  BY <1>1, <1>5 DEF IInv, TypeOK, FillsAreRows
<1>9. CollectionsGrow'
  <2>1. CachedIds(r)' = CachedIds(r) \cup Rows
    <3>1. cached'[r] = cached[r] \cup added
      BY <1>5 DEF IInv, TypeOK
    <3>2. CachedIds(r)' = CachedIds(r) \cup {item[2] : item \in added}
      BY <3>1 DEF CachedIds
    <3> QED BY <1>2, <3>2
  <2>2. lasting'[r] \subseteq CachedIds(r)'
    BY <2>1 DEF IInv, RowsAccounted
  <2>3. IsInjective(keys'[r]) => \A item, other \in cached'[r] : item[2] = other[2] => item = other
    BY <1>3, <1>4, <1>5 DEF IInv, TypeOK, CollectionsGrow
  <2>4. \A q \in AllReaders \ {r} : cached'[q] = cached[q] /\ pc'[q] = pc[q] /\ CachedIds(q)' = CachedIds(q)
    BY <1>5 DEF IInv, TypeOK, CachedIds
  <2>5. pc'[r] \in {"done", "set"}
    BY DEF IInv, TypeOK
  <2> QED BY <2>2, <2>3, <2>4, <2>5 DEF IInv, CollectionsGrow
<1>10. CoherentIfImmutable'
  BY DEF IInv, CoherentIfImmutable
<1> QED BY <1>6, <1>7, <1>8, <1>9, <1>10 DEF IInv

LEMMA BackfillKeeps == ASSUME IInv, NEW r \in AllReaders, Backfill(r) PROVE IInv'
<1> USE DEF Backfill, Goes, one, Calls
<1> PICK item \in missing[r] :
         /\ cache' = [cache EXCEPT ![item[1]] = item[2]]
         /\ missing' = [missing EXCEPT ![r] = @ \ {item}]
         /\ pc' = [pc EXCEPT ![r] = IF pc[r] = "set" /\ missing[r] = {item} THEN "done" ELSE pc[r]]
  OBVIOUS
<1>1. item[1] \in Ids /\ item[2] \in Versions
  BY DEF IInv, TypeOK, Items
<1>2. TypeOK'
  BY <1>1 DEF IInv, TypeOK
<1>3. RowsAccounted' /\ FillsAreRows' /\ NullMeansNoRow'
  BY DEF IInv, TypeOK, RowsAccounted, Rows, FillsAreRows, NullMeansNoRow
<1>4. CollectionsGrow'
  BY DEF IInv, TypeOK, CollectionsGrow, CachedIds
<1>5. CoherentIfImmutable'
  BY <1>1 DEF IInv, TypeOK, FillsAreRows, CoherentIfImmutable
<1> QED BY <1>2, <1>3, <1>4, <1>5 DEF IInv

-----------------------------------------------------------------------------

(* The invariant holds whatever is written, evicted and read side by side. *)
THEOREM Invariance == Spec => []IInv
<1>1. IInv /\ [Next]_vars => IInv'
  <2> SUFFICES ASSUME IInv, [Next]_vars PROVE IInv'
    OBVIOUS
  <2>1. CASE Next
    BY <2>1, WriteKeeps, EvictKeeps, BeginKeeps, ThrowsKeeps, GetKeeps, FallbackKeeps, SetKeeps,
       ScanKeeps, MgetKeeps, FallbackAllKeeps, BackfillKeeps DEF Next, AllStep, Calls
  <2>2. CASE UNCHANGED vars
    BY <2>2 DEF vars, data, one, all, IInv, TypeOK, RowsAccounted, Rows, FillsAreRows,
       NullMeansNoRow, CollectionsGrow, CachedIds, CoherentIfImmutable
  <2> QED BY <2>1, <2>2
<1> QED BY Initially, <1>1, PTL DEF Spec

(* Calls, rows and keys keep to their types. *)
THEOREM TypeCorrect == Spec => []TypeOK
<1>1. IInv => TypeOK
  BY DEF IInv
<1> QED BY Invariance, <1>1, PTL

(* A read misses no row that was there all the time it took, and returns one  *)
(* twice only if SCAN returned its key twice, for any number of readers.      *)
THEOREM LastingRead == Spec => []LastingRowsAreRead
<1>1. IInv => LastingRowsAreRead
  BY DEF IInv, NullMeansNoRow, CollectionsGrow, LastingRowsAreRead
<1> QED BY Invariance, <1>1, PTL

(* The cache is coherent for rows that nothing updates or deletes. *)
THEOREM Coherent == Spec => []CoherentIfImmutable
<1>1. IInv => CoherentIfImmutable
  BY DEF IInv
<1> QED BY Invariance, <1>1, PTL

=============================================================================
