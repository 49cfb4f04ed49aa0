--------------------------- MODULE SimplefsProofs ---------------------------
(***************************************************************************)
(* Proofs about Simplefs for every value of the constants: the type        *)
(* invariant, and that every file in the storage directory is owned by the *)
(* index, by an in-flight SetMultiLevel or by the last Init scan when no   *)
(* os.WriteFile fails.                                                     *)
(***************************************************************************)
EXTENDS Simplefs, TLAPS

USE KeysAssumption, SizesAssumption, BudgetAssumption, CapacityAssumption,
    DepthAssumption, FlagsAssumption

-----------------------------------------------------------------------------
(***************************************************************************)
(* Lemmas about the helpers.                                               *)
(***************************************************************************)

LEMMA IdleFrameType == IdleFrame \in Frame
BY DEF IdleFrame, Frame, PCs

LEMMA StatSizeType ==
    ASSUME TypeOK, NEW k
    PROVE  StatSize(k) \in Nat
BY DEF StatSize, TypeOK, NoFile

LEMMA UnlinkType ==
    ASSUME TypeOK, NEW k
    PROVE  /\ Unlink(k) \in [Keys -> Nat \cup {NoFile}]
           /\ \A j \in Keys : Unlink(k)[j] # NoFile => j # k /\ Unlink(k)[j] = fsize[j]
BY DEF Unlink, TypeOK

LEMMA PromoteType ==
    ASSUME NEW rel \in SUBSET (AllKeys \X AllKeys), NEW live \in SUBSET AllKeys,
           NEW k \in AllKeys
    PROVE  /\ Promote(rel, live, k) \subseteq AllKeys \X AllKeys
           /\ Forget(rel, k) \subseteq AllKeys \X AllKeys
BY DEF Promote, Forget

\* What an eviction does to the part of the state TypeOK and FilesOwned
\* speak of.
LEMMA EvictFacts ==
    ASSUME TypeOK, NEW k \in AllKeys, Evict(k)
    PROVE  /\ idx' = idx \ {k}
           /\ idx' \subseteq AllKeys
           /\ newer' \subseteq AllKeys \X AllKeys
           /\ expired' \subseteq idx'
           /\ fsize' \in [Keys -> Nat \cup {NoFile}]
           /\ diskSize' \in Int
           /\ actualSize' \in Int
           /\ \A j \in Keys : fsize'[j] # NoFile => j # k /\ fsize'[j] = fsize[j]
<1>1. StatSize(k) \in Nat
  BY StatSizeType
<1>2. newer' \subseteq AllKeys \X AllKeys
  BY PromoteType DEF Evict, TypeOK
<1>3. fsize' \in [Keys -> Nat \cup {NoFile}]
      /\ \A j \in Keys : fsize'[j] # NoFile => j # k /\ fsize'[j] = fsize[j]
  BY UnlinkType DEF Evict
<1>4. QED
  BY <1>1, <1>2, <1>3 DEF Evict, TypeOK

\* What cache.Set does, under the cache lock (no batch pending).
LEMMA CacheSetFacts ==
    ASSUME TypeOK, NEW k \in AllKeys, NEW dead \in BOOLEAN, pending = {}, CacheSet(k, dead)
    PROVE  /\ k \in idx'
           /\ idx' \subseteq AllKeys
           /\ newer' \subseteq AllKeys \X AllKeys
           /\ expired' \subseteq idx'
           /\ fsize' \in [Keys -> Nat \cup {NoFile}]
           /\ diskSize' \in Int
           /\ actualSize' \in Int
           /\ \A j \in Keys : fsize'[j] # NoFile =>
                 /\ fsize[j] # NoFile
                 /\ j \in idx => j \in idx'
<1>1. StatSize(k) \in Nat /\ Lapse(k, dead) \subseteq {k}
  BY StatSizeType DEF Lapse
<1>2. CASE k \in idx
  <2>1. /\ idx' = idx
        /\ newer' = Promote(newer, idx, k)
        /\ expired' = (expired \ {k}) \cup Lapse(k, dead)
        /\ actualSize' \in {actualSize, actualSize + StatSize(k)}
        /\ fsize' = fsize /\ diskSize' = diskSize
    BY <1>2 DEF CacheSet, InsertHook
  <2>2. newer' \subseteq AllKeys \X AllKeys
    BY <2>1 DEF Promote, TypeOK
  <2>3. actualSize' \in Int
    BY <1>1, <2>1 DEF TypeOK
  <2>4. QED
    BY <1>1, <1>2, <2>1, <2>2, <2>3 DEF TypeOK
<1>3. CASE k \notin idx /\ ~Full
  <2>1. /\ idx' = idx \cup {k}
        /\ newer' = Promote(newer, idx', k)
        /\ actualSize' = actualSize + StatSize(k)
        /\ expired' = expired \cup Lapse(k, dead)
        /\ fsize' = fsize /\ diskSize' = diskSize
    BY <1>3 DEF CacheSet, InsertHook
  <2>2. idx' \subseteq AllKeys
    BY <2>1 DEF TypeOK
  <2>3. newer' \subseteq AllKeys \X AllKeys
    BY <2>1, <2>2 DEF Promote, TypeOK
  <2>4. \A j \in Keys : fsize'[j] # NoFile => fsize[j] # NoFile /\ (j \in idx => j \in idx')
    BY <2>1
  <2>5. actualSize' \in Int /\ diskSize' \in Int
    BY <1>1, <2>1 DEF TypeOK
  <2>6. expired' \subseteq idx' /\ fsize' \in [Keys -> Nat \cup {NoFile}]
    BY <1>1, <2>1 DEF TypeOK
  <2>7. QED
    BY <2>1, <2>2, <2>3, <2>4, <2>5, <2>6
<1>4. CASE k \notin idx /\ Full
  <2> DEFINE v == Oldest
  <2>1. /\ idx' = (idx \ {v}) \cup {k}
        /\ newer' = Promote(Forget(newer, v), idx', k)
        /\ expired' = (expired \ {v}) \cup Lapse(k, dead)
        /\ actualSize' = actualSize - StatSize(v) + StatSize(k)
        /\ diskSize' = diskSize - StatSize(v)
        /\ fsize' = Unlink(v)
    BY <1>4 DEF CacheSet
  <2>2. idx' \subseteq AllKeys
    BY <2>1 DEF TypeOK
  <2>3. newer' \subseteq AllKeys \X AllKeys
    <3>1. Forget(newer, v) \subseteq AllKeys \X AllKeys
      BY DEF Forget, TypeOK
    <3>2. QED
      BY <2>1, <2>2, <3>1 DEF Promote
  <2>4. StatSize(v) \in Nat
    BY StatSizeType
  <2>5. \A j \in Keys : fsize'[j] # NoFile => j # v /\ fsize'[j] = fsize[j]
    BY <2>1, UnlinkType
  <2>6. fsize' \in [Keys -> Nat \cup {NoFile}]
    BY <2>1, UnlinkType
  <2>7. expired' \subseteq idx'
    BY <1>1, <2>1 DEF TypeOK
  <2>8. actualSize' \in Int /\ diskSize' \in Int
    BY <1>1, <2>1, <2>4 DEF TypeOK
  <2>9. \A j \in Keys : fsize'[j] # NoFile => fsize[j] # NoFile /\ (j \in idx => j \in idx')
    BY <2>1, <2>5
  <2>10. QED
    BY <2>1, <2>2, <2>3, <2>6, <2>7, <2>8, <2>9
<1>5. QED
  BY <1>2, <1>3, <1>4 DEF CacheSet

-----------------------------------------------------------------------------
(***************************************************************************)
(* Type correctness.                                                       *)
(***************************************************************************)

\* The state keeps its shape in every step of every caller, batch and
\* restart: in particular a batch of evictions only ever names held keys,
\* and the recursion depth of recoverEnoughSpaceIfNeeded stays within
\* 0..MaxDepth.
LEMMA TypeStep == TypeOK /\ [Next]_vars => TypeOK'
<1> SUFFICES ASSUME TypeOK, [Next]_vars PROVE TypeOK'
  OBVIOUS
<1>1. ASSUME NEW p \in Callers, NEW k \in Keys, NEW b \in BaseKeys, NEW s \in Sizes,
             Begin(p, k, b, s)
      PROVE  TypeOK'
  BY <1>1 DEF Begin, TypeOK, Frame, PCs
<1>2. ASSUME NEW p \in Callers, ReclaimIter(p) PROVE TypeOK'
  BY <1>2 DEF ReclaimIter, TypeOK, Frame, PCs
<1>3. ASSUME NEW p \in Callers, StackOverflow(p) PROVE TypeOK'
  BY <1>3, IdleFrameType DEF StackOverflow, Restart, TypeOK
<1>4. ASSUME NEW p \in Callers, ReclaimDone(p) PROVE TypeOK'
  BY <1>4 DEF ReclaimDone, TypeOK, Frame, PCs
<1>5. ASSUME NEW p \in Callers, WriteFile(p) PROVE TypeOK'
  <2>1. StatSize(frame[p].key) \in Nat
    BY StatSizeType
  <2>2. QED
    BY <1>5, <2>1 DEF WriteFile, TypeOK, Frame, PCs
<1>6. ASSUME NEW p \in Callers, WriteFail(p) PROVE TypeOK'
  <2>1. StatSize(frame[p].key) \in Nat
    BY StatSizeType
  <2>2. QED
    BY <1>6, <2>1, IdleFrameType DEF WriteFail, TypeOK, Frame, NoFile
<1>7. ASSUME NEW p \in Callers, Index(p) PROVE TypeOK'
  <2>1. frame[p].key \in AllKeys
    BY DEF TypeOK, Frame, AllKeys
  <2>2. /\ idx' \subseteq AllKeys
        /\ newer' \subseteq AllKeys \X AllKeys
        /\ expired' \subseteq idx'
        /\ fsize' \in [Keys -> Nat \cup {NoFile}]
        /\ diskSize' \in Int
        /\ actualSize' \in Int
    BY <1>7, <2>1, CacheSetFacts DEF Index
  <2>3. frame' \in [Callers -> Frame]
    BY <1>7 DEF Index, TypeOK, Frame, PCs
  <2>4. QED
    BY <1>7, <2>2, <2>3 DEF Index, TypeOK
<1>8. ASSUME NEW k \in SimpleKeys, Set(k) PROVE TypeOK'
  BY <1>8, CacheSetFacts DEF Set, TypeOK, AllKeys
<1>9. ASSUME NEW k \in AllKeys, Get(k) PROVE TypeOK'
  BY <1>9, PromoteType DEF Get, TypeOK
<1>10. ASSUME NEW k \in AllKeys, Delete(k) PROVE TypeOK'
  BY <1>10, EvictFacts DEF Delete, TypeOK
<1>11. ASSUME NEW k \in AllKeys, Expire(k) PROVE TypeOK'
  BY <1>11 DEF Expire, TypeOK
<1>12. ASSUME NEW k \in AllKeys, EvictPending(k) PROVE TypeOK'
  BY <1>12, EvictFacts DEF EvictPending, TypeOK
<1>13. ASSUME NEW S \in SUBSET AllKeys, DeleteMany(S) PROVE TypeOK'
  BY <1>13 DEF DeleteMany, TypeOK
<1>14. CASE Reset
  BY <1>14 DEF Reset, TypeOK
<1>15. CASE Sweep
  BY <1>15 DEF Sweep, TypeOK
<1>16. CASE Restart
  BY <1>16, IdleFrameType DEF Restart, TypeOK
<1>17. CASE UNCHANGED vars
  BY <1>17 DEF vars, TypeOK
<1>18. ASSUME NEW p \in Callers, MapGet(p) PROVE TypeOK'
  <2>1. frame[p].base \in AllKeys /\ mval[frame[p].base] \subseteq Keys
    BY DEF TypeOK, Frame, AllKeys
  <2>2. newer' \subseteq AllKeys \X AllKeys
    BY <1>18, <2>1 DEF MapGet, Promote, TypeOK
  <2>3. frame' \in [Callers -> Frame]
    <3>1. \E x \in SUBSET Keys : frame' = [frame EXCEPT ![p].pc = "mapset", ![p].snap = x]
      BY <1>18, <2>1 DEF MapGet
    <3>2. PICK x \in SUBSET Keys : frame' = [frame EXCEPT ![p].pc = "mapset", ![p].snap = x]
      BY <3>1
    <3>3. frame[p] \in Frame
      BY DEF TypeOK
    <3>4. [frame[p] EXCEPT !.pc = "mapset", !.snap = x] \in Frame
      BY <3>3 DEF Frame, PCs
    <3>5. QED
      BY <3>2, <3>4 DEF TypeOK
  <2>4. QED
    BY <1>18, <2>2, <2>3 DEF MapGet, TypeOK
<1>19. ASSUME NEW p \in Callers, MapSet(p) PROVE TypeOK'
  <2>1. frame[p].base \in AllKeys
    BY DEF TypeOK, Frame, AllKeys
  <2>2. frame[p].snap \cup {frame[p].key} \subseteq Keys
    BY DEF TypeOK, Frame
  <2>3. QED
    BY <1>19, <2>1, <2>2, CacheSetFacts, IdleFrameType DEF MapSet, TypeOK
<1>20. ASSUME NEW b \in BaseKeys, GetMultiLevel(b) PROVE TypeOK'
  BY <1>20, PromoteType DEF GetMultiLevel, Get, TypeOK, AllKeys
<1>21. QED
  BY <1>1, <1>2, <1>3, <1>4, <1>5, <1>6, <1>7, <1>8, <1>9, <1>10, <1>11,
     <1>12, <1>13, <1>14, <1>15, <1>16, <1>17, <1>18, <1>19, <1>20 DEF Next

\* Spec => []TypeOK.
THEOREM TypeCorrect == Spec => []TypeOK
<1>1. Init => TypeOK
  BY IdleFrameType DEF Init, TypeOK, NoFile
<1>2. QED
  BY <1>1, TypeStep, PTL DEF Spec

-----------------------------------------------------------------------------
(***************************************************************************)
(* File ownership.  FilesOwned is not inductive alone: a step must know    *)
(* that the caller it moves is not the one at "index" that owns a file,   *)
(* and that evictions only unlink the evicted key's file, which needs the  *)
(* types of frame and fsize.  TypeOK /\ FilesOwned is inductive.           *)
(***************************************************************************)

OwnInv == TypeOK /\ FilesOwned

\* A step that changes neither the files, the index, the leftovers, nor any
\* caller at "index" keeps every file owned.
LEMMA OwnedFrameStep ==
    ASSUME OwnInv, NEW p \in Callers,
           frame[p].pc # "index", frame'[p].pc # "index",
           \A q \in Callers \ {p} : frame'[q] = frame[q],
           fsize' = fsize, idx' = idx, leftover' = leftover
    PROVE  FilesOwned'
BY DEF OwnInv, FilesOwned

\* The step of every caller, sweep, batch and restart keeps every file in
\* the storage directory owned, as long as os.WriteFile never fails.
LEMMA OwnStep ==
    ASSUME ~WriteFailures
    PROVE  OwnInv /\ [Next]_vars => OwnInv'
<1> SUFFICES ASSUME OwnInv, [Next]_vars PROVE FilesOwned'
  BY TypeStep DEF OwnInv
<1> USE DEF OwnInv
<1>1. ASSUME NEW p \in Callers, NEW k \in Keys, NEW b \in BaseKeys, NEW s \in Sizes,
             Begin(p, k, b, s)
      PROVE  FilesOwned'
  BY <1>1, OwnedFrameStep DEF Begin
<1>2. ASSUME NEW p \in Callers, ReclaimIter(p) PROVE FilesOwned'
  BY <1>2, OwnedFrameStep DEF ReclaimIter, TypeOK, Frame
<1>3. ASSUME NEW p \in Callers, ReclaimDone(p) PROVE FilesOwned'
  BY <1>3, OwnedFrameStep DEF ReclaimDone, TypeOK, Frame
<1>4. ASSUME NEW p \in Callers, StackOverflow(p) PROVE FilesOwned'
  BY <1>4 DEF StackOverflow, Restart, FilesOwned
<1>5. ASSUME NEW p \in Callers, WriteFile(p) PROVE FilesOwned'
  BY <1>5 DEF WriteFile, FilesOwned, TypeOK, Frame
<1>6. ASSUME NEW p \in Callers, WriteFail(p) PROVE FilesOwned'
  BY <1>6 DEF WriteFail
<1>7. ASSUME NEW p \in Callers, Index(p) PROVE FilesOwned'
  <2> DEFINE k == frame[p].key
  <2>1. k \in AllKeys
    BY DEF TypeOK, Frame, AllKeys
  <2>2. /\ k \in idx'
        /\ \A j \in Keys : fsize'[j] # NoFile =>
                            fsize[j] # NoFile /\ (j \in idx => j \in idx')
    BY <1>7, <2>1, CacheSetFacts DEF Index
  <2>3. frame' = [frame EXCEPT ![p].pc = "mapget"] /\ leftover' = leftover \ {k}
    BY <1>7 DEF Index
  <2>4. QED
    BY <2>2, <2>3 DEF FilesOwned, TypeOK
<1>8. ASSUME NEW k \in SimpleKeys, Set(k) PROVE FilesOwned'
  <2>1. \A j \in Keys : fsize'[j] # NoFile =>
                          fsize[j] # NoFile /\ (j \in idx => j \in idx')
    BY <1>8, CacheSetFacts DEF Set, AllKeys
  <2>2. QED
    BY <1>8, <2>1 DEF Set, FilesOwned
<1>9. ASSUME NEW k \in AllKeys, Delete(k) \/ EvictPending(k) PROVE FilesOwned'
  <2>1. /\ idx' = idx \ {k}
        /\ \A j \in Keys : fsize'[j] # NoFile => j # k /\ fsize'[j] = fsize[j]
    BY <1>9, EvictFacts DEF Delete, EvictPending
  <2>2. frame' = frame /\ leftover' = leftover
    BY <1>9 DEF Delete, EvictPending
  <2>3. QED
    BY <2>1, <2>2 DEF FilesOwned
<1>10. ASSUME NEW k \in AllKeys, Get(k) \/ Expire(k) \/ GetMultiLevel(k) PROVE FilesOwned'
  BY <1>10 DEF Get, Expire, GetMultiLevel, FilesOwned
<1>11. ASSUME NEW S \in SUBSET AllKeys, DeleteMany(S) PROVE FilesOwned'
  BY <1>11 DEF DeleteMany, FilesOwned
<1>12. CASE Reset \/ Sweep \/ UNCHANGED vars
  BY <1>12 DEF Reset, Sweep, vars, FilesOwned
<1>13. CASE Restart
  BY <1>13 DEF Restart, FilesOwned
<1>14. ASSUME NEW p \in Callers, MapGet(p) PROVE FilesOwned'
  BY <1>14, OwnedFrameStep DEF MapGet, TypeOK, Frame
<1>15. ASSUME NEW p \in Callers, MapSet(p) PROVE FilesOwned'
  <2> DEFINE b == frame[p].base
  <2>1. b \in AllKeys
    BY DEF TypeOK, Frame, AllKeys
  <2>2. \A j \in Keys : fsize'[j] # NoFile =>
                          fsize[j] # NoFile /\ (j \in idx => j \in idx')
    BY <1>15, <2>1, CacheSetFacts DEF MapSet
  <2>3. frame[p].pc = "mapset" /\ frame' = [frame EXCEPT ![p] = IdleFrame]
        /\ leftover' = leftover
    BY <1>15 DEF MapSet
  <2>4. QED
    BY <2>2, <2>3 DEF FilesOwned, TypeOK, IdleFrame
<1>16. QED
  BY <1>1, <1>2, <1>3, <1>4, <1>5, <1>6, <1>7, <1>8, <1>9, <1>10, <1>11,
     <1>12, <1>13, <1>14, <1>15 DEF Next, AllKeys

\* With os.WriteFile never failing, every file in the storage directory is
\* owned by a held key, by a SetMultiLevel between its write and its
\* cache.Set, or by the last Init scan: no eviction path of ttlcache or of
\* the provider leaks a file.
THEOREM FilesOwnedHolds ==
    ASSUME ~WriteFailures
    PROVE  Spec => []FilesOwned
<1>1. Init => OwnInv
  BY IdleFrameType DEF Init, OwnInv, TypeOK, FilesOwned, NoFile
<1>2. OwnInv => FilesOwned
  BY DEF OwnInv
<1>3. OwnInv /\ [Next]_vars => OwnInv'
  BY OwnStep
<1>4. QED
  BY <1>1, <1>2, <1>3, PTL DEF Spec

=============================================================================
