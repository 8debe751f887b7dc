--------------------------- MODULE WintunCacheProofs ---------------------------
(* For every number of processes that share the cache, and every number of  *)
(* kills and power failures: the cache is never torn, only the verified     *)
(* driver is loaded, and only faults leave files behind.                    *)
EXTENDS WintunCache, FiniteSetTheorems, TLAPS

(* Where a temporary file exists, when it is on the disk, and what a        *)
(* process that goes on to load the driver may rely on.                     *)
TemporariesInPlace ==
    \A p \in Processes :
        temporary[p] # "absent" => pc[p] \in {"write", "sync", "rename", "remove"}

SyncedBeforeRename == \A p \in Processes : pc[p] = "rename" => temporary[p] = "synced"

GoodBeforeLoad == \A p \in Processes : pc[p] = "load" => cached = "good"

FewLeftovers == leftover <= faults * Cardinality(Processes)

IInv ==
    /\ TypeOK
    /\ TemporariesInPlace
    /\ SyncedBeforeRename
    /\ GoodBeforeLoad
    /\ NeverTorn
    /\ LoadedIsVerified

(* The number of processes is a number. *)
LEMMA CountType == Cardinality(Processes) \in Nat
  BY ProcessesAssumption, FS_CardinalityType

(* A fault leaves one file for each process it stops, at most. *)
LEMMA OwnedCount ==
    ASSUME NEW ps \in SUBSET Processes
    PROVE  Cardinality(Owned(ps)) \in 0..Cardinality(Processes)
<1>1. Owned(ps) \subseteq Processes
  BY DEF Owned
<1>2. IsFiniteSet(Owned(ps)) /\ Cardinality(Owned(ps)) <= Cardinality(Processes)
  BY <1>1, ProcessesAssumption, FS_Subset
<1> QED
  BY <1>2, CountType, FS_CardinalityType

(* The initial states satisfy the invariant. *)
LEMMA InitInvariant == Init => IInv
  BY MaxFaultsAssumption
     DEF Init, IInv, TypeOK, Files, Temporaries, TemporariesInPlace, SyncedBeforeRename,
         GoodBeforeLoad, NeverTorn, LoadedIsVerified

(* A step that only moves a process on. *)
LEMMA OnlyStep ==
    ASSUME IInv, NEW p \in Processes, NEW from, NEW to, Only(p, from, to),
           to \in {"idle", "look", "download", "verify", "create", "write", "sync",
                   "rename", "remove", "load", "failed", "loaded"},
           temporary[p] # "absent" => to = "remove",
           to # "rename",
           to = "load" => cached = "good"
    PROVE  IInv'
  BY DEF IInv, Only, Goto, files, world, TypeOK, TemporariesInPlace, SyncedBeforeRename,
         GoodBeforeLoad, NeverTorn, LoadedIsVerified

(* Nothing of a process that dies is relied on by another one. *)
LEMMA DieStep ==
    ASSUME IInv, NEW ps \in SUBSET Processes, Die(ps),
           {cached', durable'} \subseteq {cached, durable},
           (cached' = cached) \/ ps = Processes
    PROVE  IInv'
<1>1. Cardinality(Owned(ps)) \in Nat
  BY OwnedCount, CountType
<1>2. TypeOK'
  BY <1>1, MaxFaultsAssumption DEF IInv, TypeOK, Die, Files, Temporaries
<1>3. TemporariesInPlace' /\ SyncedBeforeRename' /\ GoodBeforeLoad'
  BY DEF IInv, TypeOK, Die, TemporariesInPlace, SyncedBeforeRename, GoodBeforeLoad
<1>4. NeverTorn' /\ LoadedIsVerified'
  BY DEF IInv, TypeOK, Die, NeverTorn, LoadedIsVerified
<1> QED
  BY <1>2, <1>3, <1>4 DEF IInv

(* Every step of every process keeps the invariant. *)
LEMMA NextInvariant == IInv /\ [Next]_vars => IInv'
<1> SUFFICES ASSUME IInv, [Next]_vars
             PROVE  IInv'
  OBVIOUS
<1> USE DEF IInv, TypeOK, files, world, Goto
<1>1. ASSUME NEW p \in Processes, Call(p) \/ CallAgain(p)
      PROVE  IInv'
  BY <1>1, OnlyStep DEF Call, CallAgain, Only, TemporariesInPlace
<1>2. ASSUME NEW p \in Processes, Look(p)
      PROVE  IInv'
  BY <1>2, OnlyStep DEF Look, Only, TemporariesInPlace
<1>3. ASSUME NEW p \in Processes, Download(p) \/ Verify(p)
      PROVE  IInv'
  BY <1>3, OnlyStep DEF Download, Verify, Only, TemporariesInPlace
<1>4. ASSUME NEW p \in Processes, CreateTemporary(p)
      PROVE  IInv'
  <2>1. CASE Only(p, "create", "failed")
    BY <2>1, OnlyStep DEF Only, TemporariesInPlace
  <2>2. CASE ~Only(p, "create", "failed")
    BY <1>4, <2>2 DEF CreateTemporary, Temporaries, TemporariesInPlace, SyncedBeforeRename,
                      GoodBeforeLoad, NeverTorn, LoadedIsVerified
  <2> QED
    BY <2>1, <2>2
<1>5. ASSUME NEW p \in Processes, Write(p)
      PROVE  IInv'
  <2>1. CASE Only(p, "write", "remove")
    BY <2>1, OnlyStep
  <2>2. CASE ~Only(p, "write", "remove")
    BY <1>5, <2>2 DEF Write, Temporaries, TemporariesInPlace, SyncedBeforeRename,
                      GoodBeforeLoad, NeverTorn, LoadedIsVerified
  <2> QED
    BY <2>1, <2>2
<1>6. ASSUME NEW p \in Processes, Sync(p)
      PROVE  IInv'
  <2>1. CASE Only(p, "sync", "remove")
    BY <2>1, OnlyStep
  <2>2. CASE ~Only(p, "sync", "remove")
    BY <1>6, <2>2 DEF Sync, Temporaries, TemporariesInPlace, SyncedBeforeRename,
                      GoodBeforeLoad, NeverTorn, LoadedIsVerified
  <2> QED
    BY <2>1, <2>2
<1>7. ASSUME NEW p \in Processes, Rename(p)
      PROVE  IInv'
  <2>1. CASE Only(p, "rename", "remove")
    BY <2>1, OnlyStep
  <2>2. CASE ~Only(p, "rename", "remove")
    <3>1. temporary[p] = "synced" /\ cached' = "good" /\ durable' \in {durable, "good"}
      BY <1>7, <2>2 DEF Rename, SyncedBeforeRename
    <3> QED
      BY <1>7, <2>2, <3>1 DEF Rename, Files, Temporaries, TemporariesInPlace,
                              SyncedBeforeRename, GoodBeforeLoad, NeverTorn, LoadedIsVerified
  <2> QED
    BY <2>1, <2>2
<1>8. ASSUME NEW p \in Processes, RemoveTemporary(p)
      PROVE  IInv'
  BY <1>8 DEF RemoveTemporary, Temporaries, TemporariesInPlace, SyncedBeforeRename,
              GoodBeforeLoad, NeverTorn, LoadedIsVerified
<1>9. ASSUME NEW p \in Processes, Load(p)
      PROVE  IInv'
  <2>1. CASE loaded[p] = "absent"
    <3>1. pc[p] = "load" /\ cached = "good" /\ temporary[p] = "absent"
      BY <1>9, <2>1 DEF Load, GoodBeforeLoad, TemporariesInPlace
    <3> QED
      BY <1>9, <2>1, <3>1 DEF Load, Files, TemporariesInPlace, SyncedBeforeRename,
                              GoodBeforeLoad, NeverTorn, LoadedIsVerified
  <2>2. CASE loaded[p] # "absent"
    BY <1>9, <2>2, OnlyStep DEF Load, Only, TemporariesInPlace
  <2> QED
    BY <2>1, <2>2
<1>10. ASSUME NEW p \in Processes, Exit(p)
       PROVE  IInv'
  BY <1>10 DEF Exit, Files, TemporariesInPlace, SyncedBeforeRename, GoodBeforeLoad,
               NeverTorn, LoadedIsVerified
<1>11. ASSUME NEW p \in Processes, Kill(p)
       PROVE  IInv'
  <2>1. {p} \in SUBSET Processes /\ Die({p}) /\ cached' = cached /\ durable' = durable
    BY <1>11 DEF Kill
  <2> QED
    BY <2>1, DieStep
<1>12. CASE PowerFails
  <2>1. Processes \in SUBSET Processes /\ Die(Processes) /\ cached' = durable
        /\ durable' = durable
    BY <1>12 DEF PowerFails
  <2> QED
    BY <2>1, DieStep
<1>13. CASE Flush
  BY <1>13 DEF Flush, TemporariesInPlace, SyncedBeforeRename, GoodBeforeLoad, NeverTorn,
               LoadedIsVerified
<1>14. CASE UNCHANGED vars
  BY <1>14 DEF vars, TemporariesInPlace, SyncedBeforeRename, GoodBeforeLoad, NeverTorn,
               LoadedIsVerified
<1> QED
  BY <1>1, <1>2, <1>3, <1>4, <1>5, <1>6, <1>7, <1>8, <1>9, <1>10, <1>11, <1>12, <1>13,
     <1>14 DEF Next, Ensure

(* The cache and its processes keep the invariant. *)
THEOREM CacheInvariant == Spec => []IInv
  BY InitInvariant, NextInvariant, PTL DEF Spec

(* The variables keep their types, however many processes there are. *)
THEOREM CacheTypes == Spec => []TypeOK
<1>1. IInv => TypeOK
  BY DEF IInv
<1> QED
  BY <1>1, CacheInvariant, PTL

(* No process loads anything but the driver with the known digest, although *)
(* EnsureWintun verifies bytes and wintun.Load opens a path.                *)
THEOREM Verified == Spec => []LoadedIsVerified
<1>1. IInv => LoadedIsVerified
  BY DEF IInv
<1> QED
  BY <1>1, CacheInvariant, PTL

(* The cache, and what a power failure leaves of it, is never half of a     *)
(* driver: atomicWrite syncs before it renames.                             *)
THEOREM Untorn == Spec => []NeverTorn
<1>1. IInv => NeverTorn
  BY DEF IInv
<1> QED
  BY <1>1, CacheInvariant, PTL

(* A step of a process leaves no file, a fault one for each process.        *)
LEMMA LeftoverStep == IInv /\ FewLeftovers /\ [Next]_vars => FewLeftovers'
<1> SUFFICES ASSUME IInv, FewLeftovers, [Next]_vars
             PROVE  FewLeftovers'
  OBVIOUS
<1> DEFINE C == Cardinality(Processes)
<1>0. C \in Nat /\ faults \in Nat /\ leftover \in Nat
  BY CountType DEF IInv, TypeOK
<1>1. ASSUME NEW ps \in SUBSET Processes, Die(ps)
      PROVE  FewLeftovers'
  <2>1. PICK n \in 0..C : n = Cardinality(Owned(ps))
    BY OwnedCount
  <2>2. leftover' = leftover + n /\ faults' = faults + 1
    BY <1>1, <2>1 DEF Die
  <2>3. leftover <= faults * C
    BY DEF FewLeftovers
  <2>4. (faults + 1) * C = faults * C + C
    BY <1>0, SMT
  <2>5. faults * C \in Nat
    BY <1>0, SMT
  <2> HIDE DEF C
  <2>6. leftover + n <= faults * C + C
    BY <1>0, <2>3, <2>5
  <2> QED
    BY <2>2, <2>4, <2>6 DEF FewLeftovers, C
<1>2. CASE UNCHANGED <<leftover, faults>>
  BY <1>2 DEF FewLeftovers
<1>3. ASSUME NEW p \in Processes, Kill(p)
      PROVE  FewLeftovers'
  BY <1>1, <1>3 DEF Kill
<1>4. CASE PowerFails
  BY <1>1, <1>4 DEF PowerFails
<1> QED
  BY <1>2, <1>3, <1>4
     DEF Next, Ensure, vars, world, Only, Call, Look, Download, Verify, CreateTemporary,
         Write, Sync, Rename, RemoveTemporary, Load, CallAgain, Exit, Flush

(* Every temporary file left behind belongs to a process that was killed or *)
(* lost its power: whichever step of atomicWrite fails removes its file.    *)
THEOREM FaultsOnly == Spec => []OnlyFaultsLeaveFiles
<1>1. Init => FewLeftovers
  BY CountType DEF Init, FewLeftovers
<1>2. IInv /\ FewLeftovers => OnlyFaultsLeaveFiles
  BY DEF IInv, TypeOK, TemporariesInPlace, FewLeftovers, OnlyFaultsLeaveFiles
<1> QED
  BY <1>1, <1>2, LeftoverStep, CacheInvariant, PTL DEF Spec

=============================================================================
