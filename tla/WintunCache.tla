----------------------------- MODULE WintunCache -----------------------------
(***************************************************************************)
(* EnsureWintun (internal/assets/wintun.go): the client on Windows caches   *)
(* the verified driver wintun.dll and loads it. Several processes (the CLI, *)
(* the desktop application) share the cache directory; a process can be     *)
(* killed and the power can fail between any two steps.                    *)
(*                                                                         *)
(* A file is modelled by what verifySHA256 makes of it: "good", "damaged"   *)
(* (another version, half of a file, blocks that never reached the disk),   *)
(* or it is "absent".                                                      *)
(***************************************************************************)
EXTENDS Integers, FiniteSets

CONSTANTS
    Processes,  \* processes that share the cache directory
    MaxFaults   \* bound: how many kills and power failures

ASSUME MaxFaultsAssumption == MaxFaults \in Nat
ASSUME ProcessesAssumption == IsFiniteSet(Processes)

VARIABLES
    original,   \* what the cache held before
    cached,     \* the file wintun.dll in the cache directory
    durable,    \* what a power failure leaves of it
    pc,         \* pc[p]: where process p is
    temporary,  \* temporary[p]: the .wintun-* file of process p
    loaded,     \* loaded[p]: what LoadLibrary mapped into process p, "absent"
                \* before Load is called, "error" if it failed
    leftover,   \* .wintun-* files nobody owns any more
    faults      \* kills and power failures so far

vars == <<original, cached, durable, pc, temporary, loaded, leftover, faults>>

files == <<cached, durable>>
world == <<original, leftover, faults>>

Files == {"absent", "damaged", "good"}

(* A temporary file is open and empty, written, or written and on the disk. *)
Temporaries == {"absent", "empty", "written", "synced"}

TypeOK ==
    /\ {original, cached, durable} \subseteq Files
    /\ pc \in [Processes -> {"idle", "look", "download", "verify", "create", "write", "sync",
                             "rename", "remove", "load", "failed", "loaded"}]
    /\ temporary \in [Processes -> Temporaries]
    /\ loaded \in [Processes -> Files \cup {"error"}]
    /\ leftover \in Nat
    /\ faults \in 0..MaxFaults

Init ==
    /\ original \in Files
    /\ cached = original /\ durable = original
    /\ pc = [p \in Processes |-> "idle"]
    /\ temporary = [p \in Processes |-> "absent"]
    /\ loaded = [p \in Processes |-> "absent"]
    /\ leftover = 0 /\ faults = 0

-----------------------------------------------------------------------------

Goto(p, from, to) ==
    /\ pc[p] = from
    /\ pc' = [pc EXCEPT ![p] = to]

Only(p, from, to) ==
    /\ Goto(p, from, to)
    /\ UNCHANGED <<files, temporary, loaded, world>>

(* A process starts a session; EnsureWintun comes before anything that can  *)
(* touch the network of the host.                                          *)
Call(p) == Only(p, "idle", "look")

(* A regular file of more than 0 bytes with the expected digest is used as  *)
(* it is; anything else is replaced. MkdirAll may fail.                    *)
Look(p) ==
    \/ cached = "good" /\ Only(p, "look", "load")
    \/ cached # "good" /\ Only(p, "look", "download")
    \/ Only(p, "look", "failed")

(* The server, or whoever answers in its place, sends some file, or the     *)
(* request fails: refused, cancelled, or after two minutes.                *)
Download(p) == Only(p, "download", "verify") \/ Only(p, "download", "failed")

(* Only an archive with the known digest passes, and the driver in it.      *)
Verify(p) == Only(p, "verify", "create") \/ Only(p, "verify", "failed")

(* atomicWrite. *)
CreateTemporary(p) ==
    \/ /\ Goto(p, "create", "write")
       /\ temporary' = [temporary EXCEPT ![p] = "empty"]
       /\ UNCHANGED <<files, loaded, world>>
    \/ Only(p, "create", "failed")

(* Mutant: the file is written in place. *)
Write_InPlace(p) ==
    /\ Goto(p, "write", "sync")
    /\ cached' = "damaged"
    /\ temporary' = [temporary EXCEPT ![p] = "written"]
    /\ UNCHANGED <<durable, loaded, world>>

Write(p) ==
    \/ /\ Goto(p, "write", "sync")
       /\ temporary' = [temporary EXCEPT ![p] = "written"]
       /\ UNCHANGED <<files, loaded, world>>
    \/ Only(p, "write", "remove")

(* Mutant: the data is left to the cache of the operating system. *)
Sync_Skipped(p) == Only(p, "sync", "rename")

(* Chmod, Sync and Close. *)
Sync(p) ==
    \/ /\ Goto(p, "sync", "rename")
       /\ temporary' = [temporary EXCEPT ![p] = "synced"]
       /\ UNCHANGED <<files, loaded, world>>
    \/ Only(p, "sync", "remove")

(* Windows does not replace a library that a process has loaded. *)
inUse == \E p \in Processes : loaded[p] \notin {"absent", "error"}

(* The deferred Remove finds nothing after the rename. A temporary file     *)
(* whose data is not on the disk becomes a damaged one if the power fails. *)
Rename(p) ==
    \/ /\ ~inUse
       /\ Goto(p, "rename", "load")
       /\ cached' = "good"
       /\ durable' \in {durable, IF temporary[p] = "synced" THEN "good" ELSE "damaged"}
       /\ temporary' = [temporary EXCEPT ![p] = "absent"]
       /\ UNCHANGED <<loaded, world>>
    \/ Only(p, "rename", "remove")

(* defer os.Remove(tmpName) *)
RemoveTemporary(p) ==
    /\ Goto(p, "remove", "failed")
    /\ temporary' = [temporary EXCEPT ![p] = "absent"]
    /\ UNCHANGED <<files, loaded, world>>

(* wintun.Load: the library is loaded by its path, not from the bytes that  *)
(* were verified, and only once in a process: later calls return the error  *)
(* of the first.                                                           *)
Load(p) ==
    \/ /\ loaded[p] = "absent"
       /\ \/ cached # "absent" /\ loaded' = [loaded EXCEPT ![p] = cached]
          \/ loaded' = [loaded EXCEPT ![p] = "error"]
       /\ Goto(p, "load", IF loaded'[p] = "error" THEN "failed" ELSE "loaded")
       /\ UNCHANGED <<files, temporary, world>>
    \/ /\ loaded[p] # "absent"
       /\ Only(p, "load", IF loaded[p] = "error" THEN "failed" ELSE "loaded")

(* The desktop application starts another session in the same process. *)
CallAgain(p) == Only(p, "failed", "look") \/ Only(p, "loaded", "look")

(* The process ends; another one may take its place. *)
Exit(p) ==
    /\ pc[p] \in {"failed", "loaded"}
    /\ pc' = [pc EXCEPT ![p] = "idle"]
    /\ loaded' = [loaded EXCEPT ![p] = "absent"]
    /\ UNCHANGED <<files, temporary, world>>

-----------------------------------------------------------------------------
(* Faults. *)

Owned(ps) == {p \in ps : temporary[p] # "absent"}

Die(ps) ==
    /\ faults < MaxFaults
    /\ faults' = faults + 1
    /\ leftover' = leftover + Cardinality(Owned(ps))
    /\ pc' = [p \in Processes |-> IF p \in ps THEN "idle" ELSE pc[p]]
    /\ temporary' = [p \in Processes |-> IF p \in ps THEN "absent" ELSE temporary[p]]
    /\ loaded' = [p \in Processes |-> IF p \in ps THEN "absent" ELSE loaded[p]]
    /\ UNCHANGED original

Kill(p) == pc[p] # "idle" /\ Die({p}) /\ UNCHANGED files

PowerFails == Die(Processes) /\ cached' = durable /\ UNCHANGED durable

(* What the cache of the operating system holds reaches the disk in time. *)
Flush ==
    /\ durable # cached
    /\ durable' = cached
    /\ UNCHANGED <<original, cached, pc, temporary, loaded, leftover, faults>>

-----------------------------------------------------------------------------

Ensure(p) ==
    \/ Look(p) \/ Download(p) \/ Verify(p)
    \/ CreateTemporary(p) \/ Write(p) \/ Sync(p) \/ Rename(p) \/ RemoveTemporary(p)
    \/ Load(p)

Next ==
    \/ \E p \in Processes : Call(p) \/ Ensure(p) \/ CallAgain(p) \/ Exit(p) \/ Kill(p)
    \/ PowerFails
    \/ Flush

Spec == Init /\ [][Next]_vars

-----------------------------------------------------------------------------
(* Whatever another process installs at the same time, and whatever was     *)
(* killed or lost before, only the driver with the known digest is loaded:  *)
(* the path is loaded after the bytes were verified, and what it holds may  *)
(* have been replaced in between.                                          *)
LoadedIsVerified == \A p \in Processes : loaded[p] # "damaged"

(* The cached file, and what a power failure leaves of it, is the driver or *)
(* what was there before the first run: never half of a driver.            *)
NeverTorn == {cached, durable} \subseteq {original, "good"}

(* Every temporary file left behind belongs to a process that was killed or *)
(* lost its power: a step that fails removes its file.                     *)
OnlyFaultsLeaveFiles ==
    /\ leftover <= faults * Cardinality(Processes)
    /\ \A p \in Processes : pc[p] \in {"idle", "failed", "load", "loaded"} =>
           temporary[p] = "absent"

=============================================================================
