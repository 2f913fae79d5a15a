---------------------------- MODULE TerminfoCache ----------------------------
(***************************************************************************)
(* The private terminfo database shared by every Lector of a user          *)
(* (src/pty.rs): whoever finds it missing builds it in a staging directory *)
(* under a file lock and renames it into place, and whoever cannot falls   *)
(* back to a temporary one of its own.  Installers are threads of several  *)
(* processes, and a process may die between any two file operations.       *)
(***************************************************************************)
EXTENDS Naturals, FiniteSets

CONSTANTS
    Processes,    \* disjoint sets of threads that start a virtual terminal
    Nobody

Installers == UNION Processes
Process(i) == CHOOSE p \in Processes : i \in p
Contents == {"none", "partial", "ready"}
Done == {"persistent", "temporary", "crashed"}

VARIABLES
    db,           \* what installed_terminfo_ready would find in the cache
    staging,      \* per installer: its staging directory
    flock,        \* the installer holding the lock file
    mutex,        \* per process: the installer holding TERMINFO_CACHE_PROCESS_LOCK
    at            \* per installer: the next step

cacheVars == <<db, staging, flock, mutex, at>>

Init ==
    /\ db \in {"none", "partial"}
    /\ staging = [i \in Installers |-> "none"]
    /\ flock = Nobody
    /\ mutex = [p \in Processes |-> Nobody]
    /\ at = [i \in Installers |-> "check"]

Go(i, step) == at' = [at EXCEPT ![i] = step]
Ready == db = "ready"

(* The guards of both locks are dropped together, whatever the outcome.    *)
Release(i) ==
    /\ flock' = IF flock = i THEN Nobody ELSE flock
    /\ mutex' = [mutex EXCEPT ![Process(i)] = IF @ = i THEN Nobody ELSE @]
End(i, how) == Go(i, how) /\ Release(i)

Check(i) ==
    /\ at[i] = "check"
    /\ Go(i, IF Ready THEN "persistent" ELSE "mutex")
    /\ UNCHANGED <<db, staging, flock, mutex>>
LockProcess(i) ==
    /\ at[i] = "mutex"
    /\ mutex[Process(i)] = Nobody
    /\ mutex' = [mutex EXCEPT ![Process(i)] = i]
    /\ Go(i, "flock")
    /\ UNCHANGED <<db, staging, flock>>
LockFile(i) ==
    /\ at[i] = "flock"
    /\ flock = Nobody
    /\ flock' = i
    /\ Go(i, "recheck")
    /\ UNCHANGED <<db, staging, mutex>>
(* wait_for_terminfo_cache_lock after the deadline.                        *)
LockTimesOut(i) ==
    /\ \/ at[i] = "mutex" /\ mutex[Process(i)] # Nobody
       \/ at[i] = "flock" /\ flock # Nobody
    /\ End(i, "temporary")
    /\ UNCHANGED <<db, staging>>

AfterLock == "clean"                                                           \* mutant
AfterRecheck == IF Ready THEN "persistent" ELSE "clean"
Recheck(i) ==
    /\ at[i] = "recheck"
    /\ IF AfterRecheck = "clean" THEN Go(i, "clean") /\ UNCHANGED <<flock, mutex>> ELSE End(i, AfterRecheck)
    /\ UNCHANGED <<db, staging>>

(* remove_stale_terminfo_staging_directories and remove_path: every staging *)
(* directory found belongs to an installer that is gone.                   *)
Clean(i) ==
    /\ at[i] = "clean"
    /\ staging' = [j \in Installers |-> "none"]
    /\ db' = "none"
    /\ Go(i, "stage")
    /\ UNCHANGED <<flock, mutex>>
(* Removing the old database is not atomic.                                *)
CleanPartly(i) ==
    /\ at[i] = "clean"
    /\ db # "none"
    /\ db' = "partial"
    /\ UNCHANGED <<staging, flock, mutex, at>>

(* The staging directory is filled by the host's tools or from the bundled *)
(* entry, and the marker comes last.                                       *)
Stage(i) ==
    /\ at[i] = "stage"
    /\ staging' = [staging EXCEPT ![i] = "partial"]
    /\ Go(i, "mark")
    /\ UNCHANGED <<db, flock, mutex>>
Mark(i) ==
    /\ at[i] = "mark"
    /\ staging' = [staging EXCEPT ![i] = "ready"]
    /\ Go(i, "rename")
    /\ UNCHANGED <<db, flock, mutex>>
Rename(i) ==
    /\ at[i] = "rename"
    /\ db' = staging[i]
    /\ staging' = [staging EXCEPT ![i] = "none"]
    /\ Go(i, "verify")
    /\ UNCHANGED <<flock, mutex>>
Verify(i) ==
    /\ at[i] = "verify"
    /\ End(i, IF Ready THEN "persistent" ELSE "temporary")
    /\ db' = IF Ready THEN db ELSE "none"
    /\ UNCHANGED staging

(* Any file operation may fail; the staging directory is removed with its  *)
(* guard and the installer falls back to a temporary directory.            *)
Fail(i) ==
    /\ at[i] \in {"mutex", "flock", "clean", "stage", "mark", "rename"}
    /\ staging' = [staging EXCEPT ![i] = "none"]
    /\ End(i, "temporary")
    /\ UNCHANGED db

(* A process dies with all its installers: the kernel drops its file lock  *)
(* and nobody removes its staging directories.                             *)
Crash(p) ==
    LET dead == {i \in Installers : Process(i) = p} IN
    /\ \E i \in dead : at[i] \notin Done
    /\ at' = [i \in Installers |-> IF i \in dead /\ at[i] \notin Done THEN "crashed" ELSE at[i]]
    /\ flock' = IF flock \in dead THEN Nobody ELSE flock
    /\ mutex' = [mutex EXCEPT ![p] = Nobody]
    /\ UNCHANGED <<db, staging>>

Step(i) ==
    \/ Check(i) \/ LockProcess(i) \/ LockFile(i) \/ LockTimesOut(i) \/ Recheck(i)
    \/ Clean(i) \/ Stage(i) \/ Mark(i) \/ Rename(i) \/ Verify(i)
Next == \E i \in Installers : Step(i) \/ CleanPartly(i) \/ Fail(i) \/ Crash(Process(i))
Spec == Init /\ [][Next]_cacheVars

-----------------------------------------------------------------------------
(* Nobody takes a complete database away from the terminals that use it,   *)
(* and an installer that returns it has a complete one                     *)
(* (install_synchronized_output_terminfo_with_timeout).                    *)
DatabaseStays ==
    [][/\ db = "ready" => db' = "ready"
       /\ \A i \in Installers : at'[i] = "persistent" => db' = "ready"]_cacheVars

Installed == \A i \in Installers : at[i] \in Done

(* Every terminal gets a database: acquiring the locks is bounded.         *)
InstallEnds == <>Installed
=============================================================================
