---------------------------- MODULE SensorSegment ----------------------------
(***************************************************************************)
(* tran-danh-quang/session-09/Exercise_1: sensor-daemon (daemon.c) writes  *)
(* records into a System V shared memory segment that sensor-cli (cli.c)   *)
(* reads, without any lock.  Each load and store of a field is a step.     *)
(* They take effect in program order: the programs are built for x86-64,   *)
(* and system calls and printf lie between them (but for the first two     *)
(* stores of a record, whose order does not matter here).                  *)
(*                                                                         *)
(* A field holds the number of the measurement that it comes from, 0 for   *)
(* the zeroes of a new segment.                                            *)
(***************************************************************************)
EXTENDS Naturals

CONSTANTS
    Daemons, Clis,
    MaxSegments,    \* bound: segments ever created
    MaxSamples      \* bound: measurements ever taken

ASSUME SensorAssumption == MaxSegments \in Nat /\ MaxSamples \in Nat

NoSegment == 0
sensor_data_t == [timestamp : 0 .. MaxSamples, cpu_temp : 0 .. MaxSamples, ram_used_pct : 0 .. MaxSamples]
Zeroes == [timestamp |-> 0, cpu_temp |-> 0, ram_used_pct |-> 0]

VARIABLES
    key,            \* the segment that SHM_KEY names
    created, shm,   \* segments created so far and their contents
    samples,        \* measurements taken
    dpc, shmid, keep_running, sample,       \* each daemon; sample: load1 and ram_used_pct
    cpc, cid, report,                       \* each client
    killed          \* history: a daemon died of something else than SIGINT

daemon == <<dpc, shmid, keep_running, sample>>
cli == <<cpc, cid, report>>
sVars == <<key, created, shm, samples, daemon, cli, killed>>

SInit ==
    /\ key = NoSegment /\ created = 0
    /\ shm = [s \in 1 .. MaxSegments |-> Zeroes]
    /\ samples = 0
    /\ dpc = [d \in Daemons |-> "off"]
    /\ shmid = [d \in Daemons |-> NoSegment]
    /\ keep_running = [d \in Daemons |-> TRUE]
    /\ sample = [d \in Daemons |-> 0]
    /\ cpc = [c \in Clis |-> "off"]
    /\ cid = [c \in Clis |-> NoSegment]
    /\ report = [c \in Clis |-> Zeroes]
    /\ killed = FALSE

DGoto(d, label) == dpc' = [dpc EXCEPT ![d] = label]
CGoto(c, label) == cpc' = [cpc EXCEPT ![c] = label]

\* IPC_RMID: the key names the segment no longer; those attached keep it.
Removed(s) == IF key = s THEN NoSegment ELSE key

-----------------------------------------------------------------------------
\* Mutant: shmget with IPC_CREAT alone finds the segment of another daemon.
init_daemon_shares(d) ==
    /\ dpc[d] = "off" /\ created < MaxSegments
    /\ created' = IF key = NoSegment THEN created + 1 ELSE created
    /\ key' = IF key = NoSegment THEN created' ELSE key
    /\ shmid' = [shmid EXCEPT ![d] = key']
    /\ keep_running' = [keep_running EXCEPT ![d] = TRUE]
    /\ DGoto(d, "attach")
    /\ UNCHANGED <<shm, samples, sample, cli, killed>>

\* IPC_CREAT | IPC_EXCL; while the key names a segment the daemon exits at once.
init_daemon(d) ==
    /\ dpc[d] = "off" /\ created < MaxSegments
    /\ key = NoSegment
    /\ created' = created + 1
    /\ key' = created'
    /\ shmid' = [shmid EXCEPT ![d] = created']
    /\ keep_running' = [keep_running EXCEPT ![d] = TRUE]
    /\ DGoto(d, "attach")
    /\ UNCHANGED <<shm, samples, sample, cli, killed>>

\* shmat succeeds, or the segment is removed and the daemon gives up.
DaemonAttach(d) ==
    /\ dpc[d] = "attach"
    /\ \/ DGoto(d, "loop") /\ UNCHANGED key
       \/ DGoto(d, "off") /\ key' = Removed(shmid[d])
    /\ UNCHANGED <<created, shm, samples, shmid, keep_running, sample, cli, killed>>

\* What read_loadavg and read_meminfo return: a measurement, or 0 for -1.
Measurement == {0} \cup {n \in 1 .. MaxSamples : n = samples + 1}

DaemonMeasure(d) ==
    /\ dpc[d] = "loop" /\ keep_running[d]
    /\ \E m \in Measurement \ {0} :        \* else: sleep and try again
        /\ samples' = m
        /\ sample' = [sample EXCEPT ![d] = m]
    /\ DGoto(d, "temp")
    /\ UNCHANGED <<key, created, shm, shmid, keep_running, cli, killed>>

\* Mutant: the record is stamped before it is complete.
StoreTempAndStamp(d) ==
    /\ dpc[d] = "temp"
    /\ shm' = [shm EXCEPT ![shmid[d]].cpu_temp = sample[d], ![shmid[d]].timestamp = sample[d]]
    /\ DGoto(d, "ram")
    /\ UNCHANGED <<key, created, samples, shmid, keep_running, sample, cli, killed>>

StoreTemp(d) ==
    /\ dpc[d] = "temp"
    /\ shm' = [shm EXCEPT ![shmid[d]].cpu_temp = sample[d]]
    /\ DGoto(d, "ram")
    /\ UNCHANGED <<key, created, samples, shmid, keep_running, sample, cli, killed>>

StoreRam(d) ==
    /\ dpc[d] = "ram"
    /\ shm' = [shm EXCEPT ![shmid[d]].ram_used_pct = sample[d]]
    /\ DGoto(d, "stamp")
    /\ UNCHANGED <<key, created, samples, shmid, keep_running, sample, cli, killed>>

StoreStamp(d) ==
    /\ dpc[d] = "stamp"
    /\ shm' = [shm EXCEPT ![shmid[d]].timestamp = sample[d]]
    /\ DGoto(d, "loop")
    /\ UNCHANGED <<key, created, samples, shmid, keep_running, sample, cli, killed>>

sigint_handler(d) ==
    /\ dpc[d] # "off"
    /\ keep_running' = [keep_running EXCEPT ![d] = FALSE]
    /\ UNCHANGED <<key, created, shm, samples, dpc, shmid, sample, cli, killed>>

DaemonDetach(d) ==
    /\ dpc[d] = "loop" /\ ~keep_running[d]
    /\ DGoto(d, "remove")
    /\ UNCHANGED <<key, created, shm, samples, shmid, keep_running, sample, cli, killed>>

DaemonRemove(d) ==
    /\ dpc[d] = "remove"
    /\ key' = Removed(shmid[d])
    /\ DGoto(d, "off")
    /\ UNCHANGED <<created, shm, samples, shmid, keep_running, sample, cli, killed>>

\* SIGKILL, or a signal without a handler: nothing is cleaned up.
DaemonKilled(d) ==
    /\ dpc[d] # "off"
    /\ DGoto(d, "off")
    /\ killed' = TRUE
    /\ UNCHANGED <<key, created, shm, samples, shmid, keep_running, sample, cli>>

-----------------------------------------------------------------------------
\* shmget without IPC_CREAT; "Daemon is not running." if there is no segment.
CliGet(c) ==
    /\ cpc[c] = "off" /\ key # NoSegment
    /\ cid' = [cid EXCEPT ![c] = key]
    /\ report' = [report EXCEPT ![c] = Zeroes]
    /\ CGoto(c, "attach")
    /\ UNCHANGED <<key, created, shm, samples, daemon, killed>>

\* A segment that was removed meanwhile is gone unless somebody is attached.
Attached(s) ==
    \/ \E d \in Daemons : shmid[d] = s /\ dpc[d] \in {"loop", "temp", "ram", "stamp"}
    \/ \E c \in Clis : cid[c] = s /\ cpc[c] \in {"stamp", "temp", "ram"}

CliAttach(c) ==
    /\ cpc[c] = "attach"
    /\ CGoto(c, IF key = cid[c] \/ Attached(cid[c]) THEN "stamp" ELSE "off")
    /\ UNCHANGED <<key, created, shm, samples, daemon, cid, report, killed>>

LoadStamp(c) ==
    /\ cpc[c] = "stamp"
    /\ report' = [report EXCEPT ![c].timestamp = shm[cid[c]].timestamp]
    /\ CGoto(c, "temp")
    /\ UNCHANGED <<key, created, shm, samples, daemon, cid, killed>>

LoadTemp(c) ==
    /\ cpc[c] = "temp"
    /\ report' = [report EXCEPT ![c].cpu_temp = shm[cid[c]].cpu_temp]
    /\ CGoto(c, "ram")
    /\ UNCHANGED <<key, created, shm, samples, daemon, cid, killed>>

\* The warning about stale data changes nothing; then shmdt.
LoadRam(c) ==
    /\ cpc[c] = "ram"
    /\ report' = [report EXCEPT ![c].ram_used_pct = shm[cid[c]].ram_used_pct]
    /\ CGoto(c, "off")
    /\ UNCHANGED <<key, created, shm, samples, daemon, cid, killed>>

-----------------------------------------------------------------------------
SNext ==
    \/ \E d \in Daemons :
        \/ init_daemon(d) \/ DaemonAttach(d) \/ DaemonMeasure(d)
        \/ StoreTemp(d) \/ StoreRam(d) \/ StoreStamp(d)
        \/ sigint_handler(d) \/ DaemonDetach(d) \/ DaemonRemove(d) \/ DaemonKilled(d)
    \/ \E c \in Clis : CliGet(c) \/ CliAttach(c) \/ LoadStamp(c) \/ LoadTemp(c) \/ LoadRam(c)

SSpec == SInit /\ [][SNext]_sVars

-----------------------------------------------------------------------------
\* A report may mix two records, since nothing is locked, but its values are never older
\* than the time it prints: the daemon stamps a record last (daemon.c:119) and the
\* client reads the stamp first (cli.c:23).
ReportNotOlderThanStamp ==
    \A c \in Clis : cpc[c] = "off" =>
        /\ report[c].timestamp <= report[c].cpu_temp
        /\ report[c].timestamp <= report[c].ram_used_pct

\* The client finds a daemon "at any time while the daemon is running" (homework.md:83)
\* and no segment when it "is not running" (homework.md:31): the key names the segment of
\* the one daemon that runs, whatever daemons are started and stopped besides, and names
\* none when no daemon is there, unless one was killed.
KeyFollowsDaemon ==
    /\ \A d \in Daemons : dpc[d] # "off" => key = shmid[d]
    /\ (\A d \in Daemons : dpc[d] = "off") => key = NoSegment \/ killed
=============================================================================
