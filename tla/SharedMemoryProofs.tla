------------------------- MODULE SharedMemoryProofs -------------------------
(***************************************************************************)
(* SensorSegment and ConfigFile keep their promises for any number of      *)
(* daemons, clients, writers and readers, and any number of segments and   *)
(* measurements.                                                           *)
(***************************************************************************)
EXTENDS SharedMemoryPrograms, TLAPS

-----------------------------------------------------------------------------
(* The sensor daemon and its clients.                                      *)

\* Types of the variables, but for the flags keep_running and killed.
STypeOK ==
    /\ key \in 0 .. MaxSegments /\ created \in 0 .. MaxSegments
    /\ shm \in [1 .. MaxSegments -> sensor_data_t]
    /\ samples \in 0 .. MaxSamples
    /\ dpc \in [Daemons -> {"off", "attach", "loop", "temp", "ram", "stamp", "remove"}]
    /\ shmid \in [Daemons -> 0 .. MaxSegments]
    /\ sample \in [Daemons -> 0 .. MaxSamples]
    /\ cpc \in [Clis -> {"off", "attach", "stamp", "temp", "ram"}]
    /\ cid \in [Clis -> 0 .. MaxSegments]
    /\ report \in [Clis -> sensor_data_t]

\* The key names the segment of the daemon that runs, and no second one runs.
OneDaemon ==
    /\ \A d \in Daemons : dpc[d] # "off" => key = shmid[d] /\ key # NoSegment
    /\ \A d, e \in Daemons : dpc[d] # "off" /\ dpc[e] # "off" => d = e
    /\ (\A d \in Daemons : dpc[d] = "off") => key = NoSegment \/ killed

\* A record in the making has the newest measurement; no record is stamped with a
\* measurement newer than what it holds.
Records ==
    /\ \A s \in 1 .. MaxSegments :
        /\ shm[s].timestamp <= shm[s].cpu_temp /\ shm[s].cpu_temp <= samples
        /\ shm[s].timestamp <= shm[s].ram_used_pct /\ shm[s].ram_used_pct <= samples
    /\ \A d \in Daemons :
        /\ dpc[d] \in {"temp", "ram", "stamp"} => sample[d] = samples
        /\ dpc[d] \in {"ram", "stamp"} => shm[shmid[d]].cpu_temp = samples
        /\ dpc[d] = "stamp" => shm[shmid[d]].ram_used_pct = samples

\* What a client has read so far against what it has yet to read.
Reports ==
    \A c \in Clis :
        /\ cpc[c] # "off" => cid[c] # NoSegment
        /\ cpc[c] \in {"attach", "stamp"} => report[c] = Zeroes
        /\ cpc[c] = "temp" =>
            /\ report[c].timestamp <= shm[cid[c]].cpu_temp
            /\ report[c].timestamp <= shm[cid[c]].ram_used_pct
        /\ cpc[c] = "ram" =>
            /\ report[c].timestamp <= report[c].cpu_temp
            /\ report[c].timestamp <= shm[cid[c]].ram_used_pct
        /\ cpc[c] = "off" =>
            /\ report[c].timestamp <= report[c].cpu_temp
            /\ report[c].timestamp <= report[c].ram_used_pct

SInv == STypeOK /\ OneDaemon /\ Records /\ Reports

\* A record with one field replaced by another number of a measurement is a record.
LEMMA FieldReplaced ==
    ASSUME NEW r \in sensor_data_t, NEW m \in 0 .. MaxSamples
    PROVE  /\ [r EXCEPT !.timestamp = m] \in sensor_data_t
           /\ [r EXCEPT !.cpu_temp = m] \in sensor_data_t
           /\ [r EXCEPT !.ram_used_pct = m] \in sensor_data_t
BY DEF sensor_data_t

LEMMA SInitInv == SInit => SInv
<1> USE SensorAssumption DEF SInit, NoSegment, Zeroes, sensor_data_t
<1>1. SInit => STypeOK
    BY DEF STypeOK
<1>2. SInit => OneDaemon
    BY DEF OneDaemon
<1>3. SInit => Records
    BY DEF Records
<1>4. SInit => Reports
    BY DEF Reports
<1> QED BY <1>1, <1>2, <1>3, <1>4 DEF SInv

\* Every step of a daemon or of a client keeps the invariant.
LEMMA SNextInv == SInv /\ [SNext]_sVars => SInv'
<1> SUFFICES ASSUME SInv, [SNext]_sVars PROVE SInv'
    OBVIOUS
<1> USE SensorAssumption DEF SInv, NoSegment, DGoto, CGoto, cli, daemon
<1>1. ASSUME NEW d \in Daemons, init_daemon(d) PROVE SInv'
    <2> USE <1>1 DEF init_daemon
    <2>1. STypeOK'
        BY DEF STypeOK
    <2>2. OneDaemon'
        BY DEF STypeOK, OneDaemon
    <2>3. Records'
        BY DEF STypeOK, Records, sensor_data_t, OneDaemon
    <2>4. Reports'
        BY DEF STypeOK, Reports
    <2> QED BY <2>1, <2>2, <2>3, <2>4
<1>2. ASSUME NEW d \in Daemons, DaemonAttach(d) PROVE SInv'
    <2> USE <1>2 DEF DaemonAttach, Removed
    <2>1. STypeOK'
        <3>1. key' \in 0 .. MaxSegments
            BY DEF STypeOK
        <3> QED BY <3>1 DEF STypeOK
    <2>2. OneDaemon'
        BY DEF STypeOK, OneDaemon
    <2>3. Records'
        BY DEF STypeOK, Records, sensor_data_t, OneDaemon
    <2>4. Reports'
        BY DEF STypeOK, Reports
    <2> QED BY <2>1, <2>2, <2>3, <2>4
<1>3. ASSUME NEW d \in Daemons, DaemonMeasure(d) PROVE SInv'
    <2> USE <1>3 DEF DaemonMeasure, Measurement
    <2>1. STypeOK'
        BY DEF STypeOK
    <2>2. OneDaemon'
        BY DEF STypeOK, OneDaemon
    <2>3. Records'
        <3>1. /\ samples' = samples + 1 /\ sample' = [sample EXCEPT ![d] = samples + 1]
              /\ shm' = shm
            BY DEF STypeOK
        <3>2. \A e \in Daemons \ {d} : dpc'[e] = "off"
            BY DEF STypeOK, OneDaemon
        <3>3. \A e \in Daemons : dpc'[e] \in {"temp", "ram", "stamp"} => e = d /\ dpc'[e] = "temp"
            BY <3>2 DEF STypeOK
        <3>4. \A i \in 1 .. MaxSegments :
                /\ shm[i].cpu_temp \in Nat /\ shm[i].ram_used_pct \in Nat /\ samples \in Nat
            BY DEF STypeOK, sensor_data_t
        <3>5. sample'[d] = samples'
            BY <3>1 DEF STypeOK
        <3> QED BY <3>1, <3>3, <3>4, <3>5 DEF Records
    <2>4. Reports'
        BY DEF STypeOK, Reports
    <2> QED BY <2>1, <2>2, <2>3, <2>4
<1>4. ASSUME NEW d \in Daemons, StoreTemp(d) PROVE SInv'
    <2> USE <1>4 DEF StoreTemp
    <2>1. STypeOK'
        <3>1. shmid[d] \in 1 .. MaxSegments /\ sample[d] \in 0 .. MaxSamples
            BY DEF STypeOK, OneDaemon
        <3>2. [shm[shmid[d]] EXCEPT !.cpu_temp = sample[d]] \in sensor_data_t
            BY <3>1, FieldReplaced DEF STypeOK
        <3>3. shm' \in [1 .. MaxSegments -> sensor_data_t]
            BY <3>1, <3>2 DEF STypeOK
        <3> QED BY <3>3 DEF STypeOK
    <2>2. OneDaemon'
        BY DEF STypeOK, OneDaemon
    <2>3. Records'
        BY DEF STypeOK, Records, sensor_data_t, OneDaemon
    <2>4. Reports'
        BY DEF STypeOK, Reports, Records, sensor_data_t, OneDaemon
    <2> QED BY <2>1, <2>2, <2>3, <2>4
<1>5. ASSUME NEW d \in Daemons, StoreRam(d) PROVE SInv'
    <2> USE <1>5 DEF StoreRam
    <2>1. STypeOK'
        <3>1. shmid[d] \in 1 .. MaxSegments /\ sample[d] \in 0 .. MaxSamples
            BY DEF STypeOK, OneDaemon
        <3>2. [shm[shmid[d]] EXCEPT !.ram_used_pct = sample[d]] \in sensor_data_t
            BY <3>1, FieldReplaced DEF STypeOK
        <3>3. shm' \in [1 .. MaxSegments -> sensor_data_t]
            BY <3>1, <3>2 DEF STypeOK
        <3> QED BY <3>3 DEF STypeOK
    <2>2. OneDaemon'
        BY DEF STypeOK, OneDaemon
    <2>3. Records'
        BY DEF STypeOK, Records, sensor_data_t, OneDaemon
    <2>4. Reports'
        BY DEF STypeOK, Reports, Records, sensor_data_t, OneDaemon
    <2> QED BY <2>1, <2>2, <2>3, <2>4
<1>6. ASSUME NEW d \in Daemons, StoreStamp(d) PROVE SInv'
    <2> USE <1>6 DEF StoreStamp
    <2>1. STypeOK'
        <3>1. shmid[d] \in 1 .. MaxSegments /\ sample[d] \in 0 .. MaxSamples
            BY DEF STypeOK, OneDaemon
        <3>2. [shm[shmid[d]] EXCEPT !.timestamp = sample[d]] \in sensor_data_t
            BY <3>1, FieldReplaced DEF STypeOK
        <3>3. shm' \in [1 .. MaxSegments -> sensor_data_t]
            BY <3>1, <3>2 DEF STypeOK
        <3> QED BY <3>3 DEF STypeOK
    <2>2. OneDaemon'
        BY DEF STypeOK, OneDaemon
    <2>3. Records'
        BY DEF STypeOK, Records, sensor_data_t, OneDaemon
    <2>4. Reports'
        BY DEF STypeOK, Reports, Records, sensor_data_t, OneDaemon
    <2> QED BY <2>1, <2>2, <2>3, <2>4
<1>7. ASSUME NEW d \in Daemons, sigint_handler(d) \/ DaemonDetach(d) PROVE SInv'
    <2> USE <1>7 DEF sigint_handler, DaemonDetach
    <2>1. STypeOK'
        BY DEF STypeOK
    <2>2. OneDaemon'
        BY DEF STypeOK, OneDaemon
    <2>3. Records'
        BY DEF STypeOK, Records, sensor_data_t
    <2>4. Reports'
        BY DEF STypeOK, Reports
    <2> QED BY <2>1, <2>2, <2>3, <2>4
<1>8. ASSUME NEW d \in Daemons, DaemonRemove(d) \/ DaemonKilled(d) PROVE SInv'
    <2> USE <1>8 DEF DaemonRemove, DaemonKilled, Removed
    <2>1. STypeOK'
        <3>1. key' \in 0 .. MaxSegments
            BY DEF STypeOK
        <3> QED BY <3>1 DEF STypeOK
    <2>2. OneDaemon'
        BY DEF STypeOK, OneDaemon
    <2>3. Records'
        BY DEF STypeOK, Records, sensor_data_t
    <2>4. Reports'
        BY DEF STypeOK, Reports
    <2> QED BY <2>1, <2>2, <2>3, <2>4
<1>9. ASSUME NEW c \in Clis, CliGet(c) PROVE SInv'
    <2> USE <1>9 DEF CliGet
    <2>1. STypeOK'
        <3>1. Zeroes \in sensor_data_t
            BY DEF Zeroes, sensor_data_t
        <3> QED BY <3>1 DEF STypeOK
    <2>2. OneDaemon' /\ Records'
        BY DEF OneDaemon, Records
    <2>3. Reports'
        BY DEF STypeOK, Reports
    <2> QED BY <2>1, <2>2, <2>3
<1>10. ASSUME NEW c \in Clis, CliAttach(c) PROVE SInv'
    <2> USE <1>10 DEF CliAttach
    <2>1. STypeOK'
        BY DEF STypeOK
    <2>2. OneDaemon' /\ Records'
        BY DEF OneDaemon, Records
    <2>3. Reports'
        <3>1. /\ cpc'[c] \in {"stamp", "off"} /\ report[c] = Zeroes /\ cid[c] # 0
              /\ \A k \in Clis \ {c} : cpc'[k] = cpc[k]
            BY DEF STypeOK, Reports
        <3>2. Zeroes.timestamp <= Zeroes.cpu_temp /\ Zeroes.timestamp <= Zeroes.ram_used_pct
            BY DEF Zeroes
        <3> QED BY <3>1, <3>2 DEF Reports
    <2> QED BY <2>1, <2>2, <2>3
<1>11. ASSUME NEW c \in Clis, LoadStamp(c) PROVE SInv'
    <2> USE <1>11 DEF LoadStamp
    <2>1. cid[c] \in 1 .. MaxSegments /\ shm[cid[c]] \in sensor_data_t /\ report[c] \in sensor_data_t
        BY DEF STypeOK, Reports
    <2>2. STypeOK'
        <3>1. [report[c] EXCEPT !.timestamp = shm[cid[c]].timestamp] \in sensor_data_t
            BY <2>1 DEF sensor_data_t
        <3> QED BY <3>1 DEF STypeOK
    <2>3. OneDaemon' /\ Records'
        BY DEF OneDaemon, Records
    <2>4. Reports'
        <3>1. /\ report'[c].timestamp = shm[cid[c]].timestamp /\ cpc'[c] = "temp"
              /\ \A k \in Clis \ {c} : cpc'[k] = cpc[k] /\ report'[k] = report[k]
            BY <2>1 DEF STypeOK, sensor_data_t
        <3> QED BY <2>1, <3>1 DEF Reports, Records
    <2> QED BY <2>2, <2>3, <2>4
<1>12. ASSUME NEW c \in Clis, LoadTemp(c) PROVE SInv'
    <2> USE <1>12 DEF LoadTemp
    <2>1. cid[c] \in 1 .. MaxSegments /\ shm[cid[c]] \in sensor_data_t /\ report[c] \in sensor_data_t
        BY DEF STypeOK, Reports
    <2>2. STypeOK'
        <3>1. [report[c] EXCEPT !.cpu_temp = shm[cid[c]].cpu_temp] \in sensor_data_t
            BY <2>1 DEF sensor_data_t
        <3> QED BY <3>1 DEF STypeOK
    <2>3. OneDaemon' /\ Records'
        BY DEF OneDaemon, Records
    <2>4. Reports'
        <3>1. /\ report'[c].cpu_temp = shm[cid[c]].cpu_temp /\ cpc'[c] = "ram"
              /\ report'[c].timestamp = report[c].timestamp
              /\ \A k \in Clis \ {c} : cpc'[k] = cpc[k] /\ report'[k] = report[k]
            BY <2>1 DEF STypeOK, sensor_data_t
        <3> QED BY <2>1, <3>1 DEF Reports
    <2> QED BY <2>2, <2>3, <2>4
<1>13. ASSUME NEW c \in Clis, LoadRam(c) PROVE SInv'
    <2> USE <1>13 DEF LoadRam
    <2>1. cid[c] \in 1 .. MaxSegments /\ shm[cid[c]] \in sensor_data_t /\ report[c] \in sensor_data_t
        BY DEF STypeOK, Reports
    <2>2. STypeOK'
        <3>1. [report[c] EXCEPT !.ram_used_pct = shm[cid[c]].ram_used_pct] \in sensor_data_t
            BY <2>1 DEF sensor_data_t
        <3> QED BY <3>1 DEF STypeOK
    <2>3. OneDaemon' /\ Records'
        BY DEF OneDaemon, Records
    <2>4. Reports'
        <3>1. /\ report'[c].ram_used_pct = shm[cid[c]].ram_used_pct /\ cpc'[c] = "off"
              /\ report'[c].timestamp = report[c].timestamp /\ report'[c].cpu_temp = report[c].cpu_temp
              /\ \A k \in Clis \ {c} : cpc'[k] = cpc[k] /\ report'[k] = report[k]
            BY <2>1 DEF STypeOK, sensor_data_t
        <3> QED BY <2>1, <3>1 DEF Reports
    <2> QED BY <2>2, <2>3, <2>4
<1>14. ASSUME UNCHANGED sVars PROVE SInv'
    BY <1>14 DEF sVars, STypeOK, OneDaemon, Records, Reports
<1> QED
    BY <1>1, <1>2, <1>3, <1>4, <1>5, <1>6, <1>7, <1>8, <1>9, <1>10,
       <1>11, <1>12, <1>13, <1>14 DEF SNext

\* The invariant holds in every reachable state.
THEOREM SInvHolds == SSpec => []SInv
BY SInitInv, SNextInv, PTL DEF SSpec

\* A client never prints values older than the time it prints (daemon.c stores the stamp
\* last, cli.c loads it first).
THEOREM ReportFresh == SSpec => []ReportNotOlderThanStamp
<1>1. SInv => ReportNotOlderThanStamp
    BY DEF SInv, Reports, ReportNotOlderThanStamp
<1> QED BY <1>1, SInvHolds, PTL

\* SHM_KEY names the segment of the running daemon, and none after a clean stop.
THEOREM KeyFollows == SSpec => []KeyFollowsDaemon
<1>1. SInv => KeyFollowsDaemon
    BY DEF SInv, OneDaemon, KeyFollowsDaemon
<1> QED BY <1>1, SInvHolds, PTL

-----------------------------------------------------------------------------
(* The configuration file.                                                 *)

FTypeOK ==
    /\ cfg \in [baud_rate : Nat, sampling_rate_hz : 0 .. 1000, log_level : 0 .. 3]
    /\ wpc \in [Writers -> {"off", "opened", "mapped", "baud", "rate", "log", "menu"}]

\* A writer that has stored the first default, or found it stored, relies on it.
BaudRateStays == \A w \in Writers : wpc[w] \in {"rate", "log", "menu"} => cfg.baud_rate # 0

FInv == FTypeOK /\ BaudRateStays /\ ConfigComplete

LEMMA FInitInv == FInit => FInv
BY DEF FInit, Unset, FInv, FTypeOK, BaudRateStays, ConfigComplete

\* A writer that ends between its first two defaults leaves a mark for good.
LEMMA TornStays ==
    ASSUME NEW w \in Writers, WriterEnds(w)
    PROVE  torn \/ wpc[w] = "rate" => torn'
BY Zenon DEF WriterEnds

\* Every step of a writer or of a reader keeps the invariant.
LEMMA FNextInv == FInv /\ [FNext]_fVars => FInv'
<1> SUFFICES ASSUME FInv, [FNext]_fVars PROVE FInv'
    OBVIOUS
<1> USE FieldsAssumption DEF FInv, WGoto
<1>1. ASSUME NEW w \in Writers, WriterOpen(w) \/ WriterMap(w) \/ WriterTest(w) PROVE FInv'
    <2> USE <1>1 DEF WriterOpen, WriterMap, WriterTest
    <2>1. FTypeOK' /\ cfg' = cfg /\ torn' = torn
        BY DEF FTypeOK
    <2>2. \A v \in Writers : /\ wpc'[v] = "rate" <=> wpc[v] = "rate"
                             /\ wpc'[v] = "log" => wpc[v] = "log"
                             /\ wpc'[v] = "menu" => wpc[v] = "menu" \/ cfg.baud_rate # 0
        BY DEF FTypeOK
    <2> QED BY <2>1, <2>2 DEF BaudRateStays, ConfigComplete
<1>2. ASSUME NEW w \in Writers, DefaultBaud(w) PROVE FInv'
    BY <1>2 DEF DefaultBaud, FTypeOK, BaudRateStays, ConfigComplete
<1>3. ASSUME NEW w \in Writers, DefaultRate(w) \/ DefaultLog(w) PROVE FInv'
    BY <1>3 DEF DefaultRate, DefaultLog, FTypeOK, BaudRateStays, ConfigComplete
<1>4. ASSUME NEW w \in Writers, Update(w) PROVE FInv'
    <2> USE <1>4 DEF Update, get_user_input
    <2>1. wpc' = wpc /\ torn' = torn
        OBVIOUS
    <2>2. FTypeOK' /\ cfg'.baud_rate # 0
        BY DEF FTypeOK, BaudRateStays
    <2>3. cfg'.sampling_rate_hz = cfg.sampling_rate_hz \/ cfg'.sampling_rate_hz \in 1 .. 1000
        BY DEF FTypeOK
    <2> QED BY <2>1, <2>2, <2>3 DEF BaudRateStays, ConfigComplete
<1>5. ASSUME NEW w \in Writers, WriterEnds(w) PROVE FInv'
    <2>0. torn \/ wpc[w] = "rate" => torn'
        BY <1>5, TornStays
    <2> USE <1>5 DEF WriterEnds
    <2>1. FTypeOK' /\ cfg' = cfg
        BY DEF FTypeOK
    <2>2. wpc'[w] = "off" /\ \A v \in Writers \ {w} : wpc'[v] = wpc[v]
        BY DEF FTypeOK
    <2>3. BaudRateStays'
        BY <2>1, <2>2 DEF BaudRateStays
    <2>4. (\E v \in Writers : wpc[v] = "rate") => torn' \/ \E v \in Writers : wpc'[v] = "rate"
        BY <2>2, <2>0
    <2>5. (\E v \in Writers : wpc'[v] = "menu") => cfg'.baud_rate # 0
        BY <2>3 DEF BaudRateStays
    <2> QED BY <2>1, <2>0, <2>3, <2>4, <2>5 DEF ConfigComplete
<1>6. ASSUME NEW r \in Readers, ReaderOpen(r) \/ Poll(r) \/ ReaderEnds(r) PROVE FInv'
    BY <1>6 DEF ReaderOpen, Poll, ReaderEnds, FTypeOK, BaudRateStays, ConfigComplete
<1>7. ASSUME UNCHANGED fVars PROVE FInv'
    BY <1>7 DEF fVars, FTypeOK, BaudRateStays, ConfigComplete
<1> QED BY <1>1, <1>2, <1>3, <1>4, <1>5, <1>6, <1>7 DEF FNext

\* Once the file has a baud rate it has a sampling rate, but for a writer between its
\* first two defaults (writer.c:62).
THEOREM Complete == FSpec => []ConfigComplete
<1>1. FInv => ConfigComplete
    BY DEF FInv
<1> QED BY <1>1, FInitInv, FNextInv, PTL DEF FSpec

-----------------------------------------------------------------------------
\* The programs side by side behave as each does alone, so that all of this holds of the
\* specification that the run shared_memory_programs checks.
THEOREM ProgramsKeepAll ==
    SpecPrograms => [](ReportNotOlderThanStamp /\ KeyFollowsDaemon /\ ConfigComplete)
<1>1. InitPrograms => SInit /\ FInit
    BY DEF InitPrograms
<1>2. [NextPrograms]_programVars => [SNext]_sVars /\ [FNext]_fVars
    BY DEF NextPrograms, programVars
<1>3. SpecPrograms => SSpec /\ FSpec
    BY <1>1, <1>2, PTL DEF SpecPrograms, SSpec, FSpec
<1> QED BY <1>3, ReportFresh, KeyFollows, Complete, PTL
=============================================================================
