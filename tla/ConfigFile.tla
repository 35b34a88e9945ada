----------------------------- MODULE ConfigFile -----------------------------
(***************************************************************************)
(* tran-danh-quang/session-09/Exercise_2: config-writer (writer.c) and     *)
(* config-reader (reader.c) map the file /tmp/device.cfg.  Any number of   *)
(* both may run, and each may be killed anywhere; the mapped page outlives *)
(* them.  A store to a field is a step.                                    *)
(***************************************************************************)
EXTENDS Naturals

CONSTANTS
    Writers, Readers,
    baud_rates, sampling_rates, log_levels      \* the values that the user may enter

ASSUME FieldsAssumption ==
    /\ 9600 \in baud_rates /\ baud_rates \subseteq Nat \ {0}
    /\ 100 \in sampling_rates /\ sampling_rates \subseteq 1 .. 1000
    /\ 2 \in log_levels /\ log_levels \subseteq 0 .. 3

VARIABLES
    size,           \* of the file: absent, "empty" or "full", the size of device_cfg_t
    cfg,            \* the mapped struct
    wpc, rpc,       \* place of each process
    torn            \* history: a writer died between its first two defaults

fVars == <<size, cfg, wpc, rpc, torn>>

Unset == [baud_rate |-> 0, sampling_rate_hz |-> 0, log_level |-> 0]

FInit ==
    /\ size = "absent" /\ cfg = Unset
    /\ wpc = [w \in Writers |-> "off"]
    /\ rpc = [r \in Readers |-> "off"]
    /\ torn = FALSE

WGoto(w, label) == wpc' = [wpc EXCEPT ![w] = label]

-----------------------------------------------------------------------------
\* Mutant: the file is opened with O_TRUNC.
WriterOpenTruncates(w) ==
    /\ wpc[w] = "off"
    /\ size' = "empty" /\ cfg' = Unset
    /\ WGoto(w, "opened")
    /\ UNCHANGED <<rpc, torn>>

WriterOpen(w) ==
    /\ wpc[w] = "off"
    /\ size' = IF size = "absent" THEN "empty" ELSE size
    /\ WGoto(w, "opened")
    /\ UNCHANGED <<cfg, rpc, torn>>

\* ftruncate extends the file with zeroes, or finds it long enough; mmap.
WriterMap(w) ==
    /\ wpc[w] = "opened"
    /\ size' = "full"
    /\ WGoto(w, "mapped")
    /\ UNCHANGED <<cfg, rpc, torn>>

\* "Initialize default values if uninitialized" ...
WriterTest(w) ==
    /\ wpc[w] = "mapped"
    /\ WGoto(w, IF cfg.baud_rate = 0 THEN "baud" ELSE "menu")
    /\ UNCHANGED <<size, cfg, rpc, torn>>

\* ... one field after the other.
DefaultBaud(w) ==
    /\ wpc[w] = "baud"
    /\ cfg' = [cfg EXCEPT !.baud_rate = 9600]
    /\ WGoto(w, "rate")
    /\ UNCHANGED <<size, rpc, torn>>

DefaultRate(w) ==
    /\ wpc[w] = "rate"
    /\ cfg' = [cfg EXCEPT !.sampling_rate_hz = 100]
    /\ WGoto(w, "log")
    /\ UNCHANGED <<size, rpc, torn>>

\* msync and close change nothing that another process sees.
DefaultLog(w) ==
    /\ wpc[w] = "log"
    /\ cfg' = [cfg EXCEPT !.log_level = 2]
    /\ WGoto(w, "menu")
    /\ UNCHANGED <<size, rpc, torn>>

\* What a line of input says.  "other" is any line that the menu does not know or whose
\* value it refuses, one too long for the buffer included: its rest is discarded.
get_user_input == {"baud", "rate", "log", "other", "quit", "EOF"}

Update(w) ==
    /\ wpc[w] = "menu"
    /\ \E field \in get_user_input \ {"other", "quit", "EOF"} :
        \/ field = "baud" /\ \E b \in baud_rates : cfg' = [cfg EXCEPT !.baud_rate = b]
        \/ field = "rate" /\ \E r \in sampling_rates : cfg' = [cfg EXCEPT !.sampling_rate_hz = r]
        \/ field = "log" /\ \E n \in log_levels : cfg' = [cfg EXCEPT !.log_level = n]
    /\ UNCHANGED <<size, wpc, rpc, torn>>

\* "quit", the end of the input, a system call that fails, or a signal.
WriterEnds(w) ==
    /\ wpc[w] # "off"
    /\ WGoto(w, "off")
    /\ torn' = (torn \/ wpc[w] = "rate")
    /\ UNCHANGED <<size, cfg, rpc>>

-----------------------------------------------------------------------------
\* The file may still be empty; "open" fails where there is none.
ReaderOpen(r) ==
    /\ rpc[r] = "off" /\ size # "absent"
    /\ rpc' = [rpc EXCEPT ![r] = "poll"]
    /\ UNCHANGED <<size, cfg, wpc, torn>>

\* One line every two seconds, whatever the fields hold; in an empty file the first
\* access is SIGBUS.
Poll(r) ==
    /\ rpc[r] = "poll"
    /\ rpc' = [rpc EXCEPT ![r] = IF size = "full" THEN "poll" ELSE "off"]
    /\ UNCHANGED <<size, cfg, wpc, torn>>

\* SIGINT between two lines, or killed.
ReaderEnds(r) ==
    /\ rpc[r] # "off"
    /\ rpc' = [rpc EXCEPT ![r] = "off"]
    /\ UNCHANGED <<size, cfg, wpc, torn>>

-----------------------------------------------------------------------------
FNext ==
    \/ \E w \in Writers :
        \/ WriterOpen(w) \/ WriterMap(w) \/ WriterTest(w)
        \/ DefaultBaud(w) \/ DefaultRate(w) \/ DefaultLog(w)
        \/ Update(w) \/ WriterEnds(w)
    \/ \E r \in Readers : ReaderOpen(r) \/ Poll(r) \/ ReaderEnds(r)

FSpec == FInit /\ [][FNext]_fVars

-----------------------------------------------------------------------------
\* "Initialize default values if uninitialized" (writer.c:62): once the file has a baud
\* rate it also has a sampling rate from 1 to 1000, for every menu and every line that a
\* reader prints, however many writers start, stop or are killed.  The exceptions: a
\* writer is between its first two defaults at that moment, or died there, and every
\* later writer takes the rest of the file as initialised.
ConfigComplete ==
    LET halfway == torn \/ \E w \in Writers : wpc[w] = "rate"
    IN  /\ cfg.baud_rate # 0 /\ ~halfway => cfg.sampling_rate_hz \in 1 .. 1000
        /\ (\E w \in Writers : wpc[w] = "menu") => cfg.baud_rate # 0
=============================================================================
