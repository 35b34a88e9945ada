------------------------ MODULE SharedMemoryPrograms ------------------------
(***************************************************************************)
(* The three pairs of programs of tran-danh-quang/session-09 side by side. *)
(* They share nothing with each other, so that a behaviour is about one of *)
(* them, chosen in the initial state.                                      *)
(***************************************************************************)
EXTENDS SensorSegment, ConfigFile, DeviceShm

VARIABLE program

programVars == <<sVars, fVars, pVars, program>>

InitPrograms ==
    /\ program \in {"sensor", "config", "device"}
    /\ SInit /\ FInit /\ PInit

NextPrograms ==
    /\ UNCHANGED program
    /\ \/ program = "sensor" /\ SNext /\ UNCHANGED <<fVars, pVars>>
       \/ program = "config" /\ FNext /\ UNCHANGED <<sVars, pVars>>
       \/ program = "device" /\ PNext /\ UNCHANGED <<sVars, fVars>>

SpecPrograms == InitPrograms /\ [][NextPrograms]_programVars

\* Processes are scheduled, and a mutex that is free again and again is got in the end.
\* Nobody need start a process, type a command or send a signal.
FairnessPrograms ==
    /\ \A c \in Controllers :
        WF_pVars(program = "device" /\ (CStore(c) \/ CUnlock(c)))
    /\ \A d \in Devices :
        /\ WF_pVars(program = "device" /\ (DLock(d) \/ DUnlock(d) \/ DEnd(d)))
        /\ SF_pVars(program = "device" /\ DLocked(d))

FairSpecPrograms == SpecPrograms /\ FairnessPrograms
=============================================================================
