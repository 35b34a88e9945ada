------------------------------ MODULE DeviceShm ------------------------------
(***************************************************************************)
(* tran-danh-quang/session-09/Exercise_3: the controller (controller.c)    *)
(* makes a POSIX shared memory object with a process shared mutex in it,   *)
(* which devices (device.c) lock once a second to read the status.  Any of *)
(* the processes may be killed anywhere; the mutex is not a robust one.    *)
(*                                                                         *)
(* The mutex behaves as glibc's default one: a lock call tests once that   *)
(* it is not destroyed and then waits until it is free; an unlock frees it *)
(* whoever holds it; destroying it fails (EBUSY) while somebody holds it,  *)
(* and does not see who waits; initialising it again makes it free.        *)
(***************************************************************************)
EXTENDS Naturals

CONSTANTS
    Controllers, Devices,
    MaxObjects      \* bound: shared memory objects ever created

ASSUME DeviceAssumption == MaxObjects \in Nat /\ Controllers \cap Devices = {}

Nobody == "nobody"
Objects == 1 .. MaxObjects

VARIABLES
    name, objects,  \* the object that SHM_NAME names (0 for none), and how many were made
    sized,          \* of each object: it has got its size,
    mutex,          \* "zero", "ready" or "destroyed",
    holder, status, \* device_state_t
    ctl, cobj,      \* each controller
    dev, dobj, stop \* each device; stop: keep_running = 0

object_vars == <<sized, mutex, holder, status>>
pVars == <<name, objects, object_vars, ctl, cobj, dev, dobj, stop>>

PInit ==
    /\ name = 0 /\ objects = 0
    /\ sized = [o \in Objects |-> FALSE]
    /\ mutex = [o \in Objects |-> "zero"]
    /\ holder = [o \in Objects |-> Nobody]
    /\ status = [o \in Objects |-> 0]
    /\ ctl = [c \in Controllers |-> "off"] /\ cobj = [c \in Controllers |-> 0]
    /\ dev = [d \in Devices |-> "off"] /\ dobj = [d \in Devices |-> 0]
    /\ stop = [d \in Devices |-> FALSE]

CtlGoto(c, label) == ctl' = [ctl EXCEPT ![c] = label]
DevGoto(d, label) == dev' = [dev EXCEPT ![d] = label]

\* Some of the devices in the lock call will sleep and not be woken when the mutex is free:
\* it was initialised again under them, or they came while it was zero, which makes it
\* private to each process.  place: where the devices are otherwise.
Forgotten(o, place) ==
    \E S \in SUBSET {d \in Devices : dev[d] = "lock" /\ dobj[d] = o} :
        dev' = [d \in Devices |-> IF d \in S THEN "asleep" ELSE place[d]]

\* A process is gone that held mutexes, and leaves them locked.
Left(p) == [o \in Objects |-> IF holder[o] = p THEN "gone" ELSE holder[o]]

\* pthread_mutex_unlock: EINVAL on a destroyed mutex, else it is free.
Unlocked(p, o) == IF mutex[o] = "destroyed" THEN Left(p) ELSE [holder EXCEPT ![o] = Nobody]

-----------------------------------------------------------------------------
\* init_controller: shm_open with O_CREAT takes an object that is there already ...
COpen(c) ==
    /\ ctl[c] = "off"
    /\ \/ /\ name = 0 /\ objects < MaxObjects
          /\ objects' = objects + 1 /\ name' = objects'
       \/ name # 0 /\ UNCHANGED <<name, objects>>
    /\ cobj' = [cobj EXCEPT ![c] = name']
    /\ CtlGoto(c, "opened")
    /\ UNCHANGED <<object_vars, dev, dobj, stop>>

\* ... ftruncate keeps what is in it ...
CTruncate(c) ==
    /\ ctl[c] = "opened"
    /\ sized' = [sized EXCEPT ![cobj[c]] = TRUE]
    /\ CtlGoto(c, "mapped")
    /\ UNCHANGED <<name, objects, mutex, holder, status, cobj, dev, dobj, stop>>

\* ... one of the calls that prepare the mutex fails ...
CGiveUp(c) ==
    /\ ctl[c] = "mapped"
    /\ name' = 0
    /\ CtlGoto(c, "off")
    /\ UNCHANGED <<objects, object_vars, cobj, dev, dobj, stop>>

\* ... or the mutex is initialised, although it may be in use.  A device that has called lock
\* on the zeroed mutex has taken it for a private one, also when nobody holds it now.
CMutexInit(c) ==
    LET o == cobj[c]
    IN  /\ ctl[c] = "mapped"
        /\ mutex' = [mutex EXCEPT ![o] = "ready"]
        /\ holder' = [holder EXCEPT ![o] = Nobody]
        /\ IF holder[o] = Nobody /\ mutex[o] # "zero" THEN UNCHANGED dev ELSE Forgotten(o, dev)
        /\ \/ CtlGoto(c, "lock0") /\ UNCHANGED name
           \/ CtlGoto(c, "off") /\ name' = 0      \* pthread_mutexattr_destroy fails
        /\ UNCHANGED <<objects, sized, status, cobj, dobj, stop>>

\* What a line of input says; "other" is any line that is no command.
get_command == {"on", "off", "other", "quit", "EOF"}

CCommand(c) ==
    /\ ctl[c] = "menu"
    /\ \E cmd \in get_command :
        \/ cmd = "on" /\ CtlGoto(c, "lock1")
        \/ cmd = "off" /\ CtlGoto(c, "lock0")
        \/ cmd \in {"quit", "EOF"} /\ CtlGoto(c, "destroy")
    /\ UNCHANGED <<name, objects, object_vars, cobj, dev, dobj, stop>>

\* A lock that fails is reported, and the status is stored all the same.
CLock(c) ==
    LET o == cobj[c]
    IN  /\ ctl[c] \in {"lock0", "lock1"}
        /\ \/ mutex[o] = "destroyed" /\ UNCHANGED holder
           \/ /\ mutex[o] # "destroyed" /\ holder[o] = Nobody
              /\ holder' = [holder EXCEPT ![o] = c]
        /\ CtlGoto(c, IF ctl[c] = "lock1" THEN "store1" ELSE "store0")
        /\ UNCHANGED <<name, objects, sized, mutex, status, cobj, dev, dobj, stop>>

CStore(c) ==
    /\ ctl[c] \in {"store0", "store1"}
    /\ status' = [status EXCEPT ![cobj[c]] = IF ctl[c] = "store1" THEN 1 ELSE 0]
    /\ CtlGoto(c, "unlock")
    /\ UNCHANGED <<name, objects, sized, mutex, holder, cobj, dev, dobj, stop>>

\* Mutant: the lock is kept.
CUnlockNot(c) ==
    /\ ctl[c] = "unlock"
    /\ CtlGoto(c, "menu")
    /\ UNCHANGED <<name, objects, object_vars, cobj, dev, dobj, stop>>

CUnlock(c) ==
    /\ ctl[c] = "unlock"
    /\ holder' = Unlocked(c, cobj[c])
    /\ CtlGoto(c, "menu")
    /\ UNCHANGED <<name, objects, sized, mutex, status, cobj, dev, dobj, stop>>

CDestroy(c) ==
    /\ ctl[c] = "destroy"
    /\ mutex' = IF holder[cobj[c]] = Nobody THEN [mutex EXCEPT ![cobj[c]] = "destroyed"] ELSE mutex
    /\ CtlGoto(c, "unlink")
    /\ UNCHANGED <<name, objects, sized, holder, status, cobj, dev, dobj, stop>>

\* shm_unlink takes the name away, whichever object it is the name of.
CUnlink(c) ==
    /\ ctl[c] = "unlink"
    /\ name' = 0
    /\ CtlGoto(c, "off")
    /\ UNCHANGED <<objects, object_vars, cobj, dev, dobj, stop>>

\* The controller has no handler: any signal, SIGINT too, ends it where it is, as does a
\* ftruncate or mmap that fails.
CKilled(c) ==
    /\ ctl[c] # "off"
    /\ CtlGoto(c, "off")
    /\ holder' = Left(c)
    /\ UNCHANGED <<name, objects, sized, mutex, status, cobj, dev, dobj, stop>>

-----------------------------------------------------------------------------
DOpen(d) ==
    /\ dev[d] = "off" /\ name # 0
    /\ dobj' = [dobj EXCEPT ![d] = name]
    /\ stop' = [stop EXCEPT ![d] = FALSE]
    /\ DevGoto(d, "loop")
    /\ UNCHANGED <<name, objects, object_vars, ctl, cobj>>

\* The lock call begins.  The first access to an object without a size is SIGBUS; on a
\* destroyed mutex the call fails and the loop ends.
DLock(d) ==
    LET o == dobj[d]
    IN  /\ dev[d] = "loop" /\ ~stop[d]
        /\ DevGoto(d, IF ~sized[o] \/ mutex[o] = "destroyed" THEN "off" ELSE "lock")
        /\ UNCHANGED <<name, objects, sized, mutex, holder, status, ctl, cobj, dobj, stop>>

\* It returns; current_status is read and later printed.
DLocked(d) ==
    LET o == dobj[d]
    IN  /\ dev[d] = "lock" /\ holder[o] = Nobody
        /\ holder' = [holder EXCEPT ![o] = d]
        /\ DevGoto(d, "read")
        /\ UNCHANGED <<name, objects, sized, mutex, status, ctl, cobj, dobj, stop>>

\* A failing unlock ends the loop too.
DUnlock(d) ==
    LET o == dobj[d]
    IN  /\ dev[d] = "read"
        /\ holder' = Unlocked(d, o)
        /\ \/ mutex[o] = "destroyed" /\ DevGoto(d, "off")
           \/ mutex[o] = "ready" /\ DevGoto(d, "loop")
           \/ mutex[o] = "zero" /\ Forgotten(o, [dev EXCEPT ![d] = "loop"])
        /\ UNCHANGED <<name, objects, sized, mutex, status, ctl, cobj, dobj, stop>>

DEnd(d) ==
    /\ dev[d] = "loop" /\ stop[d]
    /\ DevGoto(d, "off")
    /\ UNCHANGED <<name, objects, object_vars, ctl, cobj, dobj, stop>>

\* sigint_handler of the device; a signal also makes the lock call look again.
DSigint(d) ==
    /\ dev[d] # "off"
    /\ stop' = [stop EXCEPT ![d] = TRUE]
    /\ DevGoto(d, IF dev[d] = "asleep" THEN "lock" ELSE dev[d])
    /\ UNCHANGED <<name, objects, object_vars, ctl, cobj, dobj>>

\* A wake-up meant for another, or for no reason.
DWoken(d) ==
    /\ dev[d] = "asleep"
    /\ DevGoto(d, "lock")
    /\ UNCHANGED <<name, objects, object_vars, ctl, cobj, dobj, stop>>

DKilled(d) ==
    /\ dev[d] # "off"
    /\ DevGoto(d, "off")
    /\ holder' = Left(d)
    /\ UNCHANGED <<name, objects, sized, mutex, status, ctl, cobj, dobj, stop>>

-----------------------------------------------------------------------------
PNext ==
    \/ \E c \in Controllers :
        \/ COpen(c) \/ CTruncate(c) \/ CGiveUp(c) \/ CMutexInit(c)
        \/ CCommand(c) \/ CLock(c) \/ CStore(c) \/ CUnlock(c)
        \/ CDestroy(c) \/ CUnlink(c) \/ CKilled(c)
    \/ \E d \in Devices :
        \/ DOpen(d) \/ DLock(d) \/ DLocked(d) \/ DUnlock(d) \/ DEnd(d)
        \/ DSigint(d) \/ DWoken(d) \/ DKilled(d)

-----------------------------------------------------------------------------
\* After SIGINT a device ends (device.c:49), whatever the controller does meanwhile:
\* commands, destroying the mutex, unlinking the object, another controller's start.  The
\* exceptions are those where the lock call may never return: the holder of the mutex was
\* killed, or left it locked when its unlock failed on a destroyed mutex; or the device
\* sleeps on a mutex used before it was initialised, or initialised again while in use.
StopsOnSigint ==
    \A d \in Devices :
        stop[d] /\ dev[d] # "off" ~> dev[d] \in {"off", "asleep"} \/ holder[dobj[d]] = "gone"
=============================================================================
