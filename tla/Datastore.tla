-------------------------------- MODULE Datastore --------------------------------
(***************************************************************************)
(* The datastore of a container host: one JSON file, shared by the silk-cni *)
(* processes and the daemon, that each call locks, decodes and, but for     *)
(* ReadAll, truncates and writes again.  The steps are the system calls; a  *)
(* process may fail at any of them or be killed, and the lock goes with it. *)
(* An entry is the address stored under a handle; None stands for no entry. *)
(*                                                                         *)
(* EndsWithoutClose and OpenWithoutLock are mistaken variants of Ends and   *)
(* Open.                                                                    *)
(***************************************************************************)
EXTENDS Naturals

CONSTANTS
  Proc,           \* processes that use the store
  Handle, Address,
  None,
  Torn,           \* the content of a file that was written in part
  MaxFailures     \* failing calls and kills

Contents == [Handle -> Address \cup {None}]
Empty    == [h \in Handle |-> None]

ASSUME DatastoreAssumption ==
  /\ None \notin Proc /\ None \notin Address /\ None \notin Contents
  /\ Torn \notin Contents

VARIABLES
  file,           \* what the file decodes to; an empty file has no entries
  holder,         \* the process with the lock on the file, or None
  step,           \* where each process is in its call
  call,           \* that call
  pool,           \* its map pool
  lost,           \* a write did not complete
  failures,
  faulty,         \* processes that met a failure
  failing         \* those that met one since their last call began

store  == <<file, holder, step, call, pool, lost>>
faults == <<failures, faulty, failing>>

Calls == [op : {"add", "delete", "read"}, handle : Handle \cup {None},
          ip : Address \cup {None}]
NoCall == [op |-> "read", handle |-> None, ip |-> None]

Fault(p) == /\ failures < MaxFailures /\ failures' = failures + 1
            /\ faulty' = faulty \cup {p} /\ failing' = failing \cup {p}
Fine     == UNCHANGED faults

(* The process p is replaced by one that has met no failure. *)
Afresh(p) == failing' = failing \ {p} /\ UNCHANGED <<failures, faulty>>

(* A call begins, and ends when its caller takes the result. *)
Call(p, c) ==
  /\ step[p] = "idle"
  /\ step' = [step EXCEPT ![p] = "open"]
  /\ call' = [call EXCEPT ![p] = c]
  /\ UNCHANGED <<file, holder, pool, lost>>

Add(p, h, a)  == Call(p, [op |-> "add", handle |-> h, ip |-> a])
Delete(p, h)  == Call(p, [op |-> "delete", handle |-> h, ip |-> None])
ReadAll(p)    == Call(p, NoCall)

Forgotten(p) ==
  /\ step' = [step EXCEPT ![p] = "idle"]
  /\ call' = [call EXCEPT ![p] = NoCall]
  /\ pool' = [pool EXCEPT ![p] = Empty]

Return(p) ==
  /\ step[p] \in {"done", "failed"}
  /\ Forgotten(p)
  /\ UNCHANGED <<file, holder, lost>>

-------------------------------------------------------------------------------
EndsWithoutClose(p, result) ==
  /\ step' = [step EXCEPT ![p] = result]
  /\ UNCHANGED holder

(* The deferred Close, which gives up the lock, is part of the last step. *)
Ends(p, result) ==
  /\ step' = [step EXCEPT ![p] = result]
  /\ holder' = None

OpenWithoutLock(p) ==
  /\ step[p] = "open"
  /\ step' = [step EXCEPT ![p] = "decode"] /\ holder' = p /\ Fine
  /\ UNCHANGED <<file, call, pool, lost>>

(* filelock.Open waits for the lock; it may fail before it has it. *)
Open(p) ==
  /\ step[p] = "open"
  /\ \/ /\ holder = None /\ Fine
        /\ step' = [step EXCEPT ![p] = "decode"] /\ holder' = p
     \/ Fault(p) /\ step' = [step EXCEPT ![p] = "failed"] /\ UNCHANGED holder
  /\ UNCHANGED <<file, call, pool, lost>>

Changed(content, c) ==
  IF c.op = "read" THEN content ELSE [content EXCEPT ![c.handle] = c.ip]

Decode(p) ==
  /\ step[p] = "decode"
  /\ \/ /\ file # Torn /\ Fine
        /\ pool' = [pool EXCEPT ![p] = Changed(file, call[p])]
        /\ IF call[p].op = "read" THEN Ends(p, "done")
           ELSE step' = [step EXCEPT ![p] = "truncate"] /\ UNCHANGED holder
     \/ /\ IF file = Torn THEN Fine ELSE Fault(p)
        /\ Ends(p, "failed") /\ UNCHANGED pool
  /\ UNCHANGED <<file, call, lost>>

Truncate(p) ==
  /\ step[p] = "truncate"
  /\ \/ /\ file' = Empty /\ Fine
        /\ step' = [step EXCEPT ![p] = "encode"] /\ UNCHANGED holder
     \/ Fault(p) /\ Ends(p, "failed") /\ UNCHANGED file
  /\ UNCHANGED <<call, pool, lost>>

Encode(p) ==
  /\ step[p] = "encode"
  /\ \/ file' = pool[p] /\ Fine /\ Ends(p, "done") /\ UNCHANGED lost
     \/ file' \in {Empty, Torn} /\ Fault(p) /\ Ends(p, "failed") /\ lost' = TRUE
  /\ UNCHANGED <<call, pool>>

(* The process is killed, at whatever step it is. *)
Die(p) ==
  /\ Fault(p) /\ Forgotten(p)
  /\ holder' = IF holder = p THEN None ELSE holder
  /\ lost' = (lost \/ step[p] = "encode")
  /\ UNCHANGED file

Access(p) == Open(p) \/ Decode(p) \/ Truncate(p) \/ Encode(p)

StoreInit ==
  /\ file = Empty /\ holder = None /\ lost = FALSE
  /\ step = [p \in Proc |-> "idle"] /\ call = [p \in Proc |-> NoCall]
  /\ pool = [p \in Proc |-> Empty]
  /\ failures = 0 /\ faulty = {} /\ failing = {}

StoreNext ==
  \E p \in Proc :
     \/ \E h \in Handle, a \in Address : Add(p, h, a)
     \/ \E h \in Handle : Delete(p, h)
     \/ ReadAll(p) \/ Access(p) \/ Return(p) \/ Die(p)

StoreSpec == StoreInit /\ [][StoreNext]_store

-------------------------------------------------------------------------------
StoreTypeOK ==
  /\ file \in Contents \cup {Torn} /\ holder \in Proc \cup {None}
  /\ step \in [Proc -> {"idle", "open", "decode", "truncate", "encode", "done", "failed"}]
  /\ call \in [Proc -> Calls] /\ pool \in [Proc -> Contents] /\ lost \in BOOLEAN

(* The write of a holder that has truncated the file counts as done. *)
content == IF holder # None /\ step[holder] = "encode" THEN pool[holder] ELSE file

got == [p \in Proc |-> IF step[p] = "done" /\ call[p].op = "read" THEN pool[p] ELSE None]

Promise == INSTANCE AtomicStore
             WITH content <- content, got <- got, lost <- lost, Proc <- Proc,
                  Handle <- Handle, Address <- Address, None <- None, Torn <- Torn

(* To its callers, whatever their number and interleaving, the locked file  *)
(* is an atomic map: no Add or Delete undoes another, no ReadAll sees a     *)
(* truncated file, and entries vanish only when a write is cut short.       *)
ImplementsPromise == Promise!Spec
==================================================================================
