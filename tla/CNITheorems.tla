-------------------------------- MODULE CNITheorems --------------------------------
(***************************************************************************)
(* The datastore, then silk-cni with it, for any number of containers,      *)
(* addresses and failures: the datastore is atomic, silk-cni uses           *)
(* it as Datastore describes, its variables keep their types,               *)
(* device addresses stay unique, and an added container is in the store.    *)
(***************************************************************************)
EXTENDS CNI, TLAPS

-------------------------------------------------------------------------------
(* The datastore implements AtomicStore, for any number of processes,       *)
(* handles and addresses, and any number of failures.                       *)

Locked == {"decode", "truncate", "encode"}

(* The lock: who is between Open and Close is its holder. *)
LockInv == \A p \in Proc : step[p] \in Locked <=> holder = p

(* What the holder is about to write: the file with one entry changed.      *)
PoolInv ==
  \A p \in Proc :
    /\ step[p] # "idle" /\ call[p].op # "read" => call[p].handle \in Handle
    /\ step[p] \in {"truncate", "encode"} => call[p].op # "read"
    /\ step[p] = "truncate" => file # Torn /\ pool[p] = Changed(file, call[p])
    /\ step[p] = "encode" => file = Empty

IInv == StoreTypeOK /\ LockInv /\ PoolInv

-------------------------------------------------------------------------------
LEMMA EmptyContents == Empty \in Contents
BY DEF Empty, Contents

LEMMA ChangedContents ==
  ASSUME NEW f \in Contents, NEW c \in Calls, c.op = "read" \/ c.handle \in Handle
  PROVE  Changed(f, c) \in Contents
BY DEF Changed, Contents, Calls

LEMMA NoCallCalls == NoCall \in Calls /\ NoCall.op = "read"
BY DEF NoCall, Calls

LEMMA Initially == StoreInit => IInv
BY Zenon, EmptyContents, NoCallCalls, DatastoreAssumption
   DEF StoreInit, IInv, StoreTypeOK, LockInv, PoolInv, Locked

LEMMA CallInv ==
  ASSUME IInv, NEW p \in Proc, NEW c \in Calls, c.op = "read" \/ c.handle \in Handle,
         Call(p, c)
  PROVE  IInv'
BY DEF Call, IInv, StoreTypeOK, LockInv, PoolInv, Locked, Changed

LEMMA ReturnInv ==
  ASSUME IInv, NEW p \in Proc, Return(p)
  PROVE  IInv'
BY EmptyContents, NoCallCalls
   DEF Return, Forgotten, IInv, StoreTypeOK, LockInv, PoolInv, Locked, Changed

LEMMA OpenInv ==
  ASSUME IInv, NEW p \in Proc, Open(p)
  PROVE  IInv'
BY DatastoreAssumption DEF Open, IInv, StoreTypeOK, LockInv, PoolInv, Locked, Changed

LEMMA DecodeInv ==
  ASSUME IInv, NEW p \in Proc, Decode(p)
  PROVE  IInv'
<1>1. CASE file # Torn /\ pool' = [pool EXCEPT ![p] = Changed(file, call[p])]
  <2>1. Changed(file, call[p]) \in Contents
    BY <1>1, ChangedContents DEF IInv, StoreTypeOK, PoolInv, Decode
  <2>2. StoreTypeOK'
    BY <1>1, <2>1 DEF Decode, Ends, IInv, StoreTypeOK
  <2>3. LockInv'
    BY <1>1, DatastoreAssumption DEF Decode, Ends, IInv, StoreTypeOK, LockInv, Locked
  <2>4. PoolInv'
    BY <1>1 DEF Decode, Ends, IInv, StoreTypeOK, LockInv, PoolInv, Locked
  <2> QED BY <2>2, <2>3, <2>4 DEF IInv
<1>2. CASE Ends(p, "failed") /\ UNCHANGED pool
  BY <1>2, DatastoreAssumption
     DEF Decode, Ends, IInv, StoreTypeOK, LockInv, PoolInv, Locked, Changed
<1> QED BY <1>1, <1>2 DEF Decode

LEMMA TruncateInv ==
  ASSUME IInv, NEW p \in Proc, Truncate(p)
  PROVE  IInv'
BY EmptyContents, DatastoreAssumption
   DEF Truncate, Ends, IInv, StoreTypeOK, LockInv, PoolInv, Locked

LEMMA EncodeInv ==
  ASSUME IInv, NEW p \in Proc, Encode(p)
  PROVE  IInv'
<1>1. file' \in Contents \cup {Torn}
  BY EmptyContents DEF Encode, IInv, StoreTypeOK
<1>2. StoreTypeOK'
  BY Zenon, <1>1 DEF Encode, Ends, IInv, StoreTypeOK
<1>3. LockInv'
  BY DatastoreAssumption DEF Encode, Ends, IInv, StoreTypeOK, LockInv, Locked
<1>4. PoolInv'
  BY <1>3 DEF Encode, Ends, IInv, StoreTypeOK, LockInv, PoolInv, Locked
<1> QED BY <1>2, <1>3, <1>4 DEF IInv

LEMMA DieInv ==
  ASSUME IInv, NEW p \in Proc, Die(p)
  PROVE  IInv'
BY EmptyContents, NoCallCalls, DatastoreAssumption
   DEF Die, Forgotten, IInv, StoreTypeOK, LockInv, PoolInv, Locked, Changed

(* A call that begins is one of the three. *)
LEMMA CallsAreCalls ==
  ASSUME NEW p \in Proc,
         \/ \E h \in Handle, a \in Address : Add(p, h, a)
         \/ \E h \in Handle : Delete(p, h)
         \/ ReadAll(p)
  PROVE  \E c \in Calls : (c.op = "read" \/ c.handle \in Handle) /\ Call(p, c)
BY Zenon, NoCallCalls DEF Add, Delete, ReadAll, Calls

LEMMA StoreStep ==
  ASSUME IInv, StoreNext \/ UNCHANGED store
  PROVE  IInv'
<1>1. ASSUME IInv, StoreNext PROVE IInv'
  <2> PICK p \in Proc :
        \/ \E h \in Handle, a \in Address : Add(p, h, a)
        \/ \E h \in Handle : Delete(p, h)
        \/ ReadAll(p) \/ Access(p) \/ Return(p) \/ Die(p)
    BY <1>1 DEF StoreNext
  <2>1. CASE \/ \E h \in Handle, a \in Address : Add(p, h, a)
             \/ \E h \in Handle : Delete(p, h)
             \/ ReadAll(p)
    BY <1>1, <2>1, CallsAreCalls, CallInv
  <2>2. CASE Access(p)
    BY <1>1, <2>2, OpenInv, DecodeInv, TruncateInv, EncodeInv DEF Access
  <2> QED BY <1>1, <2>1, <2>2, ReturnInv, DieInv
<1>2. ASSUME IInv, UNCHANGED store PROVE IInv'
  BY <1>2 DEF store, IInv, StoreTypeOK, LockInv, PoolInv, Changed
<1> QED BY <1>1, <1>2

(* The lock is held by the process at work and by no other, and the pool it *)
(* writes differs from the file in the entry it was asked to change:        *)
(* lib/datastore keeps this whatever fails and whoever is killed.           *)
THEOREM StoreInvariance == StoreSpec => []IInv
BY Initially, StoreStep, PTL DEF StoreSpec

-------------------------------------------------------------------------------
(* Through content and got, each step is one of the promise's or none. *)

pvars == <<content, got, lost>>

LEMMA NotLocked ==
  ASSUME IInv, NEW p \in Proc, step[p] \notin Locked
  PROVE  holder # p
BY DEF IInv, LockInv

LEMMA PromiseInit == StoreInit => Promise!Init
BY DEF StoreInit, Promise!Init, content, got, Empty, Promise!Empty

LEMMA PromiseCall ==
  ASSUME IInv, NEW p \in Proc, NEW c \in Calls, Call(p, c)
  PROVE  UNCHANGED pvars
<1>1. holder # p
  BY NotLocked DEF Call, Locked
<1>2. content' = content
  BY <1>1 DEF Call, content, IInv, StoreTypeOK
<1>3. got' = got
  BY DEF Call, got, IInv, StoreTypeOK
<1> QED BY <1>2, <1>3 DEF Call, pvars

LEMMA PromiseReturn ==
  ASSUME IInv, NEW p \in Proc, Return(p)
  PROVE  Promise!Forget(p)
<1>1. holder # p
  BY NotLocked DEF Return, Locked
<1>2. content' = content
  BY <1>1 DEF Return, Forgotten, content, IInv, StoreTypeOK
<1>3. got' = [got EXCEPT ![p] = None]
  BY Zenon DEF Return, Forgotten, got, IInv, StoreTypeOK
<1> QED BY <1>2, <1>3 DEF Return, Promise!Forget

LEMMA PromiseOpen ==
  ASSUME IInv, NEW p \in Proc, Open(p)
  PROVE  UNCHANGED pvars
<1>1. holder # p
  BY NotLocked DEF Open, Locked
<1>2. content' = content
  BY <1>1, DatastoreAssumption DEF Open, content, IInv, StoreTypeOK
<1>3. got' = got
  BY DEF Open, got, IInv, StoreTypeOK
<1> QED BY <1>2, <1>3 DEF Open, pvars

LEMMA PromiseDecode ==
  ASSUME IInv, NEW p \in Proc, Decode(p)
  PROVE  Promise!Next \/ UNCHANGED pvars
<1>1. holder = p /\ content = file
  BY DEF Decode, IInv, LockInv, Locked, content
<1>2. content' = content
  BY <1>1, DatastoreAssumption DEF Decode, Ends, content, IInv, StoreTypeOK
<1>3. CASE file # Torn /\ pool' = [pool EXCEPT ![p] = Changed(file, call[p])]
           /\ call[p].op = "read" /\ Ends(p, "done")
  <2>1. got' = [got EXCEPT ![p] = content]
    BY Zenon, <1>1, <1>3 DEF Decode, Ends, Changed, got, IInv, StoreTypeOK
  <2> QED BY Zenon, <1>1, <1>2, <1>3, <2>1 DEF Decode, Promise!Read, Promise!Next
<1>4. CASE call[p].op # "read" \/ (Ends(p, "failed") /\ UNCHANGED pool)
  <2>1. got' = got
    BY <1>4 DEF Decode, Ends, got, IInv, StoreTypeOK
  <2> QED BY <1>2, <2>1 DEF Decode, pvars
<1> QED BY <1>3, <1>4 DEF Decode

(* A truncation is the moment of the write that follows it. *)
LEMMA PromiseTruncate ==
  ASSUME IInv, NEW p \in Proc, Truncate(p)
  PROVE  Promise!Next \/ UNCHANGED pvars
<1>1. holder = p /\ content = file /\ file # Torn /\ call[p].op # "read"
  BY DEF Truncate, IInv, LockInv, PoolInv, Locked, content
<1>2. got' = got
  BY DEF Truncate, Ends, got, IInv, StoreTypeOK
<1>3. CASE step' = [step EXCEPT ![p] = "encode"] /\ UNCHANGED holder
  <2>1. content' = pool[p]
    BY <1>1, <1>3, DatastoreAssumption DEF Truncate, content, IInv, StoreTypeOK
  <2>2. content' = [content EXCEPT ![call[p].handle] = call[p].ip]
    BY <1>1, <2>1 DEF Truncate, IInv, PoolInv, Changed
  <2>3. call[p].handle \in Handle /\ call[p].ip \in Address \cup {None}
    BY <1>1 DEF Truncate, IInv, StoreTypeOK, PoolInv, Calls
  <2> QED BY Zenon, <1>1, <1>2, <2>2, <2>3 DEF Truncate, Promise!Write, Promise!Next
<1>4. CASE Ends(p, "failed") /\ UNCHANGED file
  BY <1>1, <1>2, <1>4, DatastoreAssumption
     DEF Truncate, Ends, content, pvars, IInv, StoreTypeOK
<1> QED BY <1>3, <1>4 DEF Truncate

LEMMA PromiseEncode ==
  ASSUME IInv, NEW p \in Proc, Encode(p)
  PROVE  Promise!Next \/ UNCHANGED pvars
<1>1. holder = p /\ content = pool[p] /\ call[p].op # "read"
  BY DatastoreAssumption DEF Encode, IInv, LockInv, PoolInv, Locked, content
<1>2. got' = got
  BY <1>1 DEF Encode, Ends, got, IInv, StoreTypeOK
<1>3. content' = file'
  BY DEF Encode, Ends, content
<1>4. CASE file' = pool[p] /\ UNCHANGED lost
  BY <1>1, <1>2, <1>3, <1>4 DEF pvars
<1>5. CASE file' \in {Empty, Torn} /\ lost' = TRUE
  BY <1>2, <1>3, <1>5 DEF Promise!Lose, Promise!Next, Promise!Empty, Empty
<1> QED BY Zenon, <1>4, <1>5 DEF Encode

LEMMA PromiseDie ==
  ASSUME IInv, NEW p \in Proc, Die(p)
  PROVE  Promise!Next \/ UNCHANGED pvars
<1>1. got' = [got EXCEPT ![p] = None]
  BY Zenon DEF Die, Forgotten, got, IInv, StoreTypeOK
<1>2. CASE step[p] = "encode"
  <2>1. content' = Empty
    BY <1>2 DEF Die, content, IInv, LockInv, PoolInv, Locked
  <2>2. got[p] = None
    BY <1>2 DEF got
  <2>3. got' = got
    BY Zenon, <1>1, <2>2 DEF got
  <2> QED BY Zenon, <1>2, <2>1, <2>3 DEF Die, Promise!Lose, Promise!Next, Promise!Empty, Empty
<1>3. CASE step[p] # "encode"
  <2>1. content' = content
    BY <1>3, DatastoreAssumption DEF Die, Forgotten, content, IInv, StoreTypeOK, LockInv, Locked
  <2>2. lost' = lost
    BY <1>3 DEF Die, IInv, StoreTypeOK
  <2> QED BY Zenon, <1>1, <2>1, <2>2 DEF Promise!Forget, Promise!Next
<1> QED BY <1>2, <1>3

(* lib/datastore's lock, decode, truncate and write behave as one atomic    *)
(* map, for any callers and any failures.                                   *)
THEOREM DatastoreIsAtomic == StoreSpec => ImplementsPromise
<1>1. ASSUME IInv, StoreNext PROVE Promise!Next \/ UNCHANGED pvars
  <2> PICK p \in Proc :
        \/ \E h \in Handle, a \in Address : Add(p, h, a)
        \/ \E h \in Handle : Delete(p, h)
        \/ ReadAll(p) \/ Access(p) \/ Return(p) \/ Die(p)
    BY <1>1 DEF StoreNext
  <2>1. CASE \/ \E h \in Handle, a \in Address : Add(p, h, a)
             \/ \E h \in Handle : Delete(p, h)
             \/ ReadAll(p)
    BY <1>1, <2>1, CallsAreCalls, PromiseCall
  <2>2. CASE Access(p)
    BY <1>1, <2>2, PromiseOpen, PromiseDecode, PromiseTruncate, PromiseEncode DEF Access
  <2>3. CASE Return(p)
    BY <1>1, <2>3, PromiseReturn DEF Promise!Next
  <2> QED BY <1>1, <2>1, <2>2, <2>3, PromiseDie
<1>2. ASSUME UNCHANGED store PROVE UNCHANGED pvars
  BY <1>2 DEF store, pvars, content, got
<1> QED BY StoreInvariance, PromiseInit, <1>1, <1>2, PTL
        DEF StoreSpec, ImplementsPromise, Promise!Spec, pvars

-------------------------------------------------------------------------------
(* The steps of silk-cni, seen from the datastore. *)

LEMMA ContainersAreProcs == Container \subseteq Proc /\ Daemon \in Proc /\ Handle = Container
BY CNIAssumption

LEMMA RunUsesStore ==
  ASSUME TypeOK, NEW c \in Container, Run(c)
  PROVE  StoreNext \/ UNCHANGED store
<1>0. c \in Proc /\ c \in Handle
  BY ContainersAreProcs
<1>1. CASE \/ DelegateAdd(c) \/ Create(c) \/ LinkAdd(c) \/ LinkSetNsFd(c)
           \/ HostSetup(c) \/ ContainerSetup(c) \/ DelegateDel(c) \/ GetNS(c) \/ Teardown(c)
  BY Zenon, <1>1 DEF DelegateAdd, Create, LinkAdd, LinkSetNsFd, HostSetup, ContainerSetup,
              DelegateDel, GetNS, Teardown
<1>2. CASE StoreAdd(c)
  <2>1. ip[c] \in Address
    BY <1>2 DEF StoreAdd, TypeOK
  <2> QED BY <1>0, <1>2, <2>1 DEF StoreAdd, StoreNext
<1>3. CASE StoreDelete(c)
  BY Zenon, <1>0, <1>3 DEF StoreDelete, StoreNext
<1>4. CASE Stored(c) \/ Deleted(c)
  BY <1>0, <1>4 DEF Stored, Deleted, StoreNext
<1>5. CASE InStore(c)
  BY <1>0, <1>5 DEF InStore, StoreNext
<1> QED BY <1>1, <1>2, <1>3, <1>4, <1>5 DEF Run

LEMMA NextUsesStore ==
  ASSUME TypeOK, Next
  PROVE  StoreNext \/ UNCHANGED store
<1>1. CASE \E c \in Container : cmdAdd(c) \/ cmdDel(c) \/ RemoveNS(c)
  BY Zenon, <1>1 DEF cmdAdd, getNetworkInfo, cmdDel, RemoveNS
<1>2. CASE \E c \in Container : Run(c)
  BY <1>2, RunUsesStore
<1>3. CASE \E c \in Container : Kill(c)
  BY <1>3, ContainersAreProcs DEF Kill, StoreNext
<1>4. CASE DaemonReads \/ InStore(Daemon)
  BY <1>4, ContainersAreProcs DEF DaemonReads, InStore, StoreNext
<1> QED BY <1>1, <1>2, <1>3, <1>4 DEF Next

-------------------------------------------------------------------------------
Hardware == ({"ee", "aa"} \X Address) \cup {Other}
AnyIP    == Address \cup {HostAddress}
End      == [mac : Hardware, neigh : [hw : Hardware, ip : AnyIP] \cup {None},
             addr : AnyIP \cup {None}, up : BOOLEAN]
Pair     == [owner : Container, name : {GenerateForHost(a) : a \in Address},
             ns : Container \cup {Host},
             dev : {GenerateTemporaryForContainer(a) : a \in Address} \cup {IfName},
             host : End, container : End, routed : BOOLEAN]

(* Pairs: host names are unique, a device has the address in its pair's     *)
(* name or none, and it is on the host or with the container it was made    *)
(* for.                                                                     *)
PairsInv ==
  /\ pairs \in SUBSET Pair
  /\ \A v, w \in pairs : v.name = w.name => v = w
  /\ \A v \in pairs :
       /\ v.container.addr # None => v.name = GenerateForHost(v.container.addr)
       /\ v.ns \in {Host, v.owner}

CNIInv == TypeOK /\ PairsInv

(* What TypeOK says of the store and of the calls, apart. *)
CallsOK ==
  /\ netns \in SUBSET Container
  /\ ipam \in [Address -> Container \cup {None}]
  /\ ip \in [Container -> Address \cup {None}] /\ pc \in [Container -> Labels]
  /\ outcome \in [Container -> {"none", "added", "failed", "deleted"}]

AtWork(c) ==
  /\ pc[c] \in {"config", "link", "store", "stored"} => ip[c] # None
  /\ pc[c] \in {"move", "host", "container"} =>
       \E v \in pairs : v.owner = c /\ v.name = GenerateForHost(ip[c])

LEMMA TypeOKParts == TypeOK <=> StoreTypeOK /\ CallsOK /\ \A c \in Container : AtWork(c)
BY DEF TypeOK, CallsOK, AtWork

LEMMA TypeOKPartsPrime ==
  TypeOK' <=> StoreTypeOK' /\ CallsOK' /\ \A c \in Container : AtWork(c)'
BY DEF TypeOK, CallsOK, AtWork

(* The pair of a call that is still at work on it. *)
LEMMA PairOfCall ==
  ASSUME CNIInv, NEW c \in Container, pc[c] \in {"move", "host", "container"}
  PROVE  /\ PairOf(c) \in pairs /\ PairOf(c) \in Pair /\ PairOf(c).owner = c
         /\ PairOf(c).name = GenerateForHost(ip[c])
         /\ ip[c] \in Address
<1>1. \E v \in pairs : v.owner = c /\ v.name = GenerateForHost(ip[c])
  BY DEF CNIInv, TypeOK
<1>2. /\ PairOf(c) \in pairs /\ PairOf(c).owner = c
      /\ PairOf(c).name = GenerateForHost(ip[c])
  BY <1>1 DEF PairOf
<1>3. PairOf(c) \in Pair
  BY <1>2 DEF CNIInv, PairsInv
<1>4. PICK a \in Address : GenerateForHost(ip[c]) = GenerateForHost(a)
  BY <1>2, <1>3 DEF Pair
<1>5. ip[c] = a
  BY <1>4 DEF GenerateForHost, generate
<1> QED BY <1>2, <1>3, <1>5

(* A pair may be replaced by one with the same owner and name, on the host  *)
(* or with its owner.                                                       *)
LEMMA ReplaceKeepsPairs ==
  ASSUME CNIInv, NEW v \in pairs, NEW w \in Pair, Replace(v, w),
         w.name = v.name, w.owner = v.owner, w.ns \in {Host, v.owner},
         w.container.addr # None => w.name = GenerateForHost(w.container.addr)
  PROVE  /\ PairsInv'
         /\ \A u \in pairs : \E x \in pairs' : x.owner = u.owner /\ x.name = u.name
BY DEF CNIInv, PairsInv, Replace

LEMMA RemovalKeepsPairs ==
  ASSUME CNIInv, pairs' \subseteq pairs
  PROVE  PairsInv'
BY DEF CNIInv, PairsInv

(* A call other than c's, or one that only moves on, is not disturbed.      *)
LEMMA AtWorkKept ==
  ASSUME CNIInv, NEW d \in Container, pc'[d] = pc[d], ip'[d] = ip[d],
         \A u \in pairs : u.owner = d =>
            \E x \in pairs' : x.owner = u.owner /\ x.name = u.name
  PROVE  AtWork(d)'
BY DEF CNIInv, TypeOK, AtWork

-------------------------------------------------------------------------------
(* What each setup makes of an end is an end. *)

LEMMA Ends1 ==
  ASSUME NEW c \in Container, ip[c] \in Address
  PROVE  /\ HostEnd(c) \in [hw : Hardware, ip : AnyIP]
         /\ ContainerEnd(c) \in [hw : Hardware, ip : AnyIP]
         /\ HostEnd(c).ip = HostAddress /\ ContainerEnd(c).ip = ip[c]
         /\ HostEnd(c).hw \in Hardware /\ ContainerEnd(c).hw \in Hardware
BY DEF HostEnd, ContainerEnd, Hardware, AnyIP, HardwareForContainer, HardwareForHost

LEMMA SetupIsEnd ==
  ASSUME NEW e \in End, NEW local \in [hw : Hardware, ip : AnyIP],
         NEW peer \in [hw : Hardware, ip : AnyIP],
         NEW f \in BasicSetupFailed(e, local, peer) \cup {BasicSetup(e, local, peer)}
  PROVE  f \in End /\ f.addr \in {e.addr, local.ip}
BY Zenon DEF End, BasicSetupFailed, BasicSetup, LinkSetHardwareAddr, StaticNeighborNoARP,
       SetPointToPointAddress, LinkSetUp

LEMMA NewEndIsEnd ==
  ASSUME NEW h \in Hardware, NEW up \in BOOLEAN
  PROVE  NewEnd(h, up) \in End /\ NewEnd(h, up).addr = None
BY DEF NewEnd, End

-------------------------------------------------------------------------------
(* Each step keeps the types and the pairs. *)

Kept == CallsOK' /\ (\A d \in Container : AtWork(d)') /\ PairsInv'

LEMMA cmdAddKeeps ==
  ASSUME CNIInv, NEW c \in Container, cmdAdd(c)
  PROVE  Kept
<1>1. PairsInv'
  BY RemovalKeepsPairs DEF cmdAdd
<1>2. CallsOK'
  BY Zenon
     DEF cmdAdd, getNetworkInfo, Proceed, Fail, Finish, Goto, CNIInv, TypeOK, CallsOK, Labels
<1>3. ASSUME NEW d \in Container PROVE AtWork(d)'
  <2>1. CASE d # c
    BY <2>1, AtWorkKept DEF cmdAdd, getNetworkInfo, Proceed, Fail, Finish, Goto, CNIInv, TypeOK
  <2>2. CASE d = c
    BY <2>2 DEF cmdAdd, getNetworkInfo, Proceed, Fail, Finish, Goto, CNIInv, TypeOK, AtWork
  <2> QED BY <2>1, <2>2
<1> QED BY <1>1, <1>2, <1>3 DEF Kept

LEMMA DelegateAddKeeps ==
  ASSUME CNIInv, NEW c \in Container, DelegateAdd(c)
  PROVE  Kept
<1>1. PairsInv'
  BY RemovalKeepsPairs DEF DelegateAdd, kernel
<1>2. CallsOK'
  <2>1. /\ ipam' \in [Address -> Container \cup {None}]
        /\ ip' \in [Container -> Address \cup {None}]
    BY DEF DelegateAdd, CNIInv, TypeOK
  <2>2. /\ pc' \in [Container -> Labels]
        /\ outcome' \in [Container -> {"none", "added", "failed", "deleted"}]
    BY Zenon DEF DelegateAdd, Proceed, Fail, Finish, Goto, CNIInv, TypeOK, Labels
  <2> QED BY <2>1, <2>2 DEF DelegateAdd, kernel, CNIInv, TypeOK, CallsOK
<1>3. ASSUME NEW d \in Container PROVE AtWork(d)'
  <2>1. CASE d # c
    BY <2>1, AtWorkKept DEF DelegateAdd, Proceed, Fail, Finish, Goto, kernel, CNIInv, TypeOK
  <2>2. CASE d = c
    BY <2>2, DatastoreAssumption
       DEF DelegateAdd, Proceed, Fail, Finish, Goto, kernel, CNIInv, TypeOK, AtWork
  <2> QED BY <2>1, <2>2
<1> QED BY <1>1, <1>2, <1>3 DEF Kept

LEMMA CreateKeeps ==
  ASSUME CNIInv, NEW c \in Container, Create(c)
  PROVE  Kept
<1>1. PairsInv'
  BY RemovalKeepsPairs DEF Create, kernel
<1>2. CallsOK'
  BY Zenon DEF Create, Proceed, Fail, Finish, Goto, kernel, CNIInv, TypeOK, CallsOK, Labels
<1>3. ASSUME NEW d \in Container PROVE AtWork(d)'
  <2>1. CASE d # c
    BY <2>1, AtWorkKept DEF Create, Proceed, Fail, Finish, Goto, kernel, CNIInv, TypeOK
  <2>2. CASE d = c
    BY <2>2 DEF Create, Proceed, Fail, Finish, Goto, kernel, CNIInv, TypeOK, AtWork
  <2> QED BY <2>1, <2>2
<1> QED BY <1>1, <1>2, <1>3 DEF Kept

LEMMA StoreAddKeeps ==
  ASSUME CNIInv, NEW c \in Container, StoreAdd(c)
  PROVE  Kept
<1>1. PairsInv'
  BY RemovalKeepsPairs DEF StoreAdd, kernel
<1>2. CallsOK'
  BY Zenon DEF StoreAdd, Proceed, Goto, kernel, CNIInv, TypeOK, CallsOK, Labels
<1>3. ASSUME NEW d \in Container PROVE AtWork(d)'
  <2>1. CASE d # c
    BY <2>1, AtWorkKept DEF StoreAdd, Proceed, Goto, kernel, CNIInv, TypeOK
  <2>2. CASE d = c
    BY <2>2 DEF StoreAdd, Proceed, Goto, kernel, CNIInv, TypeOK, AtWork
  <2> QED BY <2>1, <2>2
<1> QED BY <1>1, <1>2, <1>3 DEF Kept

LEMMA StoredKeeps ==
  ASSUME CNIInv, NEW c \in Container, Stored(c)
  PROVE  Kept
<1>1. PairsInv'
  BY RemovalKeepsPairs DEF Stored, kernel
<1>2. CallsOK'
  BY Zenon DEF Stored, Fail, Finish, kernel, CNIInv, TypeOK, CallsOK, Labels
<1>3. ASSUME NEW d \in Container PROVE AtWork(d)'
  <2>1. CASE d # c
    BY <2>1, AtWorkKept DEF Stored, Fail, Finish, kernel, CNIInv, TypeOK
  <2>2. CASE d = c
    BY <2>2 DEF Stored, Fail, Finish, kernel, CNIInv, TypeOK, AtWork
  <2> QED BY <2>1, <2>2
<1> QED BY <1>1, <1>2, <1>3 DEF Kept

LEMMA cmdDelKeeps ==
  ASSUME CNIInv, NEW c \in Container, cmdDel(c)
  PROVE  Kept
<1>1. PairsInv'
  BY Zenon, RemovalKeepsPairs DEF cmdDel, kernel
<1>2. CallsOK'
  BY Zenon DEF cmdDel, Proceed, Goto, kernel, CNIInv, TypeOK, CallsOK, Labels
<1>3. ASSUME NEW d \in Container PROVE AtWork(d)'
  <2>1. CASE d # c
    BY Zenon, <2>1, AtWorkKept DEF cmdDel, Proceed, Goto, kernel, CNIInv, TypeOK
  <2>2. CASE d = c
    BY Zenon, <2>2 DEF cmdDel, Proceed, Goto, kernel, CNIInv, TypeOK, AtWork
  <2> QED BY <2>1, <2>2
<1> QED BY <1>1, <1>2, <1>3 DEF Kept

LEMMA DelegateDelKeeps ==
  ASSUME CNIInv, NEW c \in Container, DelegateDel(c)
  PROVE  Kept
<1>1. PairsInv'
  BY Zenon, RemovalKeepsPairs DEF DelegateDel, kernel
<1>2. CallsOK'
  BY Zenon DEF DelegateDel, Goto, kernel, CNIInv, TypeOK, CallsOK, Labels
<1>3. ASSUME NEW d \in Container PROVE AtWork(d)'
  <2>1. CASE d # c
    BY Zenon, <2>1, AtWorkKept DEF DelegateDel, Goto, kernel, CNIInv, TypeOK
  <2>2. CASE d = c
    BY Zenon, <2>2 DEF DelegateDel, Goto, kernel, CNIInv, TypeOK, AtWork
  <2> QED BY <2>1, <2>2
<1> QED BY <1>1, <1>2, <1>3 DEF Kept

LEMMA GetNSKeeps ==
  ASSUME CNIInv, NEW c \in Container, GetNS(c)
  PROVE  Kept
<1>1. PairsInv'
  BY Zenon, RemovalKeepsPairs DEF GetNS, kernel
<1>2. CallsOK'
  BY Zenon DEF GetNS, Proceed, Finish, Goto, kernel, CNIInv, TypeOK, CallsOK, Labels
<1>3. ASSUME NEW d \in Container PROVE AtWork(d)'
  <2>1. CASE d # c
    BY Zenon, <2>1, AtWorkKept DEF GetNS, Proceed, Finish, Goto, kernel, CNIInv, TypeOK
  <2>2. CASE d = c
    BY Zenon, <2>2 DEF GetNS, Proceed, Finish, Goto, kernel, CNIInv, TypeOK, AtWork
  <2> QED BY <2>1, <2>2
<1> QED BY <1>1, <1>2, <1>3 DEF Kept

LEMMA StoreDeleteKeeps ==
  ASSUME CNIInv, NEW c \in Container, StoreDelete(c)
  PROVE  Kept
<1>1. PairsInv'
  BY Zenon, RemovalKeepsPairs DEF StoreDelete, kernel
<1>2. CallsOK'
  BY Zenon DEF StoreDelete, Proceed, Goto, kernel, CNIInv, TypeOK, CallsOK, Labels
<1>3. ASSUME NEW d \in Container PROVE AtWork(d)'
  <2>1. CASE d # c
    BY Zenon, <2>1, AtWorkKept DEF StoreDelete, Proceed, Goto, kernel, CNIInv, TypeOK
  <2>2. CASE d = c
    BY Zenon, <2>2 DEF StoreDelete, Proceed, Goto, kernel, CNIInv, TypeOK, AtWork
  <2> QED BY <2>1, <2>2
<1> QED BY <1>1, <1>2, <1>3 DEF Kept

LEMMA DeletedKeeps ==
  ASSUME CNIInv, NEW c \in Container, Deleted(c)
  PROVE  Kept
<1>1. PairsInv'
  BY RemovalKeepsPairs DEF Deleted, kernel
<1>2. CallsOK'
  BY Zenon DEF Deleted, Finish, kernel, CNIInv, TypeOK, CallsOK, Labels
<1>3. ASSUME NEW d \in Container PROVE AtWork(d)'
  <2>1. CASE d # c
    BY <2>1, AtWorkKept DEF Deleted, Finish, kernel, CNIInv, TypeOK
  <2>2. CASE d = c
    BY <2>2 DEF Deleted, Finish, kernel, CNIInv, TypeOK, AtWork
  <2> QED BY <2>1, <2>2
<1> QED BY <1>1, <1>2, <1>3 DEF Kept

LEMMA KillKeeps ==
  ASSUME CNIInv, NEW c \in Container, Kill(c)
  PROVE  Kept
<1>1. PairsInv'
  BY RemovalKeepsPairs DEF Kill, kernel
<1>2. CallsOK'
  BY Zenon DEF Kill, Finish, kernel, CNIInv, TypeOK, CallsOK, Labels
<1>3. ASSUME NEW d \in Container PROVE AtWork(d)'
  <2>1. CASE d # c
    BY <2>1, AtWorkKept DEF Kill, Finish, kernel, CNIInv, TypeOK
  <2>2. CASE d = c
    BY <2>2 DEF Kill, Finish, kernel, CNIInv, TypeOK, AtWork
  <2> QED BY <2>1, <2>2
<1> QED BY <1>1, <1>2, <1>3 DEF Kept

LEMMA StillKeeps ==
  ASSUME CNIInv, UNCHANGED cni
  PROVE  Kept
BY DEF cni, CNIInv, TypeOK, PairsInv, CallsOK, AtWork, Kept

LEMMA LinkAddKeeps ==
  ASSUME CNIInv, NEW c \in Container, LinkAdd(c)
  PROVE  Kept
<1>0. ip[c] \in Address
  BY DEF LinkAdd, CNIInv, TypeOK
<1>1. CASE UNCHANGED pairs /\ Finish(c, "failed")
  <2>1. PairsInv'
    BY <1>1, RemovalKeepsPairs
  <2>2. CallsOK'
    BY Zenon, <1>1 DEF LinkAdd, Finish, CNIInv, TypeOK, CallsOK, Labels
  <2>3. ASSUME NEW d \in Container PROVE AtWork(d)'
    BY <1>1, AtWorkKept DEF LinkAdd, Finish, CNIInv, TypeOK, AtWork
  <2> QED BY <2>1, <2>2, <2>3 DEF Kept
<1>2. CASE ~ NameTaken(c) /\ Proceed(c, "move")
  <2>0. PICK h \in {HostEnd(c).hw, Other}, k \in {ContainerEnd(c).hw, Other} :
          pairs' = pairs \cup {[owner |-> c, name |-> GenerateForHost(ip[c]), ns |-> Host,
                                dev |-> GenerateTemporaryForContainer(ip[c]),
                                host |-> NewEnd(h, TRUE), container |-> NewEnd(k, FALSE),
                                routed |-> FALSE]}
    BY Zenon, <1>2 DEF LinkAdd, Fail, Finish, Proceed, Goto, CNIInv, TypeOK
  <2> DEFINE new == [owner |-> c, name |-> GenerateForHost(ip[c]), ns |-> Host,
                     dev |-> GenerateTemporaryForContainer(ip[c]),
                     host |-> NewEnd(h, TRUE), container |-> NewEnd(k, FALSE), routed |-> FALSE]
  <2>1. h \in Hardware /\ k \in Hardware
    BY <1>0, Ends1 DEF Hardware
  <2>2. /\ new \in Pair /\ new.name = GenerateForHost(ip[c]) /\ new.owner = c
        /\ new.ns = Host /\ new.container.addr = None
    BY Zenon, <1>0, <2>1, NewEndIsEnd DEF Pair
  <2>3. \A v \in pairs : v.name # new.name
    BY <1>2, <2>2 DEF NameTaken
  <2> HIDE DEF new
  <2>4. PairsInv'
    BY Zenon, <2>0, <2>2, <2>3 DEF new, CNIInv, PairsInv
  <2>5. CallsOK'
    BY Zenon, <1>2 DEF LinkAdd, Proceed, Goto, CNIInv, TypeOK, CallsOK, Labels
  <2>6. ASSUME NEW d \in Container PROVE AtWork(d)'
    <3>1. CASE d # c
      BY Zenon, <1>2, <2>0, <3>1, AtWorkKept DEF LinkAdd, Proceed, Goto, CNIInv, TypeOK
    <3>2. CASE d = c
      <4>1. pc'[c] = "move" /\ ip'[c] = ip[c] /\ new \in pairs'
        BY <1>2, <2>0 DEF LinkAdd, Proceed, Goto, CNIInv, TypeOK, new
      <4> QED BY <2>2, <3>2, <4>1 DEF AtWork, GenerateForHost
    <3> QED BY <3>1, <3>2
  <2> QED BY <2>4, <2>5, <2>6 DEF Kept
<1> QED BY Zenon, <1>1, <1>2 DEF LinkAdd, Fail

(* The steps that replace the pair of their call. *)
LEMMA ReplacingKeeps ==
  ASSUME CNIInv, NEW c \in Container, pc[c] \in {"move", "host", "container"},
         NEW w \in Pair, Replace(PairOf(c), w), w.name = PairOf(c).name, w.owner = c,
         w.ns \in {Host, c}, w.container.addr \in {PairOf(c).container.addr, ip[c]},
         NEW l \in {"host", "container", "store", "idle"}, Goto(c, l),
         outcome' \in {outcome, [outcome EXCEPT ![c] = "failed"]},
         UNCHANGED <<netns, ipam, ip>>
  PROVE  Kept
<1>1. /\ PairOf(c) \in pairs /\ PairOf(c).owner = c /\ ip[c] \in Address
      /\ PairOf(c).name = GenerateForHost(ip[c])
  BY PairOfCall
<1>2. w.container.addr # None => w.name = GenerateForHost(w.container.addr)
  BY <1>1 DEF CNIInv, PairsInv
<1>3. /\ PairsInv'
      /\ \A u \in pairs : \E x \in pairs' : x.owner = u.owner /\ x.name = u.name
  BY <1>1, <1>2, ReplaceKeepsPairs
<1>4. CallsOK'
  <2>1. pc' \in [Container -> Labels]
    BY Zenon DEF Goto, CNIInv, TypeOK, Labels
  <2>2. outcome' \in [Container -> {"none", "added", "failed", "deleted"}]
    BY DEF CNIInv, TypeOK
  <2> QED BY <2>1, <2>2 DEF CNIInv, TypeOK, CallsOK
<1>5. ASSUME NEW d \in Container PROVE AtWork(d)'
  <2>1. CASE d # c
    BY <1>3, <2>1, AtWorkKept DEF Goto, CNIInv, TypeOK
  <2>2. CASE d = c
    <3>1. pc'[c] = l /\ ip'[c] = ip[c] /\ ip[c] # None
      BY <1>1, DatastoreAssumption DEF Goto, CNIInv, TypeOK
    <3>2. \E x \in pairs' : x.owner = c /\ x.name = GenerateForHost(ip[c])
      BY <1>1, <1>3
    <3> QED BY <2>2, <3>1, <3>2 DEF AtWork, GenerateForHost
  <2> QED BY <2>1, <2>2
<1> QED BY Zenon, <1>3, <1>4, <1>5 DEF Kept

(* The steps that end a call, or move it on to the store, and make no pair  *)
(* nor change one.                                                          *)
LEMMA FewerPairsKeeps ==
  ASSUME CNIInv, NEW c \in Container, NEW l \in {"del store", "idle"}, Goto(c, l),
         pairs' \subseteq pairs,
         \A u \in pairs : u.owner # c => u \in pairs',
         outcome' \in {outcome, [outcome EXCEPT ![c] = "failed"]},
         UNCHANGED <<netns, ipam, ip>>
  PROVE  Kept
<1>1. PairsInv'
  BY Zenon, RemovalKeepsPairs
<1>2. CallsOK'
  BY Zenon DEF Goto, CNIInv, TypeOK, CallsOK, Labels
<1>3. ASSUME NEW d \in Container PROVE AtWork(d)'
  <2>1. CASE d # c
    BY Zenon, <2>1, AtWorkKept DEF Goto, CNIInv, TypeOK
  <2>2. CASE d = c
    BY Zenon, <2>2 DEF Goto, AtWork, CNIInv, TypeOK
  <2> QED BY Zenon, <2>1, <2>2
<1> QED BY Zenon, <1>1, <1>2, <1>3 DEF Kept

LEMMA LinkSetNsFdKeeps ==
  ASSUME CNIInv, NEW c \in Container, LinkSetNsFd(c)
  PROVE  Kept
<1>1. CASE UNCHANGED pairs /\ Fail(c)
  BY Zenon, <1>1, FewerPairsKeeps DEF LinkSetNsFd, Fail, Finish, Goto
<1>2. CASE Replace(PairOf(c), [PairOf(c) EXCEPT !.ns = c]) /\ Proceed(c, "host")
  <2> DEFINE w == [PairOf(c) EXCEPT !.ns = c]
  <2>1. /\ w \in Pair /\ w.name = PairOf(c).name /\ w.owner = c /\ w.ns = c
        /\ w.container.addr = PairOf(c).container.addr
    BY PairOfCall DEF LinkSetNsFd, Pair
  <2> HIDE DEF w
  <2>2. Replace(PairOf(c), w)
    BY <1>2 DEF w
  <2> QED BY <1>2, <2>1, <2>2, ReplacingKeeps DEF LinkSetNsFd, Proceed
<1> QED BY <1>1, <1>2 DEF LinkSetNsFd

LEMMA HostSetupKeeps ==
  ASSUME CNIInv, NEW c \in Container, HostSetup(c)
  PROVE  Kept
<1> DEFINE Set(f) == [PairOf(c) EXCEPT !.host = f]
<1>1. /\ PairOf(c) \in Pair /\ PairOf(c).owner = c /\ PairOf(c) \in pairs
      /\ ip[c] \in Address /\ PairOf(c).host \in End
  BY PairOfCall DEF HostSetup, Pair
<1>2. PICK f \in BasicSetupFailed(PairOf(c).host, HostEnd(c), ContainerEnd(c))
                 \cup {BasicSetup(PairOf(c).host, HostEnd(c), ContainerEnd(c))} :
        Replace(PairOf(c), Set(f)) /\ (Proceed(c, "container") \/ Fail(c))
  BY DEF HostSetup
<1>3. f \in End
  BY <1>1, <1>2, Ends1, SetupIsEnd
<1>4. /\ Set(f) \in Pair /\ Set(f).name = PairOf(c).name /\ Set(f).owner = c
      /\ Set(f).ns = PairOf(c).ns /\ Set(f).container = PairOf(c).container
  BY <1>1, <1>3 DEF Pair
<1>5. PairOf(c).ns \in {Host, c}
  BY <1>1 DEF CNIInv, PairsInv
<1> HIDE DEF Set
<1>6. /\ \E l \in {"container", "idle"} : Goto(c, l)
      /\ outcome' \in {outcome, [outcome EXCEPT ![c] = "failed"]}
  BY <1>2 DEF Proceed, Fail, Finish, Goto
<1> QED BY <1>2, <1>4, <1>5, <1>6, ReplacingKeeps DEF HostSetup

LEMMA ContainerSetupKeeps ==
  ASSUME CNIInv, NEW c \in Container, ContainerSetup(c)
  PROVE  Kept
<1> DEFINE Set(f, r) == [[PairOf(c) EXCEPT !.dev = IfName] EXCEPT !.container = f, !.routed = r]
<1>1. /\ PairOf(c) \in Pair /\ PairOf(c).owner = c /\ PairOf(c) \in pairs
      /\ ip[c] \in Address /\ PairOf(c).container \in End
      /\ PairOf(c).routed \in BOOLEAN
  BY Zenon, PairOfCall DEF ContainerSetup, RenameLink, RouteAddAll, Pair
<1>2. CASE UNCHANGED pairs /\ Finish(c, "failed")
  BY Zenon, <1>2, FewerPairsKeeps DEF ContainerSetup, RenameLink, RouteAddAll, Finish, Goto
<1>3. CASE \E f \in BasicSetupFailed(PairOf(c).container, ContainerEnd(c), HostEnd(c))
                    \cup {BasicSetup(PairOf(c).container, ContainerEnd(c), HostEnd(c))},
              r \in BOOLEAN :
             Replace(PairOf(c), Set(f, r)) /\ (Proceed(c, "store") \/ Fail(c))
  <2>1. PICK f \in BasicSetupFailed(PairOf(c).container, ContainerEnd(c), HostEnd(c))
                    \cup {BasicSetup(PairOf(c).container, ContainerEnd(c), HostEnd(c))},
             r \in BOOLEAN :
             Replace(PairOf(c), Set(f, r)) /\ (Proceed(c, "store") \/ Fail(c))
    BY Zenon, <1>3
  <2>2. f \in End /\ f.addr \in {PairOf(c).container.addr, ip[c]}
    BY <1>1, <2>1, Ends1, SetupIsEnd
  <2>3. /\ Set(f, r) \in Pair /\ Set(f, r).name = PairOf(c).name /\ Set(f, r).owner = c
        /\ Set(f, r).ns = PairOf(c).ns /\ Set(f, r).container = f
    BY Zenon, <1>1, <2>1, <2>2 DEF Pair
  <2>4. PairOf(c).ns \in {Host, c}
    BY <1>1 DEF CNIInv, PairsInv
  <2> HIDE DEF Set
  <2>5. /\ \E l \in {"store", "idle"} : Goto(c, l)
        /\ outcome' \in {outcome, [outcome EXCEPT ![c] = "failed"]}
    BY <2>1 DEF Proceed, Fail, Finish, Goto
  <2> QED BY Zenon, <2>1, <2>2, <2>3, <2>4, <2>5, ReplacingKeeps
             DEF ContainerSetup, RenameLink, RouteAddAll
<1>4. ASSUME NEW f
      PROVE  /\ [[PairOf(c) EXCEPT !.dev = IfName] EXCEPT !.container = f] = Set(f, PairOf(c).routed)
             /\ [[PairOf(c) EXCEPT !.dev = IfName] EXCEPT !.container = f, !.routed = TRUE]
                  = Set(f, TRUE)
  BY Zenon, <1>1 DEF Pair
<1> HIDE DEF Set
<1> DEFINE full == BasicSetup(PairOf(c).container, ContainerEnd(c), HostEnd(c))
<1>5. \/ /\ Replace(PairOf(c), [[PairOf(c) EXCEPT !.dev = IfName]
                                 EXCEPT !.container = full, !.routed = TRUE])
         /\ Proceed(c, "store")
      \/ UNCHANGED pairs /\ Finish(c, "failed")
      \/ /\ \E f \in BasicSetupFailed(PairOf(c).container, ContainerEnd(c), HostEnd(c))
                     \cup {full} :
              Replace(PairOf(c), [[PairOf(c) EXCEPT !.dev = IfName] EXCEPT !.container = f])
         /\ Fail(c)
  BY Zenon DEF ContainerSetup, RenameLink, RouteAddAll, Fail
<1>6. CASE /\ Replace(PairOf(c), [[PairOf(c) EXCEPT !.dev = IfName]
                                  EXCEPT !.container = full, !.routed = TRUE])
           /\ Proceed(c, "store")
  <2>1. Replace(PairOf(c), Set(full, TRUE))
    BY Zenon, <1>4, <1>6
  <2> QED BY Zenon, <1>3, <1>6, <2>1
<1>7. CASE /\ \E f \in BasicSetupFailed(PairOf(c).container, ContainerEnd(c), HostEnd(c))
                       \cup {full} :
                Replace(PairOf(c), [[PairOf(c) EXCEPT !.dev = IfName] EXCEPT !.container = f])
           /\ Fail(c)
  <2>1. PICK f \in BasicSetupFailed(PairOf(c).container, ContainerEnd(c), HostEnd(c))
                  \cup {full} :
               Replace(PairOf(c), [[PairOf(c) EXCEPT !.dev = IfName] EXCEPT !.container = f])
    BY Zenon, <1>7
  <2>2. Replace(PairOf(c), Set(f, PairOf(c).routed))
    BY Zenon, <1>4, <2>1
  <2> QED BY <1>1, <1>3, <1>7, <2>1, <2>2
<1> QED BY Zenon, <1>2, <1>5, <1>6, <1>7

LEMMA TeardownKeeps ==
  ASSUME CNIInv, NEW c \in Container, Teardown(c)
  PROVE  Kept
<1>1. ASSUME NEW u \in pairs, u.owner # c PROVE u.ns # c
  BY <1>1, CNIAssumption DEF CNIInv, PairsInv
<1>2. /\ pairs' \subseteq pairs
      /\ \A u \in pairs : u.owner # c => u \in pairs'
  BY Zenon, <1>1 DEF Teardown, DeleteLinkByName
<1>3. /\ \E l \in {"del store", "idle"} : Goto(c, l)
      /\ outcome' \in {outcome, [outcome EXCEPT ![c] = "failed"]}
  BY Zenon DEF Teardown, Proceed, Fail, Finish, Goto
<1> QED BY Zenon, <1>2, <1>3, FewerPairsKeeps DEF Teardown

LEMMA RemoveNSKeeps ==
  ASSUME CNIInv, NEW c \in Container, RemoveNS(c)
  PROVE  Kept
<1>1. ASSUME NEW u \in pairs, u.owner # c PROVE u.ns # c
  BY <1>1, CNIAssumption DEF CNIInv, PairsInv
<1>2. PairsInv'
  BY Zenon, RemovalKeepsPairs DEF RemoveNS
<1>3. CallsOK'
  BY Zenon DEF RemoveNS, CNIInv, TypeOK, CallsOK
<1>4. ASSUME NEW d \in Container PROVE AtWork(d)'
  <2>1. CASE d # c
    BY Zenon, <1>1, <2>1, AtWorkKept DEF RemoveNS
  <2>2. CASE d = c
    BY Zenon, <2>2 DEF RemoveNS, AtWork, CNIInv, TypeOK
  <2> QED BY <2>1, <2>2
<1> QED BY <1>2, <1>3, <1>4 DEF Kept

LEMMA NextKeeps ==
  ASSUME CNIInv, Next
  PROVE  Kept
<1>1. CASE \E c \in Container : Run(c)
  <2>1. PICK c \in Container : Run(c)
    BY <1>1
  <2>2. CASE \/ DelegateAdd(c) \/ Create(c) \/ LinkAdd(c) \/ LinkSetNsFd(c)
             \/ HostSetup(c) \/ ContainerSetup(c) \/ StoreAdd(c) \/ Stored(c)
    BY <2>2, DelegateAddKeeps, CreateKeeps, LinkAddKeeps, LinkSetNsFdKeeps,
       HostSetupKeeps, ContainerSetupKeeps, StoreAddKeeps, StoredKeeps
  <2>3. CASE \/ DelegateDel(c) \/ GetNS(c) \/ Teardown(c) \/ StoreDelete(c) \/ Deleted(c)
    BY <2>3, DelegateDelKeeps, GetNSKeeps, TeardownKeeps, StoreDeleteKeeps, DeletedKeeps
  <2>4. CASE InStore(c)
    BY <2>4, StillKeeps DEF InStore
  <2> QED BY <2>1, <2>2, <2>3, <2>4 DEF Run
<1>2. CASE \E c \in Container : cmdAdd(c) \/ cmdDel(c) \/ Kill(c) \/ RemoveNS(c)
  BY <1>2, cmdAddKeeps, cmdDelKeeps, KillKeeps, RemoveNSKeeps
<1>3. CASE DaemonReads \/ InStore(Daemon)
  BY <1>3, StillKeeps DEF DaemonReads, InStore
<1> QED BY <1>1, <1>2, <1>3 DEF Next

LEMMA CNIInitially == Init => IInv /\ CNIInv
<1> SUFFICES ASSUME Init PROVE IInv /\ CNIInv
  OBVIOUS
<1>1. IInv
  BY Initially DEF Init
<1>2. CallsOK /\ PairsInv /\ \A c \in Container : AtWork(c)
  BY DEF Init, CallsOK, PairsInv, AtWork, Labels
<1> QED BY <1>1, <1>2, TypeOKParts DEF CNIInv, IInv

(* silk-cni's steps keep the store's invariant and its own. *)
LEMMA CNIInvariance == Spec => [](IInv /\ CNIInv)
<1>1. ASSUME IInv /\ CNIInv, [Next]_vars PROVE (IInv /\ CNIInv)'
  <2>1. StoreNext \/ UNCHANGED store
    BY <1>1, NextUsesStore DEF CNIInv, vars
  <2>2. IInv'
    BY <1>1, <2>1, StoreStep
  <2>3. Kept
    BY <1>1, NextKeeps, StillKeeps DEF vars
  <2> QED BY <2>2, <2>3, TypeOKPartsPrime DEF Kept, CNIInv, IInv
<1> QED BY CNIInitially, <1>1, PTL DEF Spec

(* Every step of silk-cni and of the daemon that touches the store is one   *)
(* of the store's: what holds of StoreSpec holds of them.                   *)
THEOREM CNIUsesDatastore == Spec => StoreSpec
<1>1. Init => StoreInit
  BY DEF Init
<1>2. ASSUME IInv /\ CNIInv, [Next]_vars PROVE [StoreNext]_store
  BY <1>2, NextUsesStore DEF CNIInv, vars
<1> QED BY CNIInvariance, <1>1, <1>2, PTL DEF Spec, StoreSpec

(* To concurrent ADDs and DELs and to the daemon the datastore is atomic.   *)
THEOREM CNIStoreIsAtomic == Spec => ImplementsPromise
BY CNIUsesDatastore, DatastoreIsAtomic, PTL

(* The variables of silk-cni keep their types, and a call has its address   *)
(* and its pair wherever it uses them.                                      *)
THEOREM CNITypeCorrect == Spec => []TypeOK
BY CNIInvariance, PTL DEF CNIInv

(* No two devices carry the same address, whatever calls fail or are killed *)
(* and whatever host-local releases too early.                              *)
THEOREM AddressesUnique == Spec => []UniqueAddresses
<1>1. CNIInv => UniqueAddresses
  BY DEF CNIInv, PairsInv, UniqueAddresses, GenerateForHost, generate
<1> QED BY CNIInvariance, <1>1, PTL

-------------------------------------------------------------------------------
(* AddedIsStored.  A process changes only its own entry, and from its       *)
(* truncation on, the entry of a container being added is its address.      *)

Entered(c) == lost \/ content[c] = ip[c]

CallsFit ==
  /\ call[Daemon].op = "read"
  /\ file = Torn => lost
  /\ \A c \in Container :
       /\ step[c] # "idle" => pc[c] \in {"stored", "deleted"}
       /\ pc[c] = "stored" => call[c] = [op |-> "add", handle |-> c, ip |-> ip[c]]
       /\ call[c].op # "read" => call[c].handle = c

Present ==
  \A c \in Container :
    /\ pc[c] = "stored" /\ step[c] \in {"encode", "done"} => Entered(c)
    /\ pc[c] = "idle" /\ outcome[c] = "added" => Entered(c)

StoredInv == CallsFit /\ Present

(* What a step of the store does to what it contains. *)
LEMMA AccessContent ==
  ASSUME IInv, NEW p \in Proc, Access(p)
  PROVE  \/ /\ content' = content /\ lost' = lost
            /\ (step'[p] \in {"encode", "done"} => step[p] \in {"decode", "encode"})
         \/ lost'
         \/ /\ step[p] = "truncate" /\ step'[p] = "encode" /\ lost' = lost
            /\ content' = [content EXCEPT ![call[p].handle] = call[p].ip]
<1>1. CASE Open(p)
  BY <1>1, PromiseOpen DEF Open, pvars, IInv, StoreTypeOK
<1>2. CASE Decode(p)
  <2>1. holder = p /\ content = file
    BY <1>2 DEF Decode, IInv, LockInv, Locked, content
  <2>2. content' = content
    BY <1>2, <2>1, DatastoreAssumption DEF Decode, Ends, content, IInv, StoreTypeOK
  <2> QED BY <1>2, <2>2 DEF Decode
<1>3. CASE Truncate(p)
  <2>1. holder = p /\ content = file /\ file # Torn /\ call[p].op # "read"
    BY <1>3 DEF Truncate, IInv, LockInv, PoolInv, Locked, content
  <2>2. CASE step' = [step EXCEPT ![p] = "encode"] /\ UNCHANGED holder
    <3>1. content' = pool[p] /\ step'[p] = "encode"
      BY <1>3, <2>1, <2>2, DatastoreAssumption DEF Truncate, content, IInv, StoreTypeOK
    <3>2. content' = [content EXCEPT ![call[p].handle] = call[p].ip]
      BY <1>3, <2>1, <3>1 DEF Truncate, IInv, PoolInv, Changed
    <3> QED BY <1>3, <3>1, <3>2 DEF Truncate
  <2>3. CASE Ends(p, "failed") /\ UNCHANGED file
    BY <1>3, <2>1, <2>3, DatastoreAssumption DEF Truncate, Ends, content, IInv, StoreTypeOK
  <2> QED BY <1>3, <2>2, <2>3 DEF Truncate
<1>4. CASE Encode(p)
  <2>1. content = pool[p]
    BY <1>4, DatastoreAssumption DEF Encode, IInv, LockInv, Locked, content
  <2>2. content' = file'
    BY <1>4 DEF Encode, Ends, content
  <2> QED BY <1>4, <2>1, <2>2 DEF Encode
<1> QED BY <1>1, <1>2, <1>3, <1>4 DEF Access

(* A step of the store leaves the calls alone. *)
LEMMA AccessCalls ==
  ASSUME IInv, CallsFit, NEW p \in Proc, Access(p), UNCHANGED cni
  PROVE  /\ CallsFit' /\ call' = call /\ (lost => lost')
         /\ \A q \in Proc : q # p => step'[q] = step[q]
<1>1. call' = call /\ (lost => lost') /\ step[p] # "idle"
      /\ \A q \in Proc : q # p => step'[q] = step[q]
  BY DEF Access, Open, Decode, Truncate, Encode, Ends, IInv, StoreTypeOK
<1>2. file' = Torn => lost'
  BY EmptyContents, DatastoreAssumption
     DEF Access, Open, Decode, Truncate, Encode, Ends, IInv, StoreTypeOK, CallsFit
<1>3. ASSUME NEW c \in Container, step'[c] # "idle" PROVE pc'[c] \in {"stored", "deleted"}
  BY Zenon, <1>1, <1>3, ContainersAreProcs DEF CallsFit, cni
<1> QED BY <1>1, <1>2, <1>3 DEF CallsFit, cni

LEMMA InStoreStored ==
  ASSUME IInv, CNIInv, StoredInv, NEW p \in Proc, InStore(p)
  PROVE  StoredInv'
<1>1. /\ CallsFit' /\ call' = call /\ (lost => lost')
      /\ \A q \in Proc : q # p => step'[q] = step[q]
  BY AccessCalls DEF InStore, StoredInv
<1>2. ASSUME NEW c \in Container, Entered(c) PROVE Entered(c)' \/ c = p
  <2>1. CASE step[p] = "truncate" /\ content' = [content EXCEPT ![call[p].handle] = call[p].ip]
    <3>1. call[p].op # "read"
      BY <2>1 DEF IInv, PoolInv
    <3>2. p \in Container /\ call[p].handle = p
      BY Zenon, <3>1, CNIAssumption DEF StoredInv, CallsFit
    <3>3. c # p => content'[c] = content[c] \/ lost
      <4>1. file # Torn /\ content = file
        BY <2>1 DEF IInv, LockInv, PoolInv, Locked, content
      <4>2. content \in Contents
        BY <4>1 DEF IInv, StoreTypeOK
      <4> QED BY <2>1, <3>2, <4>2, ContainersAreProcs DEF Contents
    <3> QED BY <1>1, <1>2, <3>3 DEF InStore, cni, Entered
  <2>2. CASE content' = content \/ lost'
    BY <1>1, <1>2, <2>2 DEF InStore, cni, Entered
  <2> QED BY <2>1, <2>2, AccessContent DEF InStore
<1>3. ASSUME NEW c \in Container, pc'[c] = "stored", step'[c] \in {"encode", "done"}
      PROVE  Entered(c)'
  <2>1. CASE c # p
    BY <1>1, <1>2, <1>3, <2>1, ContainersAreProcs DEF InStore, cni, StoredInv, Present
  <2>2. CASE c = p
    <3>0. pc[p] = "stored" /\ call[p] = [op |-> "add", handle |-> p, ip |-> ip[p]]
      BY <1>3, <2>2 DEF InStore, cni, StoredInv, CallsFit
    <3>1. CASE lost'
      BY <3>1 DEF Entered
    <3>2. CASE step[p] = "truncate" /\ content' = [content EXCEPT ![call[p].handle] = call[p].ip]
      <4>1. content \in Contents
        BY <3>2 DEF IInv, LockInv, PoolInv, Locked, content, StoreTypeOK
      <4> QED BY <2>2, <3>0, <3>2, <4>1, ContainersAreProcs DEF Contents, Entered, InStore, cni
    <3>3. CASE content' = content /\ lost' = lost
               /\ (step'[p] \in {"encode", "done"} => step[p] \in {"decode", "encode"})
      <4>1. step[p] = "encode"
        BY <1>3, <2>2, <3>0, <3>3
           DEF InStore, Access, Open, Decode, Truncate, Encode, Ends, IInv, StoreTypeOK
      <4> QED BY <2>2, <3>0, <3>3, <4>1 DEF StoredInv, Present, Entered, InStore, cni
    <3> QED BY Zenon, <3>1, <3>2, <3>3, AccessContent DEF InStore
  <2> QED BY <2>1, <2>2
<1>4. ASSUME NEW c \in Container, pc'[c] = "idle", outcome'[c] = "added"
      PROVE  Entered(c)'
  <2>1. pc[c] = "idle" /\ outcome[c] = "added"
    BY <1>4 DEF InStore, cni
  <2>2. step[p] # "idle"
    BY DEF InStore, Access, Open, Decode, Truncate, Encode
  <2>3. c # p
    BY Zenon, <2>1, <2>2 DEF StoredInv, CallsFit
  <2> QED BY <1>2, <2>1, <2>3 DEF StoredInv, Present
<1> QED BY <1>1, <1>3, <1>4 DEF StoredInv, Present

(* Steps of c's call that do not use the store and do not end an ADD well.  *)
LEMMA QuietStored ==
  ASSUME CNIInv, StoredInv, UNCHANGED store, NEW c \in Container,
         pc[c] \notin {"stored", "deleted"}, NEW l \in Labels \ {"stored"}, Goto(c, l),
         l = "idle" => outcome'[c] # "added",
         \A d \in Container : d # c => ip'[d] = ip[d] /\ outcome'[d] = outcome[d]
  PROVE  StoredInv'
<1>1. \A d \in Container : pc'[d] = IF d = c THEN l ELSE pc[d]
  BY DEF Goto, CNIInv, TypeOK
<1>2. step[c] = "idle"
  BY Zenon DEF StoredInv, CallsFit
<1>3. content' = content
  BY DEF store, content
<1>4. CallsFit'
  BY Zenon, <1>1, <1>2 DEF store, StoredInv, CallsFit
<1>5. ASSUME NEW d \in Container, d # c, Entered(d) PROVE Entered(d)'
  BY <1>3, <1>5 DEF Entered, store
<1>6. Present'
  BY <1>1, <1>2, <1>5 DEF store, StoredInv, Present
<1> QED BY <1>4, <1>6 DEF StoredInv

LEMMA AddStored ==
  ASSUME CNIInv, StoredInv, NEW c \in Container,
         \/ cmdAdd(c) \/ DelegateAdd(c) \/ Create(c) \/ LinkAdd(c) \/ LinkSetNsFd(c)
         \/ HostSetup(c) \/ ContainerSetup(c)
  PROVE  StoredInv'
<1>1. UNCHANGED store /\ pc[c] \notin {"stored", "deleted"}
  BY Zenon
     DEF cmdAdd, getNetworkInfo, DelegateAdd, Create, LinkAdd, LinkSetNsFd, HostSetup, ContainerSetup
<1>2. \A d \in Container : d # c => ip'[d] = ip[d]
  BY Zenon
     DEF cmdAdd, getNetworkInfo, DelegateAdd, Create, LinkAdd, LinkSetNsFd, HostSetup, ContainerSetup,
         CNIInv, TypeOK
<1>3. \E l \in {"ipam", "config", "link", "move", "host", "container", "store"} :
         (Goto(c, l) /\ UNCHANGED outcome) \/ Finish(c, "failed")
  BY Zenon
     DEF cmdAdd, getNetworkInfo, DelegateAdd, Create, LinkAdd, LinkSetNsFd, HostSetup, ContainerSetup,
         Proceed, Fail
<1>4. PICK l \in {"ipam", "config", "link", "move", "host", "container", "store"} :
         (Goto(c, l) /\ UNCHANGED outcome) \/ Finish(c, "failed")
  BY <1>3
<1>5. /\ \A d \in Container : d # c => outcome'[d] = outcome[d]
      /\ Goto(c, l) \/ (Goto(c, "idle") /\ outcome'[c] = "failed")
  BY <1>4 DEF Finish, Goto, CNIInv, TypeOK
<1> QED BY Zenon, <1>1, <1>2, <1>5, QuietStored DEF Labels

LEMMA DelStored ==
  ASSUME CNIInv, StoredInv, NEW c \in Container,
         cmdDel(c) \/ DelegateDel(c) \/ GetNS(c) \/ Teardown(c)
  PROVE  StoredInv'
<1>1. UNCHANGED store /\ pc[c] \notin {"stored", "deleted"}
  BY Zenon DEF cmdDel, DelegateDel, GetNS, Teardown
<1>2. \A d \in Container : d # c => ip'[d] = ip[d]
  BY Zenon DEF cmdDel, DelegateDel, GetNS, Teardown, CNIInv, TypeOK
<1>3. \E l \in {"del ipam", "del ns", "del link", "del store"} :
         \/ Goto(c, l) /\ UNCHANGED outcome
         \/ Finish(c, "failed") \/ Finish(c, "deleted")
  BY Zenon DEF cmdDel, DelegateDel, GetNS, Teardown, Fail, Proceed
<1>4. PICK l \in {"del ipam", "del ns", "del link", "del store"} :
         \/ Goto(c, l) /\ UNCHANGED outcome
         \/ Finish(c, "failed") \/ Finish(c, "deleted")
  BY Zenon, <1>3
<1>5. /\ \A d \in Container : d # c => outcome'[d] = outcome[d]
      /\ Goto(c, l) \/ (Goto(c, "idle") /\ outcome'[c] # "added")
  BY Zenon, <1>4 DEF Finish, Goto, CNIInv, TypeOK
<1> QED BY Zenon, <1>1, <1>2, <1>5, QuietStored DEF Labels

(* The beginning of a call of the store. *)
LEMMA BeginStored ==
  ASSUME IInv, CNIInv, StoredInv, NEW c \in Container, StoreAdd(c) \/ StoreDelete(c)
  PROVE  StoredInv'
<1> DEFINE k == IF StoreAdd(c) THEN [op |-> "add", handle |-> c, ip |-> ip[c]]
                ELSE [op |-> "delete", handle |-> c, ip |-> None]
<1>1. k \in Calls /\ k.op # "read" /\ k.handle = c
      /\ (StoreAdd(c) => k = [op |-> "add", handle |-> c, ip |-> ip[c]])
  BY ContainersAreProcs DEF Calls, CNIInv, TypeOK
<1>2. Call(c, k)
  BY Zenon DEF StoreAdd, StoreDelete, Add, Delete
<1> HIDE DEF k
<1>3. UNCHANGED <<content, lost, file>>
  BY Zenon, <1>1, <1>2, PromiseCall, ContainersAreProcs DEF pvars, Call
<1>4. /\ call' = [call EXCEPT ![c] = k] /\ step' = [step EXCEPT ![c] = "open"]
      /\ UNCHANGED <<ip, outcome>>
  BY Zenon, <1>2 DEF Call, StoreAdd, StoreDelete, Proceed
<1>5. /\ pc' = [pc EXCEPT ![c] = IF StoreAdd(c) THEN "stored" ELSE "deleted"]
  BY Zenon DEF StoreAdd, StoreDelete, Proceed, Goto
<1>6. CallsFit'
  BY Zenon, <1>1, <1>3, <1>4, <1>5, CNIAssumption
     DEF StoredInv, CallsFit, IInv, StoreTypeOK, CNIInv, TypeOK
<1>7. Present'
  BY <1>3, <1>4, <1>5, CNIAssumption
     DEF StoredInv, Present, Entered, IInv, StoreTypeOK, CNIInv, TypeOK
<1> QED BY <1>6, <1>7 DEF StoredInv

(* Its end. *)
LEMMA EndStored ==
  ASSUME IInv, CNIInv, StoredInv, NEW c \in Container, Stored(c) \/ Deleted(c)
  PROVE  StoredInv'
<1>1. Return(c)
  BY DEF Stored, Deleted
<1>2. UNCHANGED <<content, lost, file>>
  BY <1>1, PromiseReturn, ContainersAreProcs DEF Promise!Forget, Return
<1>3. /\ call' = [call EXCEPT ![c] = NoCall] /\ step' = [step EXCEPT ![c] = "idle"]
      /\ pc' = [pc EXCEPT ![c] = "idle"] /\ UNCHANGED ip
  BY <1>1 DEF Return, Forgotten, Stored, Deleted, Finish, Fail
<1>4. CallsFit'
  BY Zenon, <1>2, <1>3, CNIAssumption, NoCallCalls
     DEF StoredInv, CallsFit, IInv, StoreTypeOK, CNIInv, TypeOK
<1>5. /\ \A d \in Container : d # c => outcome'[d] = outcome[d]
      /\ outcome'[c] = "added" => pc[c] = "stored" /\ step[c] = "done"
  <2>1. outcome \in [Container -> {"none", "added", "failed", "deleted"}]
    BY DEF CNIInv, TypeOK
  <2>2. \/ Finish(c, "added") /\ pc[c] = "stored" /\ step[c] = "done"
        \/ Finish(c, "failed") \/ Finish(c, "deleted")
    BY Zenon DEF Stored, Deleted, Fail
  <2> QED BY <2>1, <2>2 DEF Finish
<1>6. Present'
  <2>1. /\ pc'[c] = "idle"
        /\ \A d \in Container : d # c => pc'[d] = pc[d] /\ step'[d] = step[d]
    BY <1>3, ContainersAreProcs DEF IInv, StoreTypeOK, CNIInv, TypeOK
  <2>2. \A d \in Container : Entered(d) => Entered(d)'
    BY <1>2, <1>3 DEF Entered
  <2> QED BY <1>5, <2>1, <2>2 DEF StoredInv, Present
<1> QED BY <1>4, <1>6 DEF StoredInv

LEMMA KillStored ==
  ASSUME IInv, CNIInv, StoredInv, NEW c \in Container, Kill(c)
  PROVE  StoredInv'
<1>1. Die(c) /\ c \in Proc
  BY ContainersAreProcs DEF Kill
<1>2. (content' = content \/ lost') /\ (lost => lost') /\ file' = file
  <2>1. CASE step[c] = "encode"
    BY Zenon, <1>1, <2>1 DEF Die
  <2>2. CASE step[c] # "encode"
    BY <1>1, <2>2, DatastoreAssumption
       DEF Die, Forgotten, content, IInv, StoreTypeOK, LockInv, Locked
  <2> QED BY <1>1, <2>1, <2>2 DEF Die
<1>3. /\ call' = [call EXCEPT ![c] = NoCall] /\ step' = [step EXCEPT ![c] = "idle"]
      /\ pc' = [pc EXCEPT ![c] = "idle"] /\ UNCHANGED ip
      /\ outcome' = [outcome EXCEPT ![c] = "failed"]
  BY <1>1 DEF Kill, Die, Forgotten, Finish
<1>4. CallsFit'
  BY <1>2, <1>3, CNIAssumption, NoCallCalls
     DEF StoredInv, CallsFit, IInv, StoreTypeOK, CNIInv, TypeOK
<1>5. Present'
  BY <1>2, <1>3, CNIAssumption
     DEF StoredInv, Present, Entered, IInv, StoreTypeOK, CNIInv, TypeOK
<1> QED BY <1>4, <1>5 DEF StoredInv

LEMMA DaemonStored ==
  ASSUME IInv, CNIInv, StoredInv, DaemonReads
  PROVE  StoredInv'
<1>0. Daemon \in Proc /\ Daemon \notin Container /\ UNCHANGED cni
  BY CNIAssumption DEF DaemonReads
<1>1. UNCHANGED <<content, lost, file>>
  BY <1>0, PromiseCall, PromiseReturn, NoCallCalls
     DEF DaemonReads, ReadAll, Call, Return, pvars, Promise!Forget
<1>2. /\ call'[Daemon] = NoCall
      /\ \A c \in Container : call'[c] = call[c] /\ step'[c] = step[c]
  BY <1>0, CNIAssumption DEF DaemonReads, ReadAll, Call, Return, Forgotten, IInv, StoreTypeOK
<1> QED BY <1>0, <1>1, <1>2, NoCallCalls DEF StoredInv, CallsFit, Present, Entered, cni

LEMMA UnchangedStored ==
  ASSUME StoredInv, UNCHANGED <<store, pc, ip, outcome>>
  PROVE  StoredInv'
BY DEF StoredInv, CallsFit, Present, Entered, store, content

LEMMA NextStored ==
  ASSUME IInv, CNIInv, StoredInv, Next
  PROVE  StoredInv'
<1>1. CASE \E c \in Container : Run(c)
  BY <1>1, AddStored, DelStored, BeginStored, EndStored, InStoreStored, ContainersAreProcs
     DEF Run
<1>2. CASE \E c \in Container : cmdAdd(c) \/ cmdDel(c) \/ Kill(c) \/ RemoveNS(c)
  BY Zenon, <1>2, AddStored, DelStored, KillStored, UnchangedStored DEF RemoveNS
<1>3. CASE DaemonReads \/ InStore(Daemon)
  BY <1>3, DaemonStored, InStoreStored, ContainersAreProcs
<1> QED BY <1>1, <1>2, <1>3 DEF Next

LEMMA StoredInvariance == Spec => []StoredInv
<1>1. Init => StoredInv
  BY DatastoreAssumption, EmptyContents, ContainersAreProcs, NoCallCalls
     DEF Init, StoreInit, StoredInv, CallsFit, Present
<1>2. ASSUME IInv /\ CNIInv, StoredInv, [Next]_vars PROVE StoredInv'
  BY <1>2, NextStored, UnchangedStored DEF vars, cni
<1> QED BY CNIInvariance, <1>1, <1>2, PTL DEF Spec

(* An ADD that succeeded is in the datastore with its address, unless a     *)
(* write was cut short: no other container's ADD or DEL removes it.         *)
THEOREM AddedContainersStored == Spec => []AddedIsStored
<1>1. StoredInv => AddedIsStored
  BY Zenon DEF StoredInv, Present, Entered, AddedIsStored
<1> QED BY StoredInvariance, <1>1, PTL
====================================================================================
