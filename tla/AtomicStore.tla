------------------------------- MODULE AtomicStore -------------------------------
(***************************************************************************)
(* What the datastore promises its callers: a map from handles to addresses *)
(* that each Add and Delete changes at one entry and in one step, and each  *)
(* ReadAll returns as it is.  The one thing it may do besides is to lose    *)
(* everything, and become empty or unreadable.                             *)
(***************************************************************************)
CONSTANTS Proc, Handle, Address, None, Torn

VARIABLES
  content,      \* the map, or Torn when it cannot be read any more
  got,          \* for each process, what its ReadAll returned, or None
  lost          \* whether anything was ever lost

Empty == [h \in Handle |-> None]

Init == content = Empty /\ got = [p \in Proc |-> None] /\ lost = FALSE

Write(h, a) ==
  /\ content # Torn
  /\ content' = [content EXCEPT ![h] = a]
  /\ UNCHANGED <<got, lost>>

Read(p) ==
  /\ content # Torn
  /\ got' = [got EXCEPT ![p] = content]
  /\ UNCHANGED <<content, lost>>

Forget(p) ==
  /\ got' = [got EXCEPT ![p] = None]
  /\ UNCHANGED <<content, lost>>

Lose ==
  /\ content' \in {Empty, Torn} /\ lost' = TRUE
  /\ UNCHANGED got

Next ==
  \/ \E h \in Handle, a \in Address \cup {None} : Write(h, a)
  \/ \E p \in Proc : Read(p) \/ Forget(p)
  \/ Lose

Spec == Init /\ [][Next]_<<content, got, lost>>
==================================================================================
