----------------------------- MODULE DurableMap -----------------------------
(***************************************************************************)
(* What a checkpoint promises its callers: a durable map from functions to *)
(* their latest result.  A session that opens it sees exactly the map; a   *)
(* put that returned stays; a put cut short by a crash happened entirely   *)
(* or not at all; opening never fails unless the map belongs to another    *)
(* configuration.                                                          *)
(***************************************************************************)
CONSTANTS Functions, Configs, Results, NoResult, NoOwner

VARIABLES
  owner,    \* the configuration the map was created for, or NoOwner
  store,    \* the durable map
  open,     \* is a session using the map?
  view      \* what that session sees

vars == <<owner, store, open, view>>

Nothing == [f \in Functions |-> NoResult]

Init ==
  /\ owner = NoOwner
  /\ store = Nothing
  /\ open = FALSE
  /\ view = Nothing

Open(c) ==
  /\ ~open
  /\ owner \in {NoOwner, c}
  /\ owner' = c
  /\ open' = TRUE
  /\ view' = store
  /\ UNCHANGED store

Put(f, r) ==
  /\ open
  /\ store' = [store EXCEPT ![f] = r]
  /\ view' = store'
  /\ UNCHANGED <<owner, open>>

Close ==
  /\ open
  /\ open' = FALSE
  /\ view' = Nothing
  /\ UNCHANGED <<owner, store>>

CrashInOpen(c) ==
  /\ ~open
  /\ owner = NoOwner
  /\ owner' \in {NoOwner, c}
  /\ UNCHANGED <<store, open, view>>

CrashInPut(f, r) ==
  /\ open
  /\ store' \in {store, [store EXCEPT ![f] = r]}
  /\ open' = FALSE
  /\ view' = Nothing
  /\ UNCHANGED owner

Next ==
  \/ \E c \in Configs : Open(c) \/ CrashInOpen(c)
  \/ \E f \in Functions, r \in Results : Put(f, r) \/ CrashInPut(f, r)
  \/ Close

Spec == Init /\ [][Next]_vars
=============================================================================
