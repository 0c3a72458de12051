---------------------------- MODULE TimeoutHandler ----------------------------
(***************************************************************************)
(* The TimeoutHandler that a program's systems, transfers and callback     *)
(* thread share.  The cookie of an entry is the address of its Timeout,    *)
(* which is free again as soon as the entry is erased; whoever added the   *)
(* entry keeps the cookie.  Time is left out: any entry may have expired.  *)
(***************************************************************************)
EXTENDS FiniteSets

CONSTANTS
  Owners,     \* who adds timeouts
  Addresses,  \* where a Timeout may be allocated
  Nobody, Null

ASSUME TimeoutAssumption == Nobody \notin Owners /\ Null \notin Addresses

VARIABLES
  timeouts,   \* _timeouts: whose entry is at each address
  cookie,     \* the cookie each owner keeps
  calling,    \* whose callback run_once() is calling
  reused      \* history: an entry was put where a cookie of another owner points

timerVars == <<timeouts, cookie, calling, reused>>

TimersOK ==
  /\ timeouts \in [Addresses -> Owners \cup {Nobody}]
  /\ cookie \in [Owners -> Addresses \cup {Null}]
  /\ calling \in Owners \cup {Nobody}
  /\ reused \in BOOLEAN

TimersInit ==
  /\ timeouts = [a \in Addresses |-> Nobody]
  /\ cookie = [o \in Owners |-> Null]
  /\ calling = Nobody
  /\ reused = FALSE

HasTimeout(o) == \E a \in Addresses : timeouts[a] = o

\* run_once() has erased the entry and will call, or calls, its callback.
Watched(o) == HasTimeout(o) \/ calling = o

\* Where new Timeout may be: at a free address that a cookie points to, or at
\* another one, which are all alike.
PointedTo(a) == \E p \in Owners : cookie[p] = a
Free == {a \in Addresses : timeouts[a] = Nobody}
Alike == {a \in Free : ~PointedTo(a)}
Places == {a \in Free : PointedTo(a) \/ a = CHOOSE b \in Alike : TRUE}

\* add(): the new cookie is written over the old one.
Add(o) ==
  \E a \in Places :
    /\ timeouts' = [timeouts EXCEPT ![a] = o]
    /\ cookie' = [cookie EXCEPT ![o] = a]
    /\ reused' = (reused \/ \E p \in Owners \ {o} : cookie[p] = a)

\* Bug variant: the first entry found goes.
RemoveAny(o) ==
  IF \E a \in Addresses : timeouts[a] # Nobody
  THEN LET a == CHOOSE b \in Addresses : timeouts[b] # Nobody
       IN timeouts' = [timeouts EXCEPT ![a] = Nobody]
  ELSE UNCHANGED timeouts

\* remove(): what is at the cookie's address goes, whoever added it.
Remove(o) ==
  timeouts' = [a \in Addresses |-> IF a = cookie[o] THEN Nobody ELSE timeouts[a]]

\* run_once(): erases an expired entry, unlocks and calls.
Expire(a) ==
  /\ timeouts[a] # Nobody
  /\ calling = Nobody
  /\ timeouts' = [timeouts EXCEPT ![a] = Nobody]
  /\ calling' = timeouts[a]
  /\ UNCHANGED <<cookie, reused>>
=============================================================================
