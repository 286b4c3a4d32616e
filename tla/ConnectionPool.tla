--------------------------- MODULE ConnectionPool ---------------------------
(***************************************************************************)
(* The threads that serve requests and the pool of database sessions they  *)
(* lease from (src/src/main.cpp, src/src/handler.hpp, src/src/routes.hpp). *)
(*                                                                         *)
(* soci::session db(db_pool) leases the first free session of the pool and *)
(* blocks while there is none; its destructor gives the session back when  *)
(* the route's function returns or throws.  A route constructs it after    *)
(* the checks it can do without the database, and never a second one; the  *)
(* answer is sent after the function has been left.                        *)
(***************************************************************************)
EXTENDS Naturals, FiniteSets

CONSTANTS Thread,   \* the threads restinio runs request handlers on
          PoolSize  \* sessions of the pool

ASSUME PoolAssumption == IsFiniteSet(Thread) /\ PoolSize \in Nat

VARIABLES free,  \* free[s]: is session s of the pool free
          pc,    \* where the thread is
          db,    \* the session it has leased, 0 for none
          resp   \* the answer it is about to send

vars == <<free, pc, db, resp>>

Slot == 1..PoolSize

Label == {"idle", "handler", "lease", "body", "answer"}

Init ==
  /\ free = [s \in Slot |-> TRUE]
  /\ pc = [t \in Thread |-> "idle"]
  /\ db = [t \in Thread |-> 0]
  /\ resp = [t \in Thread |-> "none"]

Goto(t, label) == pc' = [pc EXCEPT ![t] = label]

\* A request is routed to a handler on an idle thread.
Accept(t) ==
  /\ pc[t] = "idle"
  /\ Goto(t, "handler")
  /\ UNCHANGED <<free, db, resp>>

\* A route without a session (help, not found), parameters that are malformed
\* or violate a constraint, or a login that carries a token.
AnswerWithoutSession(t) ==
  /\ pc[t] = "handler"
  /\ Goto(t, "answer")
  /\ \E r \in {"ok", "error"} : resp' = [resp EXCEPT ![t] = r]
  /\ UNCHANGED <<free, db>>

ReachSession(t) ==
  /\ pc[t] = "handler"
  /\ Goto(t, "lease")
  /\ UNCHANGED <<free, db, resp>>

\* Faulty variant: the position in the pool is off by one.
LeaseNext(t) ==
  /\ pc[t] = "lease"
  /\ \E s \in Slot :
       /\ free[s]
       /\ \A r \in Slot : free[r] => s <= r
       /\ free' = [free EXCEPT ![s] = FALSE]
       /\ db' = [db EXCEPT ![t] = s + 1]
  /\ Goto(t, "body")
  /\ UNCHANGED resp

\* The constructor of soci::session: the first free entry of the pool.
Lease(t) ==
  /\ pc[t] = "lease"
  /\ \E s \in Slot :
       /\ free[s]
       /\ \A r \in Slot : free[r] => s <= r
       /\ free' = [free EXCEPT ![s] = FALSE]
       /\ db' = [db EXCEPT ![t] = s]
  /\ Goto(t, "body")
  /\ UNCHANGED resp

\* The destructor of soci::session.
GiveBack(t) ==
  /\ free' = [free EXCEPT ![db[t]] = TRUE]
  /\ db' = [db EXCEPT ![t] = 0]

Return(t) ==
  /\ pc[t] = "body"
  /\ GiveBack(t)
  /\ Goto(t, "answer")
  /\ resp' = [resp EXCEPT ![t] = "ok"]

\* Faulty variant: the session is given back only on the way of the return.
ThrowKeepsSession(t) ==
  /\ pc[t] = "body"
  /\ Goto(t, "answer")
  /\ db' = [db EXCEPT ![t] = 0]
  /\ resp' = [resp EXCEPT ![t] = "error"]
  /\ UNCHANGED free

\* An exception unwinds the route's function and is caught by the Handler.
Throw(t) ==
  /\ pc[t] = "body"
  /\ GiveBack(t)
  /\ Goto(t, "answer")
  /\ resp' = [resp EXCEPT ![t] = "error"]

Answer(t) ==
  /\ pc[t] = "answer"
  /\ Goto(t, "idle")
  /\ resp' = [resp EXCEPT ![t] = "none"]
  /\ UNCHANGED <<free, db>>

\* What the thread does once it has a request; nothing else than the lease
\* can make it wait.
Serve(t) ==
  \/ AnswerWithoutSession(t) \/ ReachSession(t)
  \/ Lease(t) \/ Return(t) \/ Throw(t)
  \/ Answer(t)

Next == \E t \in Thread : Accept(t) \/ Serve(t)

Spec == Init /\ [][Next]_vars

\* Every thread is scheduled.  Nothing is assumed of who gets a session first.
FairSpec == Spec /\ \A t \in Thread : WF_vars(Serve(t))

----------------------------------------------------------------------------
(* Properties                                                              *)

\* The type invariant of the pool's flags and the threads' local state.
TypeOK ==
  /\ free \in [Slot -> BOOLEAN]
  /\ pc \in [Thread -> Label]
  /\ db \in [Thread -> Slot \cup {0}]
  /\ resp \in [Thread -> {"none", "ok", "error"}]

\* A session is used by one thread at a time, and the pool's flags account for
\* every session: one that is not free is held by a handler that is running
\* and will give it back.  No path through a route, the exceptions included,
\* loses a session or gives back one that is in use (routes.hpp, handler.hpp).
SessionsAccounted ==
  /\ \A t, u \in Thread : db[t] # 0 /\ db[t] = db[u] => t = u
  /\ \A s \in Slot : free[s] <=> \A t \in Thread : db[t] # s
  /\ \A t \in Thread : db[t] # 0 <=> pc[t] = "body"

\* With as many sessions as threads, the sizes main.cpp gives both pools, a
\* handler never waits for a session, whatever the others do.
NeverWaits ==
  PoolSize >= Cardinality(Thread) =>
    \A t \in Thread : pc[t] = "lease" => \E s \in Slot : free[s]

\* Every request that is accepted is answered, although nothing is fair among
\* the threads that ask the pool for a session.
EveryRequestAnswered ==
  \A t \in Thread : pc[t] = "handler" ~> pc[t] = "idle"
=============================================================================
