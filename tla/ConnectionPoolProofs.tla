------------------------ MODULE ConnectionPoolProofs ------------------------
(***************************************************************************)
(* For any number of threads and any size of the pool: the sessions are    *)
(* accounted for, and with a session per thread no handler ever waits.     *)
(* The inductive invariant is TypeOK /\ SessionsAccounted; that no handler *)
(* waits follows from it by counting the threads that hold a session.      *)
(***************************************************************************)
EXTENDS ConnectionPool, FiniteSetTheorems, TLAPS

Inv == TypeOK /\ SessionsAccounted

\* The pool, the threads and their sessions start empty and idle.
LEMMA InitInv == Init => Inv
  BY DEF Init, Inv, TypeOK, SessionsAccounted, Slot, Label

\* The destructor of soci::session, whichever way the handler is left.
LEMMA GiveBackInv ==
  ASSUME Inv, NEW t \in Thread, pc[t] = "body", GiveBack(t), Goto(t, "answer"),
         \E r \in {"ok", "error"} : resp' = [resp EXCEPT ![t] = r]
  PROVE  Inv'
<1>1. db[t] \in Slot
  BY DEF Inv, TypeOK, SessionsAccounted
<1>2. TypeOK'
  BY <1>1 DEF Inv, TypeOK, GiveBack, Goto, Label
<1>3. SessionsAccounted'
  BY <1>1 DEF Inv, TypeOK, SessionsAccounted, GiveBack, Goto, Slot
<1> QED BY <1>2, <1>3 DEF Inv

\* The constructor of soci::session.
LEMMA LeaseInv ==
  ASSUME Inv, NEW t \in Thread, Lease(t)
  PROVE  Inv'
<1>1. PICK s \in Slot : /\ free[s]
                        /\ free' = [free EXCEPT ![s] = FALSE]
                        /\ db' = [db EXCEPT ![t] = s]
  BY DEF Lease
<1>2. db[t] = 0 /\ pc' = [pc EXCEPT ![t] = "body"] /\ resp' = resp
  BY DEF Lease, Goto, Inv, TypeOK, SessionsAccounted
<1>3. TypeOK'
  BY <1>1, <1>2 DEF Inv, TypeOK, Label
<1>4. SessionsAccounted'
  BY <1>1, <1>2 DEF Inv, TypeOK, SessionsAccounted, Slot
<1> QED BY <1>3, <1>4 DEF Inv

\* No step of any thread loses a session or lends it twice.
LEMMA NextInv == Inv /\ [Next]_vars => Inv'
<1> SUFFICES ASSUME Inv, [Next]_vars PROVE Inv'
  OBVIOUS
<1>1. ASSUME NEW t \in Thread, Accept(t) PROVE Inv'
  BY <1>1 DEF Accept, Goto, Inv, TypeOK, SessionsAccounted, Label
<1>2. ASSUME NEW t \in Thread, AnswerWithoutSession(t) PROVE Inv'
  BY <1>2 DEF AnswerWithoutSession, Goto, Inv, TypeOK, SessionsAccounted, Label
<1>3. ASSUME NEW t \in Thread, ReachSession(t) PROVE Inv'
  BY <1>3 DEF ReachSession, Goto, Inv, TypeOK, SessionsAccounted, Label
<1>4. ASSUME NEW t \in Thread, Lease(t) PROVE Inv'
  BY <1>4, LeaseInv
<1>5. ASSUME NEW t \in Thread, Return(t) \/ Throw(t) PROVE Inv'
  BY <1>5, GiveBackInv DEF Return, Throw
<1>6. ASSUME NEW t \in Thread, Answer(t) PROVE Inv'
  BY <1>6 DEF Answer, Goto, Inv, TypeOK, SessionsAccounted, Label
<1>7. CASE UNCHANGED vars
  BY <1>7 DEF vars, Inv, TypeOK, SessionsAccounted
<1> QED
  BY <1>1, <1>2, <1>3, <1>4, <1>5, <1>6, <1>7 DEF Next, Serve

\* The types hold for any finite number of threads and any size of the pool.
THEOREM TypeTheorem == Spec => []TypeOK
  BY InitInv, NextInv, PTL DEF Spec, Inv

\* In every execution every session is in exactly one place: free in the pool,
\* or lent to one thread.
THEOREM AccountedTheorem == Spec => []SessionsAccounted
  BY InitInv, NextInv, PTL DEF Spec, Inv

\* A thread that asks for a session holds none, so the threads that hold one
\* are too few to hold them all.
LEMMA HoldersAreFew == Inv => NeverWaits
<1> SUFFICES ASSUME Inv, PoolSize >= Cardinality(Thread),
                    NEW t \in Thread, pc[t] = "lease",
                    \A s \in Slot : ~free[s]
             PROVE  FALSE
  BY DEF NeverWaits
<1> DEFINE Others == Thread \ {t}
           holder == [s \in Slot |-> CHOOSE u \in Thread : db[u] = s]
<1>1. \A s \in Slot : \E u \in Thread : db[u] = s
  BY DEF Inv, SessionsAccounted
<1>2. \A s \in Slot : holder[s] \in Thread /\ db[holder[s]] = s
  BY <1>1
<1>3. db[t] = 0
  BY DEF Inv, SessionsAccounted
<1>4. holder \in [Slot -> Others]
  BY <1>2, <1>3 DEF Slot
<1>5. IsFiniteSet(Others) /\ Cardinality(Others) = Cardinality(Thread) - 1
  BY PoolAssumption, FS_RemoveElement
<1>6. IsFiniteSet(Slot) /\ Cardinality(Slot) = PoolSize
  BY PoolAssumption, FS_Interval DEF Slot
<1>7. Cardinality(Thread) \in Nat
  BY PoolAssumption, FS_CardinalityType
<1>8. Cardinality(Others) < Cardinality(Slot)
  BY <1>5, <1>6, <1>7, PoolAssumption
<1>9. PICK x, y \in Slot : x # y /\ holder[x] = holder[y]
  <2> HIDE DEF holder, Others
  <2> QED BY <1>4, <1>5, <1>6, <1>8, FS_PigeonHole
<1> QED BY <1>2, <1>9

\* With a session for every thread no handler ever waits for one.
THEOREM NeverWaitsTheorem == Spec => []NeverWaits
  BY InitInv, NextInv, HoldersAreFew, PTL DEF Spec
=============================================================================
