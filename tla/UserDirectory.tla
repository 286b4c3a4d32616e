--------------------------- MODULE UserDirectory ---------------------------
(***************************************************************************)
(* What the /users routes promise to their clients, without statements,    *)
(* checks and races: a directory of accounts in which every request takes  *)
(* effect at one moment between the call and the answer, or not at all.    *)
(*                                                                         *)
(* A registration that is answered with success has made one account with  *)
(* a fresh id, the group "user" and the name and the e-mail that were      *)
(* sent; a change has written only values that were sent into the account  *)
(* of the URL; and no two accounts ever have a name or an e-mail in common.*)
(* Of a request that carries a quote only the last of these is promised.   *)
(* Who may do what is not this module's concern.                           *)
(***************************************************************************)
EXTENDS Integers

CONSTANTS Client,     \* the clients, one request each at a time
          Id,         \* the ids an account can have
          Field,      \* the fields of an account
          UniqueKey,  \* those no two accounts have in common, besides the id
          NULL,
          Quoted,     \* values that hold a quote
          Ask,        \* the requests: kind, target (an id) and fields
          NoAsk       \* what a client asks for that has no request

VARIABLES accounts,  \* accounts[i]: the account with id i, or NULL
          last,      \* the largest id ever given
          state,     \* "idle", "pending", "done" or "refused", per client
          ask        \* its request

vars == <<accounts, last, state, ask>>

\* The account m can stand beside the others under id i.
Free(m, i) ==
  \A f \in UniqueKey, j \in Id \ {i} :
    accounts[j] # NULL => accounts[j][f] # m[f]

UniqueAccounts ==
  \A i \in Id : accounts[i] # NULL => Free(accounts[i], i)

\* Accounts there were before the first request.
Init ==
  /\ UniqueAccounts
  /\ \A i \in Id : accounts[i] # NULL => i <= last
  /\ state = [c \in Client |-> "idle"]
  /\ ask = [c \in Client |-> NoAsk]

\* A request is taken up or refused at once.
Call(c, outcome) ==
  /\ state[c] = "idle"
  /\ state' = [state EXCEPT ![c] = outcome]
  /\ ask'[c] \in Ask
  /\ ask' = [ask EXCEPT ![c] = ask'[c]]
  /\ UNCHANGED <<accounts, last>>

Invoke(c) == Call(c, "pending")
Reject(c) == Call(c, "refused")

Answer(c, outcome) ==
  /\ state[c] = "pending"
  /\ state' = [state EXCEPT ![c] = outcome]
  /\ UNCHANGED ask

\* An account appears under a fresh id, with some of the fields that were
\* sent, all of the unique ones among them.
Register(c) ==
  /\ ask[c].kind = "register"
  /\ Answer(c, "done")
  /\ \E i \in Id, given \in SUBSET Field :
       LET m == [f \in Field |-> CASE f = "id" -> i
                                  [] f = "permission_group" -> "user"
                                  [] OTHER -> IF f \in given
                                              THEN ask[c].fields[f] ELSE NULL]
       IN  /\ i > last /\ accounts[i] = NULL
           /\ last' = i
           /\ \A f \in UniqueKey : m[f] # NULL
           /\ Free(m, i)
           /\ accounts' = [accounts EXCEPT ![i] = m]

\* The account of the URL takes some of the values that were sent.
Modify(c) ==
  /\ ask[c].kind = "modify"
  /\ Answer(c, "done")
  /\ accounts[ask[c].target] # NULL
  /\ \E written \in SUBSET {f \in Field : ask[c].fields[f] # NULL} :
       LET i == ask[c].target
           m == [f \in Field |-> IF f \in written THEN ask[c].fields[f]
                                                  ELSE accounts[i][f]]
       IN  /\ Free(m, i)
           /\ accounts' = [accounts EXCEPT ![i] = m]
  /\ UNCHANGED last

\* There is no account of that id, and nothing happens.
ModifyNothing(c) ==
  /\ Answer(c, "done")
  /\ ask[c].kind = "modify"
  /\ accounts[ask[c].target] = NULL
  /\ UNCHANGED <<accounts, last>>

Delete(c) ==
  /\ Answer(c, "done")
  /\ ask[c].kind = "delete"
  /\ accounts' = [accounts EXCEPT ![ask[c].target] = NULL]
  /\ UNCHANGED last

\* With a quote in a value a request may leave any accounts that can stand
\* beside each other.
Garble(c) ==
  /\ Answer(c, "done")
  /\ \E f \in Field : ask[c].fields[f] \in Quoted
  /\ accounts' = [i \in Id |-> accounts'[i]]
  /\ last <= last' /\ \A i \in Id : accounts'[i] # NULL => i <= last'
  /\ UniqueAccounts'

\* A request may be refused at any time, and then nothing has happened.
Refuse(c) ==
  /\ Answer(c, "refused")
  /\ UNCHANGED <<accounts, last>>

Return(c) ==
  /\ state[c] \in {"done", "refused"}
  /\ state' = [state EXCEPT ![c] = "idle"]
  /\ ask' = [ask EXCEPT ![c] = NoAsk]
  /\ UNCHANGED <<accounts, last>>

Next ==
  \E c \in Client :
    \/ Invoke(c) \/ Reject(c)
    \/ Register(c) \/ Modify(c) \/ ModifyNothing(c) \/ Delete(c) \/ Garble(c) \/ Refuse(c)
    \/ Return(c)

Spec == Init /\ [][Next]_vars
=============================================================================
