----------------------------- MODULE KeyRegistry ----------------------------
(***************************************************************************)
(* What the API key store promises: every operation takes effect at one    *)
(* instant between its call and its return, or not at all, as though the   *)
(* store were a table in memory with no file, lock or process behind it.   *)
(***************************************************************************)
CONSTANTS Callers, KeyIds, NoKey

VARIABLES
    keys,      \* the status of every key
    call       \* each caller's operation and what it has done so far

vars == <<keys, call>>

Issuing == {"issue", "provision"}
Revoking == {"revoke", "discard"}

NoCall == [name |-> "none", key |-> NoKey, effect |-> "none"]

Init ==
    /\ keys = [k \in KeyIds |-> "absent"]
    /\ call = [c \in Callers |-> NoCall]

\* A caller asks for its next operation, or dies.
Invoke(c) ==
    /\ call[c].effect # "pending"
    /\ \/ \E n \in Issuing :
             call' = [call EXCEPT ![c] = [name |-> n, key |-> NoKey, effect |-> "pending"]]
       \/ \E n \in Revoking \cup {"authenticate"}, k \in KeyIds :
             call' = [call EXCEPT ![c] = [name |-> n, key |-> k, effect |-> "pending"]]
    /\ UNCHANGED keys

\* The operation of caller c, on key k, takes effect.
Effect(c, k, e) ==
    /\ call[c].effect = "pending"
    /\ call' = [call EXCEPT ![c] = [name |-> call[c].name, key |-> k, effect |-> e]]

\* A key no operation has ever issued becomes active.
Issue(c) ==
    /\ call[c].name \in Issuing
    /\ \E k \in KeyIds :
          /\ keys[k] = "absent"
          /\ keys' = [keys EXCEPT ![k] = "active"]
          /\ Effect(c, k, "issued")

Authenticate(c) ==
    /\ call[c].name = "authenticate"
    /\ Effect(c, call[c].key,
              IF keys[call[c].key] = "active" THEN "accepted" ELSE "rejected")
    /\ UNCHANGED keys

\* A key once issued ends up revoked, for good.
Revoke(c) ==
    /\ call[c].name \in Revoking
    /\ \/ /\ keys[call[c].key] # "absent"
          /\ keys' = [keys EXCEPT ![call[c].key] = "revoked"]
          /\ Effect(c, call[c].key, "revoked")
       \/ /\ keys[call[c].key] = "absent"
          /\ Effect(c, call[c].key, "not_found")
          /\ UNCHANGED keys

\* An operation may fail, but then it has done nothing.
Fail(c) ==
    /\ Effect(c, call[c].key, "error")
    /\ UNCHANGED keys

\* A caller may die at any time, before or after its operation's effect.
Die(c) ==
    /\ call' = [call EXCEPT ![c] = NoCall]
    /\ UNCHANGED keys

Next ==
    \E c \in Callers :
        Invoke(c) \/ Issue(c) \/ Authenticate(c) \/ Revoke(c) \/ Fail(c) \/ Die(c)

Spec == Init /\ [][Next]_vars

=============================================================================
