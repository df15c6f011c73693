----------------------------- MODULE ApiKeyStore ----------------------------
(***************************************************************************)
(* The API key file as its users share it: requests being authenticated in *)
(* worker threads of the gateway, and the processes of the key CLI.        *)
(* Operations of api_keys.ApiKeyStore read the whole file under a lock and *)
(* replace it through a temporary file (file_io.atomic_write); a caller    *)
(* may die between any two steps, which frees its lock and nothing else.   *)
(***************************************************************************)
CONSTANTS
    Callers,    \* threads and processes, each with one operation at a time
    KeyIds,     \* the key identifiers there are
    NoKey,      \* no identifier yet
    Nobody,     \* no holder of the lock
    Torn,       \* the content of a file that was not written to its end
    NoFile      \* no temporary file

Statuses == {"absent", "active", "revoked"}
Documents == [KeyIds -> Statuses]

ASSUME StoreAssumption ==
    /\ Nobody \notin Callers
    /\ NoKey \notin KeyIds
    /\ {Torn, NoFile} \cap Documents = {}

VARIABLES
    file,       \* the content of api-keys.json
    temp,       \* each caller's temporary file beside it
    lock,       \* who holds the lock
    phase,      \* where each caller is in its operation
    call,       \* its operation
    document,   \* its parsed, possibly changed, copy of the file
    answer      \* what the operation returned

vars == <<file, temp, lock, phase, call, document, answer>>

Issuing == {"issue", "provision"}
Revoking == {"revoke", "discard"}
Calls == [name : Issuing \cup Revoking \cup {"authenticate", "none"},
          key  : KeyIds \cup {NoKey}]
NoCall == [name |-> "none", key |-> NoKey]

\* The phases inside the "with self._locked()" block.
Critical == {"locked", "encoded", "writing", "flushed", "replaced"}
Phases == Critical \cup {"idle", "waiting", "deciding", "protecting", "done"}
Answers == {"none", "issued", "accepted", "rejected", "revoked", "not_found", "error"}

TypeOK ==
    /\ file \in Documents \cup {Torn}
    /\ temp \in [Callers -> Documents \cup {Torn, NoFile}]
    /\ lock \in Callers \cup {Nobody}
    /\ phase \in [Callers -> Phases]
    /\ call \in [Callers -> Calls]
    /\ document \in [Callers -> Documents]
    /\ answer \in [Callers -> Answers]

\* No file is an empty store.
Empty == [k \in KeyIds |-> "absent"]

Init ==
    /\ file = Empty
    /\ temp = [c \in Callers |-> NoFile]
    /\ lock = Nobody
    /\ phase = [c \in Callers |-> "idle"]
    /\ call = [c \in Callers |-> NoCall]
    /\ document = [c \in Callers |-> Empty]
    /\ answer = [c \in Callers |-> "none"]

-----------------------------------------------------------------------------
Go(c, p) == phase' = [phase EXCEPT ![c] = p]

\* Leave the locked block with answer a; the document goes out of scope.
Leave(c, p, a) ==
    /\ Go(c, p)
    /\ lock' = Nobody
    /\ document' = [document EXCEPT ![c] = Empty]
    /\ answer' = [answer EXCEPT ![c] = a]

\* A request arrives with a key, or an administrator runs the CLI.
Call(c) ==
    /\ phase[c] \in {"idle", "done"}
    /\ Go(c, "waiting")
    /\ \/ \E n \in Issuing : call' = [call EXCEPT ![c] = [name |-> n, key |-> NoKey]]
       \/ \E n \in {"revoke", "authenticate"}, k \in KeyIds :
             call' = [call EXCEPT ![c] = [name |-> n, key |-> k]]
    /\ answer' = [answer EXCEPT ![c] = "none"]
    /\ UNCHANGED <<file, temp, lock, document>>

\* Mistake: a busy lock does not keep a caller out.
AcquireBusy(c) ==
    /\ phase[c] = "waiting"
    /\ lock' = c
    /\ Go(c, "locked")
    /\ UNCHANGED <<file, temp, call, document, answer>>

Acquire(c) ==
    /\ phase[c] = "waiting"
    /\ lock = Nobody
    /\ lock' = c
    /\ Go(c, "locked")
    /\ UNCHANGED <<file, temp, call, document, answer>>

\* Mistake: waiting for the lock has no limit.
LockNeverFails(c) == FALSE /\ UNCHANGED vars

\* The lock is not to be had within LOCK_TIMEOUT_SECONDS, or not at all.
LockFails(c) ==
    /\ phase[c] = "waiting"
    /\ Go(c, "done")
    /\ answer' = [answer EXCEPT ![c] = "error"]
    /\ UNCHANGED <<file, temp, lock, call, document>>

\* Mistake: a failed read leaves without giving back the lock.
ReadFailsKeepingLock(c) ==
    /\ phase[c] = "locked"
    /\ Go(c, "done")
    /\ answer' = [answer EXCEPT ![c] = "error"]
    /\ UNCHANGED <<file, temp, lock, call, document>>

\* The file cannot be read or is not a key store.
ReadFails(c) ==
    /\ phase[c] = "locked"
    /\ Leave(c, "done", "error")
    /\ UNCHANGED <<file, temp, call>>

\* authenticate needs the lock only to read; it decides after giving it back.
ReadToAuthenticate(c) ==
    /\ phase[c] = "locked"
    /\ file # Torn
    /\ call[c].name = "authenticate"
    /\ document' = [document EXCEPT ![c] = file]
    /\ Go(c, "deciding")
    /\ lock' = Nobody
    /\ UNCHANGED <<file, temp, call, answer>>

Decide(c) ==
    /\ phase[c] = "deciding"
    /\ Go(c, "done")
    /\ answer' = [answer EXCEPT ![c] =
                     IF document[c][call[c].key] = "active" THEN "accepted" ELSE "rejected"]
    /\ document' = [document EXCEPT ![c] = Empty]
    /\ UNCHANGED <<file, temp, lock, call>>

\* issue adds an entry under an identifier the document does not have.
AddKey(c) ==
    /\ phase[c] = "locked"
    /\ file # Torn
    /\ call[c].name \in Issuing
    /\ \E k \in KeyIds :
          /\ file[k] = "absent"
          /\ document' = [document EXCEPT ![c] = [file EXCEPT ![k] = "active"]]
          /\ call' = [call EXCEPT ![c] = [name |-> call[c].name, key |-> k]]
    /\ Go(c, "encoded")
    /\ UNCHANGED <<file, temp, lock, answer>>

\* revoke writes only if the key is there and active.
RevokeKey(c) ==
    /\ phase[c] = "locked"
    /\ file # Torn
    /\ call[c].name \in Revoking
    /\ \/ /\ file[call[c].key] = "active"
          /\ document' = [document EXCEPT ![c] =
                             [file EXCEPT ![call[c].key] = "revoked"]]
          /\ Go(c, "encoded")
          /\ UNCHANGED <<lock, answer>>
       \/ /\ file[call[c].key] # "active"
          /\ Leave(c, "done", IF file[call[c].key] = "absent" THEN "not_found" ELSE "revoked")
    /\ UNCHANGED <<file, temp, call>>

\* atomic_write: a file of its own name, written, flushed and synced ...
OpenTemp(c) ==
    /\ phase[c] = "encoded"
    /\ temp' = [temp EXCEPT ![c] = Torn]
    /\ Go(c, "writing")
    /\ UNCHANGED <<file, lock, call, document, answer>>

Flush(c) ==
    /\ phase[c] = "writing"
    /\ temp' = [temp EXCEPT ![c] = document[c]]
    /\ Go(c, "flushed")
    /\ UNCHANGED <<file, lock, call, document, answer>>

\* Mistake: the file is replaced before its content is on disk.
ReplaceEarly(c) ==
    /\ phase[c] \in {"writing", "flushed"}
    /\ file' = temp[c]
    /\ temp' = [temp EXCEPT ![c] = NoFile]
    /\ Go(c, "replaced")
    /\ UNCHANGED <<lock, call, document, answer>>

\* Mistake: the temporary file is cleaned up first.
ReplaceAfterUnlink(c) ==
    /\ phase[c] = "flushed"
    /\ temp' = [temp EXCEPT ![c] = NoFile]
    /\ file' = NoFile
    /\ Go(c, "replaced")
    /\ UNCHANGED <<lock, call, document, answer>>

\* ... and only then given the store's name.
Replace(c) ==
    /\ phase[c] = "flushed"
    /\ file' = temp[c]
    /\ temp' = [temp EXCEPT ![c] = NoFile]
    /\ Go(c, "replaced")
    /\ UNCHANGED <<lock, call, document, answer>>

WriteFails(c) ==
    /\ phase[c] \in {"encoded", "writing", "flushed"}
    /\ temp' = [temp EXCEPT ![c] = NoFile]
    /\ Leave(c, "done", "error")
    /\ UNCHANGED <<file, call>>

Return(c) ==
    /\ phase[c] = "replaced"
    /\ Leave(c, IF call[c].name = "provision" THEN "protecting" ELSE "done",
             IF call[c].name \in Issuing THEN "issued" ELSE "revoked")
    /\ UNCHANGED <<file, temp, call>>

-----------------------------------------------------------------------------
\* key_cli._issue with --protected-output: the new key goes into a protected
\* file, unseen by anybody.
Protect(c) ==
    /\ phase[c] = "protecting"
    /\ Go(c, "done")
    /\ UNCHANGED <<file, temp, lock, call, document, answer>>

\* A key that could not be protected is revoked at once.
ProtectFails(c) ==
    /\ phase[c] = "protecting"
    /\ call' = [call EXCEPT ![c] = [name |-> "discard", key |-> call[c].key]]
    /\ answer' = [answer EXCEPT ![c] = "none"]
    /\ Go(c, "waiting")
    /\ UNCHANGED <<file, temp, lock, document>>

\* The process dies.  The system frees its lock; its temporary file, if any,
\* has a name nobody looks for.
Crash(c) ==
    /\ phase[c] \notin {"idle", "done"}
    /\ Go(c, "idle")
    /\ lock' = IF lock = c THEN Nobody ELSE lock
    /\ temp' = [temp EXCEPT ![c] = NoFile]
    /\ call' = [call EXCEPT ![c] = NoCall]
    /\ document' = [document EXCEPT ![c] = Empty]
    /\ answer' = [answer EXCEPT ![c] = "none"]
    /\ UNCHANGED file

Operation(c) ==
    \/ Acquire(c) \/ LockFails(c)
    \/ ReadFails(c) \/ ReadToAuthenticate(c) \/ Decide(c)
    \/ AddKey(c) \/ RevokeKey(c)
    \/ OpenTemp(c) \/ Flush(c) \/ Replace(c) \/ WriteFails(c) \/ Return(c)
    \/ Protect(c) \/ ProtectFails(c)

Next == \E c \in Callers : Call(c) \/ Operation(c) \/ Crash(c)

Spec == Init /\ [][Next]_vars

\* An operation's own steps are taken; waiting for the lock has a time limit.
Fairness == \A c \in Callers : WF_vars(Operation(c))

FairSpec == Spec /\ Fairness

-----------------------------------------------------------------------------
\* Whatever dies when, the store is a complete document at every instant: the
\* gateway answers 503 to everybody otherwise.
StoreReadable == file # Torn

\* The lock is held exactly by the caller inside a locked block: there is at
\* most one, and every path out of the block, death included, frees the lock.
LockOwned ==
    \A c \in Callers : lock = c <=> phase[c] \in Critical

\* What a caller is about to write differs from the store by its own change
\* only: nobody's issue or revocation is lost.
CopyUpToDate ==
    \A c \in Callers :
        /\ phase[c] \in {"encoded", "writing", "flushed"} =>
              \/ /\ call[c].name \in Issuing
                 /\ call[c].key \in KeyIds
                 /\ file # Torn
                 /\ file[call[c].key] = "absent"
                 /\ document[c] = [file EXCEPT ![call[c].key] = "active"]
              \/ /\ call[c].name \in Revoking
                 /\ file # Torn
                 /\ file[call[c].key] = "active"
                 /\ document[c] = [file EXCEPT ![call[c].key] = "revoked"]
        /\ phase[c] = "flushed" => temp[c] = document[c]

\* The phases fit the operation.
PhaseFitsCall ==
    \A c \in Callers :
        /\ phase[c] = "deciding" => call[c].name = "authenticate"
        /\ phase[c] = "protecting" => call[c].name = "provision" /\ answer[c] = "issued"
        /\ phase[c] = "replaced" => call[c].name \in Issuing \cup Revoking
        /\ phase[c] \in {"replaced", "protecting"} /\ call[c].name \in Issuing =>
              call[c].key \in KeyIds
        /\ phase[c] \notin {"done", "protecting"} => answer[c] = "none"

\* Inductive: no step of any caller, death included, leaves it.
IInv ==
    /\ TypeOK
    /\ StoreReadable
    /\ LockOwned
    /\ CopyUpToDate
    /\ PhaseFitsCall

\* Every call returns, however long others hold the lock: a busy or stuck
\* store makes authentication fail closed, not hang.
EveryCallReturns ==
    \A c \in Callers : phase[c] = "waiting" ~> phase[c] \in {"idle", "done"}

\* docs/OPERATIONS.md: a key that could not be moved to the protected file is
\* revoked where it was issued, so that no unusable key remains.
DiscardedKeysRevoked ==
    \A c \in Callers :
        phase[c] = "done" /\ call[c].name = "discard" => file[call[c].key] # "active"

\* What an operation has done so far, for KeyRegistry, given its phase p, call
\* l, document d and answer a.
EffectOf(p, l, d, a) ==
    CASE p = "idle" -> "none"
      [] p \in {"done", "protecting"} -> a
      [] p = "replaced" -> IF l.name \in Issuing THEN "issued" ELSE "revoked"
      [] p = "deciding" -> IF d[l.key] = "active" THEN "accepted" ELSE "rejected"
      [] OTHER -> "pending"

\* The key an issuing call has made is the registry's business once it is in
\* the file.
ProgressOf(p, l, d, a) ==
    [name   |-> l.name,
     key    |-> IF l.name \in Issuing /\ EffectOf(p, l, d, a) # "issued"
                THEN NoKey ELSE l.key,
     effect |-> EffectOf(p, l, d, a)]

Progress(c) == ProgressOf(phase[c], call[c], document[c], answer[c])

Registry == INSTANCE KeyRegistry WITH
    keys <- file,
    call <- [c \in Callers |-> Progress(c)]

\* The file, its lock and its replacement amount to a table in memory whose
\* operations are instantaneous: a key is accepted only if it was active at
\* some moment of the request, no revocation is undone, no new key lost.
KeepsRegistry == Registry!Spec

=============================================================================
