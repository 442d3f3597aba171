---------------------------- MODULE RuntimeConfig ---------------------------
(***************************************************************************)
(* Runtime overrides of the settings (app/services/runtime_config.py and   *)
(* its router): one JSON object in Redis for retrieval, read and merged    *)
(* over the environment on every request, changed by a PUT that reads it,  *)
(* merges its own fields and writes it back.  The object for the models is *)
(* the same code over another key.                                         *)
(*                                                                         *)
(*   override  the stored object: the fields it names, with their values   *)
(*   puts      per PUT: how far it is, its fields, the object it has read  *)
(*   owed      history variable: per field, the values the answers allow   *)
(*   serial    history variable: no two PUTs have overlapped so far and    *)
(*             no read of a PUT has failed                                 *)
(***************************************************************************)
EXTENDS RedisStore

CONSTANTS Puts,     \* the PUT requests
          Fields,   \* rerank_enabled, recall_k, ...
          Values,
          Default   \* the environment's value of every field

VARIABLES override, puts, owed, serial

configVars == <<override, puts, owed, serial>>

Overrides == UNION {[S -> Values] : S \in SUBSET Fields}
Nothing == [f \in {} |-> Default]

ConfigInit ==
    /\ override = Nothing
    /\ puts = [p \in Puts |->
                  [phase |-> "new", changes |-> Nothing, existing |-> Nothing]]
    /\ owed = [f \in Fields |-> {Default}]
    /\ serial = TRUE

-----------------------------------------------------------------------------
\* Mutated form of Merged: the stored fields are not carried over.
ChangesAlone(existing, changes) == changes

\* {**existing, **changes}
Merged(existing, changes) ==
    [f \in DOMAIN existing \cup DOMAIN changes |->
        IF f \in DOMAIN changes THEN changes[f] ELSE existing[f]]

\* _retrieval_from_override: the object's fields over the environment's.
Effective(stored) ==
    [f \in Fields |-> IF f \in DOMAIN stored THEN stored[f] ELSE Default]

\* _read_override: a read that fails counts as an object without fields.
ReadOverride == IF redis.up THEN override ELSE Nothing

\* PUT /config/retrieval up to the end of its read: a field that is null or
\* absent in the payload is no change.
ReadForUpdate(p) ==
    /\ puts[p].phase = "new"
    /\ \E changes \in Overrides :
         puts' = [puts EXCEPT ![p] = [phase |-> "read", changes |-> changes,
                                      existing |-> ReadOverride]]
    /\ serial' = (/\ serial
                  /\ redis.up
                  /\ \A q \in Puts : puts[q].phase # "read")
    /\ UNCHANGED <<override, owed>>

Answered(p) ==
    puts' = [puts EXCEPT ![p] = [phase |-> "done", changes |-> Nothing,
                                 existing |-> Nothing]]

\* The write: the answer is what has been stored.
WriteOverride(p) ==
    /\ puts[p].phase = "read"
    /\ redis.up
    /\ override' = Merged(puts[p].existing, puts[p].changes)
    /\ owed' = [f \in Fields |-> IF f \in DOMAIN puts[p].changes
                                 THEN {puts[p].changes[f]} ELSE owed[f]]
    /\ Answered(p)
    /\ UNCHANGED serial

(* RuntimeConfigUnavailableError, 503: the server was out of reach, or its *)
(* answer was lost after it had stored the object.                         *)
WriteFails(p) ==
    /\ puts[p].phase = "read"
    /\ \/ override' = override
       \/ /\ redis.up
          /\ override' = Merged(puts[p].existing, puts[p].changes)
    /\ owed' = [f \in Fields |-> IF f \in DOMAIN puts[p].changes
                                 THEN owed[f] \cup {puts[p].changes[f]}
                                 ELSE owed[f]]
    /\ Answered(p)
    /\ UNCHANGED serial

ConfigNext ==
    \E p \in Puts : ReadForUpdate(p) \/ WriteOverride(p) \/ WriteFails(p)

-----------------------------------------------------------------------------
(* FR-01 and FR-02 of feature-057: so long as PUTs come one at a time and  *)
(* their reads are answered, what a request reads afterwards is, in every  *)
(* field, what the last acknowledged PUT of that field said, or what a PUT *)
(* answered with 503 since then may have left.  Overlapping PUTs lose each *)
(* other's fields, and one whose read has failed wipes the fields it does  *)
(* not name.                                                               *)
SerialUpdatesEffective ==
    serial => \A f \in Fields : Effective(override)[f] \in owed[f]
=============================================================================
