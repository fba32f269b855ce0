------------------------------ MODULE Sessions ------------------------------
(***************************************************************************)
(* The session middleware (middlewares/session) with its store in memory   *)
(* or in a database, under requests of several clients that overlap.       *)
(*                                                                         *)
(* Requests are numbered.  A number also names the SessionDict a request   *)
(* makes and the id its response gets, since every response makes an id:   *)
(* is_new is never cleared, so that the branches of wrapped_send which     *)
(* update, touch or delete a record cannot be reached.                     *)
(***************************************************************************)
EXTENDS Naturals, FiniteSets

CONSTANTS
    Clients,
    MaxRequests,  \* how many requests there are
    MaxKeys,      \* how many keys a request's application sets
    MaxThaws,     \* how many SessionDicts are changed although they are frozen, once each
    MaxRestarts   \* how often the server's process is started again

ASSUME SessionsAssumption ==
    MaxRequests \in Nat /\ MaxKeys \in Nat /\ MaxThaws \in Nat /\ MaxRestarts \in Nat

Requests == 1..MaxRequests
(* A key is a pair, of the request that sets it and a number.  Meta stands *)
(* for what the database's get_session puts among the keys: session_id,    *)
(* created_at and last_touched, given as keyword arguments to a dict.      *)
Meta == <<0, 0>>
None == 0
Nobody == "nobody"

VARIABLES
    store,       \* the backend: "memory" or "database"
    phase,       \* where each request is
    owner,       \* the client of each request
    session,     \* the SessionDict in each request's scope
    content,     \* the keys of each SessionDict
    modifiable,  \* and whether it may change
    stale,       \* and whether its created_at is older than max_age
    known,       \* the ids the store has a record for
    sessions,    \* in memory: the SessionDict under each id
    rows,        \* in the database: the keys under each id
    cookie,      \* the id each client holds
    arrived,     \* responses the client has got
    restarts,    \* how often the process was started again
    saved,       \* history: the record of each request once its headers were sent
    thawed,      \* history: SessionDicts that were changed although frozen
    lapsed       \* history: ids whose session grew stale

request == <<phase, owner, session>>
dicts == <<content, modifiable, stale>>
stored == <<known, sessions, rows>>
clients == <<cookie, arrived>>
history == <<saved, thawed, lapsed>>
vars == <<store, request, dicts, stored, clients, restarts, history>>

Init ==
    /\ store \in {"memory", "database"}
    /\ phase = [r \in Requests |-> "new"]
    /\ owner = [r \in Requests |-> Nobody]
    /\ session = [r \in Requests |-> None]
    /\ content = [o \in Requests |-> {}]
    /\ modifiable = [o \in Requests |-> TRUE]
    /\ stale = [o \in Requests |-> FALSE]
    /\ known = {}
    /\ sessions = [id \in Requests |-> None]
    /\ rows = [id \in Requests |-> {}]
    /\ cookie = [c \in Clients |-> None]
    /\ arrived = {}
    /\ restarts = 0
    /\ saved = [r \in Requests |-> {}] /\ thawed = {} /\ lapsed = {}

-----------------------------------------------------------------------------
(* get_session and create_session.  The store in memory returns the very   *)
(* object that was saved, and takes an empty one for none; the database    *)
(* makes a new one, however old the record is.                             *)

Held(id) == store = "memory" /\ id \in known /\ content[sessions[id]] # {}

GetShared(r, id) ==
    /\ Held(id) /\ ~stale[sessions[id]]
    /\ session' = [session EXCEPT ![r] = sessions[id]]
    /\ UNCHANGED <<content, known>>

GetCopy(r, id) ==
    /\ store = "database" /\ id \in known
    /\ session' = [session EXCEPT ![r] = r]
    /\ content' = [content EXCEPT ![r] = rows[id] \cup {Meta}]
    /\ UNCHANGED known

(* Mutant of CreateSession: every new session is the same object.          *)
CreateSessionOnce(r, id) ==
    /\ IF store = "memory" THEN Held(id) => stale[sessions[id]] ELSE id \notin known
    /\ session' = [session EXCEPT ![r] = 1]
    /\ known' = IF Held(id) THEN known \ {id} ELSE known
    /\ UNCHANGED content

CreateSession(r, id) ==
    /\ IF store = "memory" THEN Held(id) => stale[sessions[id]] ELSE id \notin known
    /\ session' = [session EXCEPT ![r] = r]
    /\ known' = IF Held(id) THEN known \ {id} ELSE known
    /\ UNCHANGED content

(* __call__: a request with the cookie its client has at that time.        *)
Call(r, c) ==
    /\ phase[r] = "new" /\ \A q \in 1..(r - 1) : phase[q] # "new"
    /\ phase' = [phase EXCEPT ![r] = "running"]
    /\ owner' = [owner EXCEPT ![r] = c]
    /\ GetShared(r, cookie[c]) \/ GetCopy(r, cookie[c]) \/ CreateSession(r, cookie[c])
    /\ UNCHANGED <<store, modifiable, stale, sessions, rows, clients, restarts, history>>

-----------------------------------------------------------------------------
(* The application sets one more key of its session, or clears it, until   *)
(* it is refused with a RuntimeError.                                      *)

Awake(r) == phase[r] \in {"running", "refused", "started"}

SetKeys(r) == {key \in content[session[r]] : key[1] = r}

SetItem(r) ==
    /\ Awake(r) /\ modifiable[session[r]] /\ Cardinality(SetKeys(r)) < MaxKeys
    /\ content' = [content EXCEPT ![session[r]] = @ \cup {<<r, Cardinality(SetKeys(r)) + 1>>}]
    /\ UNCHANGED <<store, request, modifiable, stale, stored, clients, restarts, history>>

(* dict's own |= operator is not overridden, and a list or dict among the  *)
(* values knows nothing of the freeze: these change a SessionDict for all  *)
(* who share it.                                                           *)
ChangeFrozen(r) ==
    /\ Awake(r) /\ ~modifiable[session[r]] /\ Cardinality(SetKeys(r)) < MaxKeys
    /\ content' = [content EXCEPT ![session[r]] = @ \cup {<<r, Cardinality(SetKeys(r)) + 1>>}]
    /\ session[r] \notin thawed /\ Cardinality(thawed) < MaxThaws
    /\ thawed' = thawed \cup {session[r]}
    /\ UNCHANGED <<store, request, modifiable, stale, stored, clients, restarts, saved, lapsed>>

Clear(r) ==
    /\ Awake(r) /\ modifiable[session[r]] /\ content[session[r]] # {}
    /\ content' = [content EXCEPT ![session[r]] = {}]
    /\ UNCHANGED <<store, request, modifiable, stale, stored, clients, restarts, history>>

(* token_urlsafe never gives the same id twice.                            *)
CreateSessionId(r) == r

(* session_id is the primary key of the table session_data, so that a      *)
(* second key of the same session is an error, and nothing is committed.   *)
Fits(keys) == Cardinality(keys) <= 1 /\ Meta \notin keys

SaveInMemory(r, id) ==
    /\ store = "memory"
    /\ sessions' = [sessions EXCEPT ![id] = session[r]]
    /\ stale' = [stale EXCEPT ![session[r]] = FALSE]
    /\ known' = known \cup {id}
    /\ phase' = [phase EXCEPT ![r] = "sending"]
    /\ UNCHANGED rows

SaveInDatabase(r, id) ==
    /\ store = "database" /\ Fits(content[session[r]])
    /\ rows' = [rows EXCEPT ![id] = content[session[r]]]
    /\ known' = known \cup {id}
    /\ phase' = [phase EXCEPT ![r] = "sending"]
    /\ UNCHANGED <<sessions, stale>>

SaveFails(r) ==
    /\ store = "database" /\ ~Fits(content[session[r]])
    /\ phase' = [phase EXCEPT ![r] = "refused"]
    /\ UNCHANGED <<stored, stale>>

(* wrapped_send of http.response.start, up to its send().                  *)
ResponseStart(r) ==
    /\ phase[r] \in {"running", "refused"}
    /\ LET id == CreateSessionId(r)
       IN  SaveInMemory(r, id) \/ SaveInDatabase(r, id) \/ SaveFails(r)
    /\ UNCHANGED <<store, owner, session, content, modifiable, clients, restarts, history>>

Record(id) == IF store = "memory" THEN content[sessions[id]] ELSE rows[id]

(* Mutant of StartSent: the session is frozen only if send() raises.       *)
StartSentOpen(r, ok) ==
    /\ phase[r] = "sending"
    /\ phase' = [phase EXCEPT ![r] = IF ok THEN "started" ELSE "failed"]
    /\ modifiable' = [modifiable EXCEPT ![session[r]] = @ /\ ok]
    /\ saved' = [saved EXCEPT ![r] = Record(CreateSessionId(r))]
    /\ UNCHANGED <<store, owner, session, content, stale, stored, clients, restarts, thawed, lapsed>>

(* send() returns, or raises; the session is frozen either way.            *)
StartSent(r, ok) ==
    /\ phase[r] = "sending"
    /\ phase' = [phase EXCEPT ![r] = IF ok THEN "started" ELSE "failed"]
    /\ modifiable' = [modifiable EXCEPT ![session[r]] = FALSE]
    /\ saved' = [saved EXCEPT ![r] = Record(CreateSessionId(r))]
    /\ UNCHANGED <<store, owner, session, content, stale, stored, clients, restarts, thawed, lapsed>>

-----------------------------------------------------------------------------
(* The headers reach the client, possibly before send() has returned.      *)
ResponseArrives(r) ==
    /\ phase[r] \in {"sending", "started"} /\ r \notin arrived
    /\ cookie' = [cookie EXCEPT ![owner[r]] = CreateSessionId(r)]
    /\ arrived' = arrived \cup {r}
    /\ UNCHANGED <<store, request, dicts, stored, restarts, history>>

(* max_age passes.  The database's get_session does not look at it.        *)
Expire(o) ==
    /\ store = "memory" /\ ~stale[o] /\ \E id \in known : sessions[id] = o
    /\ stale' = [stale EXCEPT ![o] = TRUE]
    /\ lapsed' = lapsed \cup {id \in known : sessions[id] = o}
    /\ UNCHANGED <<store, request, content, modifiable, stored, clients, restarts, saved, thawed>>

(* The process ends with its requests, and starts again.                   *)
Restart ==
    /\ restarts < MaxRestarts
    /\ restarts' = restarts + 1
    /\ known' = IF store = "memory" THEN {} ELSE known
    /\ phase' = [r \in Requests |->
                    IF phase[r] \in {"new", "started"} THEN phase[r] ELSE "failed"]
    /\ UNCHANGED <<store, owner, session, dicts, sessions, rows, clients, history>>

Next ==
    \/ \E r \in Requests, c \in Clients : Call(r, c)
    \/ \E r \in Requests : SetItem(r) \/ ChangeFrozen(r) \/ Clear(r) \/ ResponseStart(r) \/ ResponseArrives(r)
    \/ \E r \in Requests, ok \in BOOLEAN : StartSent(r, ok)
    \/ \E o \in Requests : Expire(o)
    \/ Restart

Spec == Init /\ [][Next]_vars

-----------------------------------------------------------------------------
(* No request ever sees what another client's request has put into a       *)
(* session, whatever is shared, copied, expired or saved again             *)
(* (get_session, save_session).                                            *)
Isolation ==
    \A r \in Requests : phase[r] # "new" =>
        \A key \in content[session[r]] \ {Meta} : owner[key[1]] = owner[r]

(* A request with the cookie of a response whose headers have been sent    *)
(* finds the session as it was then: overlapping requests that share it    *)
(* cannot change it any more.  Only age, and for the store in memory a     *)
(* restart or a change that goes round the freeze, may lose it             *)
(* (wrapped_send's modifiable = False; SessionDict).                       *)
Reads(r, id) ==
    /\ phase[r] = "new" /\ phase'[r] = "running"
    /\ id = cookie[owner'[r]] /\ id # None
    /\ phase[id] = "started" /\ id \notin lapsed
    /\ store = "database" \/ (restarts = 0 /\ session[id] \notin thawed)

ReadYourWrites ==
    [][\A r, id \in Requests : Reads(r, id) => content'[session'[r]] \ {Meta} = saved[id]]_vars

=============================================================================
