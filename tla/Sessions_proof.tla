--------------------------- MODULE Sessions_proof ---------------------------
(***************************************************************************)
(* Proofs about Sessions, for any number of clients and requests.          *)
(***************************************************************************)
EXTENDS Sessions, TLAPS

Begun == {r \in Requests : phase[r] # "new"}

(* A SessionDict belongs to the client of the request that made it: keys,  *)
(* records, cookies and requests are only ever joined to those of the same *)
(* client, once they exist.                                                *)
OwnKeys(keys, c) == \A key \in keys \ {Meta} : key[1] \in Begun /\ owner[key[1]] = c

SessionsOwned == \A r \in Begun : session[r] \in Begun /\ owner[session[r]] = owner[r]
ContentOwned == \A o \in Requests : OwnKeys(content[o], owner[o]) /\ (o \notin Begun => content[o] = {})
RecordsOwned ==
    \A id \in known :
        /\ id \in Begun
        /\ IF store = "memory" THEN sessions[id] \in Begun /\ owner[sessions[id]] = owner[id]
           ELSE OwnKeys(rows[id], owner[id])
CookiesOwned ==
    \A c \in Clients : cookie[c] # None => cookie[c] \in Begun /\ owner[cookie[c]] = c

Functions ==
    /\ phase = [r \in Requests |-> phase[r]] /\ owner = [r \in Requests |-> owner[r]]
    /\ session = [r \in Requests |-> session[r]] /\ content = [o \in Requests |-> content[o]]
    /\ sessions = [id \in Requests |-> sessions[id]] /\ rows = [id \in Requests |-> rows[id]]
    /\ cookie = [c \in Clients |-> cookie[c]]
    /\ \A r \in Begun : owner[r] \in Clients

Ownership == Functions /\ SessionsOwned /\ ContentOwned /\ RecordsOwned /\ CookiesOwned

LEMMA OwnershipInit == Init => Ownership
BY DEF Init, Ownership, Functions, SessionsOwned, ContentOwned, RecordsOwned, CookiesOwned,
       OwnKeys, Begun

(* A step keeps what is owned if each thing it adds belongs to the client  *)
(* of what it is added to; there is one lemma for each conjunct.           *)
Kept == store' = store /\ \A r \in Begun : r \in Begun' /\ owner'[r] = owner[r]

Owned(keys, c) == \A key \in keys \ {Meta} : key[1] \in Begun' /\ owner'[key[1]] = c

LEMMA SessionsKept ==
    ASSUME SessionsOwned, Kept,
           \A r \in Begun' :
               \/ r \in Begun /\ session'[r] = session[r]
               \/ session'[r] \in Begun' /\ owner'[session'[r]] = owner'[r]
    PROVE  SessionsOwned'
BY DEF SessionsOwned, Kept

LEMMA ContentKept ==
    ASSUME ContentOwned, Kept,
           \A o \in Requests :
               \/ content'[o] = content[o] /\ (o \notin Begun => content[o] = {})
               \/ o \in Begun' /\ Owned(content'[o], owner'[o])
    PROVE  ContentOwned'
BY DEF ContentOwned, Kept, OwnKeys, Owned

LEMMA RecordsKept ==
    ASSUME RecordsOwned, Kept,
           \A id \in known' :
               \/ id \in known /\ sessions'[id] = sessions[id] /\ rows'[id] = rows[id]
               \/ /\ id \in Begun'
                  /\ IF store = "memory"
                     THEN sessions'[id] \in Begun' /\ owner'[sessions'[id]] = owner'[id]
                     ELSE Owned(rows'[id], owner'[id])
    PROVE  RecordsOwned'
<1> SUFFICES ASSUME NEW id \in known'
             PROVE  /\ id \in Begun'
                    /\ IF store = "memory"
                       THEN sessions'[id] \in Begun' /\ owner'[sessions'[id]] = owner'[id]
                       ELSE Owned(rows'[id], owner'[id])
  BY DEF RecordsOwned, Kept, OwnKeys, Owned
<1>1. CASE id \in known /\ sessions'[id] = sessions[id] /\ rows'[id] = rows[id]
  BY <1>1 DEF RecordsOwned, Kept, OwnKeys, Owned
<1> QED
  BY <1>1

LEMMA CookiesKept ==
    ASSUME CookiesOwned, Kept,
           \A c \in Clients :
               \/ cookie'[c] = cookie[c]
               \/ cookie'[c] \in Begun' /\ owner'[cookie'[c]] = c
    PROVE  CookiesOwned'
BY DEF CookiesOwned, Kept

LEMMA CallKeepsOwnership ==
    ASSUME NEW r \in Requests, NEW c \in Clients, Ownership, Call(r, c)
    PROVE  Ownership'
<1> DEFINE id == cookie[c]
<1> USE DEF request, dicts, stored, clients, history
<1>1. /\ r \notin Begun /\ phase' = [phase EXCEPT ![r] = "running"]
      /\ owner' = [owner EXCEPT ![r] = c]
      /\ UNCHANGED <<store, sessions, rows, cookie>>
  BY DEF Call, Begun
<1>2. /\ owner'[r] = c /\ \A q \in Requests \ {r} : owner'[q] = owner[q] /\ phase'[q] = phase[q]
      /\ phase'[r] = "running"
  BY <1>1 DEF Ownership, Functions
<1>3. Begun' = Begun \cup {r}
  BY <1>2 DEF Begun
<1>4. Kept
  BY <1>1, <1>2, <1>3 DEF Kept, Begun
<1>5. id \in known => id \in Begun /\ owner[id] = c
  BY DEF Ownership, RecordsOwned, CookiesOwned, Begun, Requests, None
<1>6. SUFFICES ASSUME NEW s \in Begun', NEW keys,
                      owner'[s] = c, session' = [session EXCEPT ![r] = s],
                      \/ content' = content
                      \/ content' = [content EXCEPT ![r] = keys] /\ Owned(keys, c),
                      known' \subseteq known
               PROVE  Ownership'
  <2>1. CASE GetShared(r, id)
    <3>1. /\ session' = [session EXCEPT ![r] = sessions[id]] /\ content' = content
          /\ known' = known /\ id \in known /\ store = "memory"
      BY <2>1 DEF GetShared, Held
    <3>2. sessions[id] \in Begun /\ owner[sessions[id]] = c
      BY <3>1, <1>5 DEF Ownership, RecordsOwned
    <3>3. sessions[id] \in Begun' /\ owner'[sessions[id]] = c
      BY <3>2, <1>4 DEF Kept
    <3> QED
      BY <3>1, <3>3
  <2>2. CASE GetCopy(r, id)
    <3>1. /\ session' = [session EXCEPT ![r] = r]
          /\ content' = [content EXCEPT ![r] = rows[id] \cup {Meta}]
          /\ known' = known /\ id \in known /\ store # "memory"
      BY <2>2 DEF GetCopy
    <3>2. OwnKeys(rows[id], c)
      BY <3>1, <1>5 DEF Ownership, RecordsOwned
    <3>3. Owned(rows[id] \cup {Meta}, c)
      BY <3>2, <1>4 DEF Kept, OwnKeys, Owned
    <3> QED
      BY <3>1, <3>3, <1>2, <1>3
  <2>3. CASE CreateSession(r, id)
    <3>1. session' = [session EXCEPT ![r] = r] /\ content' = content /\ known' \subseteq known
      BY <2>3 DEF CreateSession
    <3> QED
      BY <3>1, <1>2, <1>3
  <2> QED
    BY <2>1, <2>2, <2>3 DEF Call
<1>7. /\ session'[r] = s /\ \A q \in Requests \ {r} : session'[q] = session[q]
      /\ session' = [q \in Requests |-> session'[q]]
  BY <1>6 DEF Ownership, Functions
<1>8. /\ content'[r] = content[r] \/ Owned(content'[r], c)
      /\ \A q \in Requests \ {r} : content'[q] = content[q]
      /\ content' = [q \in Requests |-> content'[q]]
  <2>1. content = [q \in Requests |-> content[q]]
    BY DEF Ownership, Functions
  <2>2. CASE content' = content
    BY <2>1, <2>2
  <2>3. CASE content' = [content EXCEPT ![r] = keys] /\ Owned(keys, c)
    <3>1. content'[r] = keys
      BY <2>1, <2>3
    <3>2. Owned(content'[r], c)
      BY <3>1, <2>3
    <3> QED
      BY <2>1, <2>3, <3>2
  <2> QED
    BY <1>6, <2>2, <2>3
<1>9. Functions'
  <2>1. phase' = [q \in Requests |-> phase'[q]] /\ owner' = [q \in Requests |-> owner'[q]]
    BY <1>1 DEF Ownership, Functions
  <2>2. \A q \in Begun' : owner'[q] \in Clients
    BY <1>2, <1>3, <1>4 DEF Ownership, Functions, Kept
  <2> QED
    BY <1>1, <1>7, <1>8, <2>1, <2>2 DEF Ownership, Functions
<1>10. SessionsOwned'
  <2>1. \A q \in Begun' :
            \/ q \in Begun /\ session'[q] = session[q]
            \/ session'[q] \in Begun' /\ owner'[session'[q]] = owner'[q]
    BY <1>2, <1>3, <1>6, <1>7 DEF Begun
  <2> QED
    BY <2>1, <1>4, SessionsKept DEF Ownership
<1>11. ContentOwned'
  <2>1. \A o \in Requests \ {r} : content'[o] = content[o] /\ (o \notin Begun => content[o] = {})
    BY <1>8 DEF Ownership, ContentOwned
  <2>2. content[r] = {}
    BY <1>1 DEF Ownership, ContentOwned
  <2>3. r \in Begun' /\ Owned(content'[r], owner'[r])
    BY <1>2, <1>3, <1>8, <2>2 DEF Owned
  <2>4. \A o \in Requests :
            \/ content'[o] = content[o] /\ (o \notin Begun => content[o] = {})
            \/ o \in Begun' /\ Owned(content'[o], owner'[o])
    BY <2>1, <2>3
  <2> QED
    BY <2>4, <1>4, ContentKept DEF Ownership
<1>12. RecordsOwned'
  BY <1>1, <1>4, <1>6, RecordsKept DEF Ownership
<1>13. CookiesOwned'
  BY <1>1, <1>4, CookiesKept DEF Ownership
<1> QED
  BY <1>9, <1>10, <1>11, <1>12, <1>13 DEF Ownership

(* The steps of a request's application that change its SessionDict.       *)
LEMMA ContentStepKeepsOwnership ==
    ASSUME NEW r \in Begun, NEW keys, Ownership,
           content' = [content EXCEPT ![session[r]] = keys],
           \A key \in keys : key = Meta \/ key \in content[session[r]] \/ key[1] = r,
           UNCHANGED <<store, request, stored, clients>>
    PROVE  Ownership'
<1> USE DEF request, stored, clients
<1>1. Begun' = Begun /\ Kept
  BY DEF Begun, Kept
<1>2. session[r] \in Begun /\ owner[session[r]] = owner[r]
  BY DEF Ownership, SessionsOwned
<1>3. Functions'
  BY <1>1 DEF Ownership, Functions
<1>4. /\ content'[session[r]] = keys
      /\ \A o \in Requests \ {session[r]} : content'[o] = content[o]
  BY <1>2 DEF Ownership, Functions, Begun
<1>5. Owned(keys, owner'[session[r]])
  <2>1. OwnKeys(content[session[r]], owner[session[r]])
    BY <1>2 DEF Ownership, ContentOwned, Begun
  <2> QED
    BY <2>1, <1>1, <1>2 DEF OwnKeys, Owned
<1>6. \A o \in Requests :
          \/ content'[o] = content[o] /\ (o \notin Begun => content[o] = {})
          \/ o \in Begun' /\ Owned(content'[o], owner'[o])
  BY <1>1, <1>2, <1>4, <1>5 DEF Ownership, ContentOwned
<1>7. ContentOwned'
  BY <1>1, <1>6, ContentKept DEF Ownership
<1>8. SessionsOwned'
  BY <1>1, SessionsKept DEF Ownership
<1>9. RecordsOwned'
  BY <1>1, RecordsKept DEF Ownership
<1>10. CookiesOwned'
  BY <1>1, CookiesKept DEF Ownership
<1> QED
  BY <1>3, <1>7, <1>8, <1>9, <1>10 DEF Ownership

(* A response puts its request's SessionDict, or its keys, under an id of  *)
(* the same client.                                                        *)
LEMMA ResponseStartKeepsOwnership ==
    ASSUME NEW r \in Requests, Ownership, ResponseStart(r)
    PROVE  Ownership'
<1> USE DEF request, dicts, stored, clients, history
<1>1. /\ r \in Begun /\ UNCHANGED <<store, owner, session, content, cookie>>
      /\ \E p \in {"sending", "refused"} : phase' = [phase EXCEPT ![r] = p]
  BY DEF ResponseStart, SaveInMemory, SaveInDatabase, SaveFails, Begun
<1>2. /\ phase' = [q \in Requests |-> phase'[q]] /\ phase'[r] # "new"
      /\ \A q \in Requests \ {r} : phase'[q] = phase[q]
  BY <1>1 DEF Ownership, Functions
<1>3. Begun' = Begun
  BY <1>1, <1>2 DEF Begun
<1>4. Kept
  BY <1>1, <1>3 DEF Kept
<1>5. session[r] \in Begun /\ owner[session[r]] = owner[r]
  BY <1>1 DEF Ownership, SessionsOwned
<1>6. OwnKeys(content[session[r]], owner[r])
  BY <1>5 DEF Ownership, ContentOwned, Begun
<1>7. Owned(content[session[r]], owner'[r])
  BY <1>1, <1>3, <1>6 DEF OwnKeys, Owned
<1>8. /\ sessions' = [q \in Requests |-> sessions'[q]] /\ rows' = [q \in Requests |-> rows'[q]]
      /\ \A id \in known' :
            \/ id \in known /\ sessions'[id] = sessions[id] /\ rows'[id] = rows[id]
            \/ id = r /\ IF store = "memory" THEN sessions'[id] = session[r]
                         ELSE rows'[id] = content[session[r]]
  <2>1. /\ sessions = [q \in Requests |-> sessions[q]] /\ rows = [q \in Requests |-> rows[q]]
        /\ known \subseteq Requests
    BY DEF Ownership, Functions, RecordsOwned, Begun
  <2>2. CASE SaveInMemory(r, r)
    BY <2>1, <2>2 DEF SaveInMemory
  <2>3. CASE SaveInDatabase(r, r)
    BY <2>1, <2>3 DEF SaveInDatabase
  <2>4. CASE SaveFails(r)
    BY <2>1, <2>4 DEF SaveFails
  <2> QED
    BY <2>2, <2>3, <2>4 DEF ResponseStart, CreateSessionId
<1>9. RecordsOwned'
  <2>1. \A id \in known' :
            \/ id \in known /\ sessions'[id] = sessions[id] /\ rows'[id] = rows[id]
            \/ /\ id \in Begun'
               /\ IF store = "memory" THEN sessions'[id] \in Begun' /\ owner'[sessions'[id]] = owner'[id]
                  ELSE Owned(rows'[id], owner'[id])
    BY <1>1, <1>3, <1>5, <1>7, <1>8
  <2> QED
    BY <2>1, <1>4, RecordsKept DEF Ownership
<1>10. Functions'
  BY <1>1, <1>2, <1>3, <1>8 DEF Ownership, Functions
<1>11. SessionsOwned'
  BY <1>1, <1>3, <1>4, SessionsKept DEF Ownership
<1>12. ContentOwned'
  <2>1. \A o \in Requests : content'[o] = content[o] /\ (o \notin Begun => content[o] = {})
    BY <1>1 DEF Ownership, ContentOwned
  <2> QED
    BY <2>1, <1>4, ContentKept DEF Ownership
<1>13. CookiesOwned'
  BY <1>1, <1>4, CookiesKept DEF Ownership
<1> QED
  BY <1>9, <1>10, <1>11, <1>12, <1>13 DEF Ownership

(* A step that adds nothing.                                               *)
LEMMA OwnershipSame ==
    ASSUME Ownership,
           UNCHANGED <<store, phase, owner, session, content, known, sessions, rows, cookie>>
    PROVE  Ownership'
<1>1. Begun' = Begun
  BY DEF Begun
<1>2. Functions'
  BY <1>1 DEF Ownership, Functions
<1>3. SessionsOwned'
  BY <1>1 DEF Ownership, SessionsOwned
<1>4. ContentOwned'
  BY <1>1 DEF Ownership, ContentOwned, OwnKeys
<1>5. RecordsOwned'
  BY <1>1 DEF Ownership, RecordsOwned, OwnKeys
<1>6. CookiesOwned'
  BY <1>1 DEF Ownership, CookiesOwned
<1> QED
  BY <1>2, <1>3, <1>4, <1>5, <1>6 DEF Ownership

LEMMA OwnershipNext == Ownership /\ [Next]_vars => Ownership'
<1> SUFFICES ASSUME Ownership, [Next]_vars PROVE Ownership'
  OBVIOUS
<1> USE DEF request, dicts, stored, clients, history
<1>1. ASSUME NEW r \in Requests, NEW c \in Clients, Call(r, c) PROVE Ownership'
  BY <1>1, CallKeepsOwnership
<1>2. ASSUME NEW r \in Requests, SetItem(r) PROVE Ownership'
  <2>1. r \in Begun
    BY <1>2 DEF SetItem, Awake, Begun
  <2> DEFINE added == <<r, Cardinality(SetKeys(r)) + 1>>
             keys == content[session[r]] \cup {added}
  <2>2. content' = [content EXCEPT ![session[r]] = keys]
        /\ UNCHANGED <<store, request, stored, clients>>
    BY <1>2 DEF SetItem
  <2>3. \A key \in keys : key = Meta \/ key \in content[session[r]] \/ key[1] = r
    OBVIOUS
  <2> HIDE DEF keys
  <2> QED
    BY <2>1, <2>2, <2>3, ContentStepKeepsOwnership
<1>3. ASSUME NEW r \in Requests, ChangeFrozen(r) PROVE Ownership'
  <2>1. r \in Begun
    BY <1>3 DEF ChangeFrozen, Awake, Begun
  <2> DEFINE added == <<r, Cardinality(SetKeys(r)) + 1>>
             keys == content[session[r]] \cup {added}
  <2>2. content' = [content EXCEPT ![session[r]] = keys]
        /\ UNCHANGED <<store, request, stored, clients>>
    BY <1>3 DEF ChangeFrozen
  <2>3. \A key \in keys : key = Meta \/ key \in content[session[r]] \/ key[1] = r
    OBVIOUS
  <2> HIDE DEF keys
  <2> QED
    BY <2>1, <2>2, <2>3, ContentStepKeepsOwnership
<1>4. ASSUME NEW r \in Requests, Clear(r) PROVE Ownership'
  <2>1. r \in Begun
    BY <1>4 DEF Clear, Awake, Begun
  <2>2. content' = [content EXCEPT ![session[r]] = {}]
        /\ UNCHANGED <<store, request, stored, clients>>
    BY <1>4 DEF Clear
  <2> DEFINE keys == {}
  <2>3. \A key \in keys : key = Meta \/ key \in content[session[r]] \/ key[1] = r
    OBVIOUS
  <2>4. content' = [content EXCEPT ![session[r]] = keys]
    BY <2>2
  <2> HIDE DEF keys
  <2> QED
    BY <2>1, <2>2, <2>3, <2>4, ContentStepKeepsOwnership
<1>5. ASSUME NEW r \in Requests, ResponseStart(r) PROVE Ownership'
  BY <1>5, ResponseStartKeepsOwnership
<1>6. ASSUME NEW r \in Requests, ResponseArrives(r) PROVE Ownership'
  <2>1. r \in Begun /\ Begun' = Begun /\ owner[r] \in Clients
    BY <1>6 DEF ResponseArrives, Begun, Ownership, Functions
  <2> QED
    BY <1>6, <2>1
    DEF ResponseArrives, CreateSessionId, Ownership, Functions, SessionsOwned, ContentOwned,
        RecordsOwned, CookiesOwned, OwnKeys
<1>7. ASSUME NEW r \in Requests, NEW ok \in BOOLEAN, StartSent(r, ok) PROVE Ownership'
  <2>1. Begun' = Begun
    BY <1>7 DEF StartSent, Begun, Ownership, Functions
  <2> QED
    BY <1>7, <2>1
    DEF StartSent, Ownership, Functions, SessionsOwned, ContentOwned, RecordsOwned, CookiesOwned, OwnKeys
<1>8. ASSUME NEW o \in Requests, Expire(o) PROVE Ownership'
  BY <1>8, OwnershipSame DEF Expire
<1>9. CASE Restart
  <2>1. Begun' = Begun /\ known' \subseteq known
    BY <1>9 DEF Restart, Begun
  <2> QED
    BY <1>9, <2>1
    DEF Restart, Ownership, Functions, SessionsOwned, ContentOwned, RecordsOwned, CookiesOwned, OwnKeys
<1>10. CASE UNCHANGED vars
  BY <1>10, OwnershipSame DEF vars
<1> QED
  BY <1>1, <1>2, <1>3, <1>4, <1>5, <1>6, <1>7, <1>8, <1>9, <1>10 DEF Next

(* No request ever sees a key that another client's request has set, with  *)
(* either store and however requests overlap, sessions expire or the       *)
(* process is started again (get_session, save_session).                   *)
THEOREM SessionsAreIsolated == Spec => []Isolation
<1>1. Ownership => Isolation
  BY DEF Ownership, SessionsOwned, ContentOwned, OwnKeys, Isolation, Begun
<1> QED
  BY <1>1, OwnershipInit, OwnershipNext, PTL DEF Spec

-----------------------------------------------------------------------------
(* What a saved session holds.  In memory the id leads to the response's   *)
(* own SessionDict, which is frozen once the response is sent, and the same *)
(* unless somebody goes round the freeze; in the database to a row that    *)
(* nothing writes again.                                                   *)
Tables ==
    /\ store \in {"memory", "database"} /\ restarts \in Nat
    /\ modifiable = [o \in Requests |-> modifiable[o]]
    /\ stale = [o \in Requests |-> stale[o]]
    /\ saved = [r \in Requests |-> saved[r]]

NoMeta == store = "memory" => \A o \in Requests : Meta \notin content[o]

StaleLapsed ==
    store = "memory" => \A id \in known : stale[sessions[id]] => id \in lapsed

InMemory(id) ==
    /\ sessions[id] = session[id]
    /\ restarts = 0 => id \in known \/ id \in lapsed
    /\ phase[id] = "started" => ~modifiable[session[id]]
    /\ phase[id] = "started" /\ session[id] \notin thawed => saved[id] = content[session[id]]

InDatabase(id) ==
    /\ id \in known /\ Meta \notin rows[id]
    /\ phase[id] = "started" => saved[id] = rows[id]

Saves ==
    \A id \in Requests : phase[id] \in {"sending", "started"} =>
        IF store = "memory" THEN InMemory(id) ELSE InDatabase(id)

Frozen == Tables /\ NoMeta /\ StaleLapsed /\ Saves

LEMMA FrozenInit == Init => Frozen
BY DEF Init, Frozen, Tables, NoMeta, StaleLapsed, Saves

LEMMA CallFreezes ==
    ASSUME NEW r \in Requests, NEW c \in Clients, Ownership, Frozen, Call(r, c)
    PROVE  Frozen'
<1> DEFINE id == cookie[c]
<1> USE DEF request, dicts, stored, clients, history
<1>1. /\ phase' = [phase EXCEPT ![r] = "running"] /\ phase[r] = "new"
      /\ UNCHANGED <<store, modifiable, stale, sessions, rows, restarts, history>>
      /\ GetShared(r, id) \/ GetCopy(r, id) \/ CreateSession(r, id)
  BY DEF Call
<1>2. /\ phase'[r] = "running" /\ \A q \in Requests \ {r} : phase'[q] = phase[q]
  BY <1>1 DEF Ownership, Functions
<1>3. \A q \in Requests \ {r} : session'[q] = session[q] /\ content'[q] = content[q]
  BY <1>1 DEF GetShared, GetCopy, CreateSession, Ownership, Functions
<1>4. \A q \in Requests : phase[q] # "new" => session[q] \in Requests \ {r}
  BY <1>1 DEF Ownership, SessionsOwned, Begun
<1>5. store = "memory" => content' = content
  BY <1>1 DEF GetShared, GetCopy, CreateSession
<1>6. known' \subseteq known /\ \A q \in known \ known' : store = "memory" /\ stale[sessions[q]]
  BY <1>1 DEF GetShared, GetCopy, CreateSession, Held
<1>7. Tables' /\ NoMeta'
  BY <1>1, <1>5 DEF Frozen, Tables, NoMeta
<1>8. StaleLapsed'
  BY <1>1, <1>6 DEF Frozen, StaleLapsed
<1>9. ASSUME NEW q \in Requests, phase'[q] \in {"sending", "started"}
      PROVE  IF store' = "memory" THEN InMemory(q)' ELSE InDatabase(q)'
  <2>1. q # r /\ phase'[q] = phase[q] /\ session'[q] = session[q]
        /\ content'[session[q]] = content[session[q]]
    BY <1>2, <1>3, <1>4, <1>9
  <2>2. IF store = "memory" THEN InMemory(q) ELSE InDatabase(q)
    BY <1>9, <2>1 DEF Frozen, Saves
  <2>3. q \in known => q \in known' \/ (store = "memory" /\ q \in lapsed)
    <3>1. ASSUME q \in known, q \notin known' PROVE store = "memory" /\ q \in lapsed
      BY <1>6, <3>1 DEF Frozen, StaleLapsed
    <3> QED
      BY <3>1
  <2> QED
    BY <1>1, <2>1, <2>2, <2>3 DEF InMemory, InDatabase
<1> QED
  BY <1>7, <1>8, <1>9 DEF Frozen, Saves

(* A key that is set, or all that are cleared, in a SessionDict that is    *)
(* not frozen, or is from now on known to have been changed.               *)
LEMMA ContentStepFreezes ==
    ASSUME NEW r \in Requests, NEW keys, Ownership, Frozen, Awake(r), modifiable[session[r]] \/ session[r] \in thawed',
           content' = [content EXCEPT ![session[r]] = keys],
           Meta \in keys => Meta \in content[session[r]],
           thawed \subseteq thawed',
           UNCHANGED <<store, request, modifiable, stale, stored, clients, restarts, saved, lapsed>>
    PROVE  Frozen'
<1> USE DEF request, stored, clients, history
<1>1. session[r] \in Requests
  BY DEF Ownership, SessionsOwned, Begun, Awake
<1>2. content'[session[r]] = keys
      /\ \A o \in Requests \ {session[r]} : content'[o] = content[o]
  BY <1>1 DEF Ownership, Functions
<1>3. Tables' /\ NoMeta' /\ StaleLapsed'
  BY <1>1, <1>2 DEF Frozen, Tables, NoMeta, StaleLapsed
<1>4. \A q \in Requests : phase[q] # "new" => session[q] \in Requests
  BY DEF Ownership, SessionsOwned, Begun
<1> QED
  BY <1>2, <1>3, <1>4 DEF Frozen, Saves, InMemory, InDatabase

LEMMA ResponseStartFreezes ==
    ASSUME NEW r \in Requests, Ownership, Frozen, ResponseStart(r)
    PROVE  Frozen'
<1> USE DEF request, dicts, stored, clients, history
<1>1. /\ phase[r] \in {"running", "refused"}
      /\ UNCHANGED <<store, session, content, modifiable, restarts, history>>
      /\ SaveInMemory(r, r) \/ SaveInDatabase(r, r) \/ SaveFails(r)
  BY DEF ResponseStart, CreateSessionId
<1>2. /\ phase'[r] \in {"sending", "refused"}
      /\ \A q \in Requests \ {r} : phase'[q] = phase[q] /\ sessions'[q] = sessions[q]
                                  /\ rows'[q] = rows[q]
      /\ known \subseteq known' /\ known' \subseteq known \cup {r}
  BY <1>1 DEF SaveInMemory, SaveInDatabase, SaveFails, Ownership, Functions
<1>3. session[r] \in Requests
  BY <1>1 DEF Ownership, SessionsOwned, Begun
<1>4. known \subseteq Requests
  BY DEF Ownership, RecordsOwned, Begun
<1>5. Tables' /\ NoMeta'
  BY <1>1 DEF Frozen, Tables, NoMeta, SaveInMemory, SaveInDatabase, SaveFails
<1>6. StaleLapsed'
  <2>1. CASE SaveInMemory(r, r)
    <3>1. sessions'[r] = session[r] /\ stale'[session[r]] = FALSE
          /\ \A o : o # session[r] => stale'[o] = stale[o]
      BY <1>3, <2>1 DEF SaveInMemory, Frozen, Tables, Ownership, Functions
    <3> QED
      BY <1>1, <1>2, <1>4, <3>1 DEF Frozen, StaleLapsed
  <2>2. CASE SaveInDatabase(r, r) \/ SaveFails(r)
    BY <1>1, <2>2 DEF StaleLapsed, SaveInDatabase, SaveFails
  <2> QED
    BY <1>1, <2>1, <2>2
<1>7. ASSUME NEW q \in Requests, phase'[q] \in {"sending", "started"}
      PROVE  IF store' = "memory" THEN InMemory(q)' ELSE InDatabase(q)'
  <2>1. CASE q = r
    <3>1. phase'[r] = "sending"
      BY <1>2, <1>7, <2>1
    <3>2. CASE SaveInMemory(r, r)
      BY <1>1, <2>1, <3>1, <3>2 DEF SaveInMemory, InMemory, Ownership, Functions
    <3>3. CASE SaveInDatabase(r, r)
      BY <1>1, <2>1, <3>1, <3>3 DEF SaveInDatabase, InDatabase, Ownership, Functions, Fits
    <3>4. ASSUME SaveFails(r) PROVE FALSE
      BY <3>1, <3>4 DEF SaveFails, Ownership, Functions
    <3> QED
      BY <1>1, <3>2, <3>3, <3>4
  <2>2. CASE q # r
    BY <1>1, <1>2, <1>7, <2>2 DEF Frozen, Saves, InMemory, InDatabase
  <2> QED
    BY <2>1, <2>2
<1> QED
  BY <1>5, <1>6, <1>7 DEF Frozen, Saves

LEMMA StartSentFreezes ==
    ASSUME NEW r \in Requests, NEW ok \in BOOLEAN, Ownership, Frozen, StartSent(r, ok)
    PROVE  Frozen'
<1> USE DEF request, dicts, stored, clients, history
<1>1. /\ phase[r] = "sending"
      /\ UNCHANGED <<store, session, content, stale, known, sessions, rows, restarts, thawed, lapsed>>
      /\ saved' = [saved EXCEPT ![r] = Record(r)]
      /\ modifiable' = [modifiable EXCEPT ![session[r]] = FALSE]
  BY DEF StartSent, CreateSessionId
<1>2. phase'[r] \in {"started", "failed"} /\ \A q \in Requests \ {r} : phase'[q] = phase[q]
  BY DEF StartSent, Ownership, Functions
<1>3. session[r] \in Requests
  BY <1>1 DEF Ownership, SessionsOwned, Begun
<1>4. /\ ~modifiable'[session[r]] /\ \A o : modifiable'[o] => modifiable[o]
      /\ saved'[r] = Record(r) /\ \A q \in Requests \ {r} : saved'[q] = saved[q]
  BY <1>1, <1>3 DEF Frozen, Tables
<1>5. Tables' /\ NoMeta' /\ StaleLapsed'
  BY <1>1 DEF Frozen, Tables, NoMeta, StaleLapsed
<1>6. ASSUME NEW q \in Requests, phase'[q] \in {"sending", "started"}
      PROVE  IF store' = "memory" THEN InMemory(q)' ELSE InDatabase(q)'
  <2>1. IF store = "memory" THEN InMemory(q) ELSE InDatabase(q)
    BY <1>1, <1>2, <1>6 DEF Frozen, Saves
  <2>2. CASE q = r
    BY <1>1, <1>4, <2>1, <2>2 DEF InMemory, InDatabase, Record
  <2>3. CASE q # r
    BY <1>1, <1>2, <1>4, <2>1, <2>3 DEF InMemory, InDatabase
  <2> QED
    BY <2>2, <2>3
<1> QED
  BY <1>5, <1>6 DEF Frozen, Saves

LEMMA FrozenNext == Ownership /\ Frozen /\ [Next]_vars => Frozen'
<1> SUFFICES ASSUME Ownership, Frozen, [Next]_vars PROVE Frozen'
  OBVIOUS
<1> USE DEF request, dicts, stored, clients, history
<1>1. ASSUME NEW r \in Requests, NEW c \in Clients, Call(r, c) PROVE Frozen'
  BY <1>1, CallFreezes
<1>2. ASSUME NEW r \in Requests, SetItem(r) PROVE Frozen'
  <2> DEFINE keys == content[session[r]] \cup {<<r, Cardinality(SetKeys(r)) + 1>>}
  <2>1. /\ content' = [content EXCEPT ![session[r]] = keys] /\ Awake(r) /\ modifiable[session[r]]
        /\ UNCHANGED <<store, request, modifiable, stale, stored, clients, restarts, history>>
    BY <1>2 DEF SetItem
  <2>2. Meta \in keys => Meta \in content[session[r]]
    BY DEF Meta, Requests
  <2> HIDE DEF keys
  <2> QED
    BY <2>1, <2>2, ContentStepFreezes
<1>3. ASSUME NEW r \in Requests, ChangeFrozen(r) PROVE Frozen'
  <2> DEFINE keys == content[session[r]] \cup {<<r, Cardinality(SetKeys(r)) + 1>>}
  <2>1. /\ content' = [content EXCEPT ![session[r]] = keys] /\ Awake(r)
        /\ session[r] \in thawed' /\ thawed \subseteq thawed'
        /\ UNCHANGED <<store, request, modifiable, stale, stored, clients, restarts, saved, lapsed>>
    BY <1>3 DEF ChangeFrozen
  <2>2. Meta \in keys => Meta \in content[session[r]]
    BY DEF Meta, Requests
  <2> HIDE DEF keys
  <2> QED
    BY <2>1, <2>2, ContentStepFreezes
<1>4. ASSUME NEW r \in Requests, Clear(r) PROVE Frozen'
  <2> DEFINE keys == {}
  <2>1. /\ content' = [content EXCEPT ![session[r]] = keys] /\ Awake(r) /\ modifiable[session[r]]
        /\ UNCHANGED <<store, request, modifiable, stale, stored, clients, restarts, history>>
    BY <1>4 DEF Clear
  <2>2. Meta \in keys => Meta \in content[session[r]]
    OBVIOUS
  <2> HIDE DEF keys
  <2> QED
    BY <2>1, <2>2, ContentStepFreezes
<1>5. ASSUME NEW r \in Requests, ResponseStart(r) PROVE Frozen'
  BY <1>5, ResponseStartFreezes
<1>6. ASSUME NEW r \in Requests, ResponseArrives(r) PROVE Frozen'
  BY <1>6 DEF ResponseArrives, Frozen, Tables, NoMeta, StaleLapsed, Saves, InMemory, InDatabase
<1>7. ASSUME NEW r \in Requests, NEW ok \in BOOLEAN, StartSent(r, ok) PROVE Frozen'
  BY <1>7, StartSentFreezes
<1>8. ASSUME NEW o \in Requests, Expire(o) PROVE Frozen'
  <2>1. /\ UNCHANGED <<store, phase, session, content, modifiable, known, sessions, rows, restarts, saved, thawed>>
        /\ lapsed \subseteq lapsed' /\ stale' = [stale EXCEPT ![o] = TRUE]
        /\ \A id \in known : sessions[id] = o => id \in lapsed'
    BY <1>8 DEF Expire
  <2>2. Tables' /\ NoMeta' /\ Saves'
    BY <2>1 DEF Frozen, Tables, NoMeta, Saves, InMemory, InDatabase
  <2>3. StaleLapsed'
    BY <2>1 DEF Frozen, Tables, StaleLapsed
  <2> QED
    BY <2>2, <2>3 DEF Frozen
<1>9. CASE Restart
  <2>1. \A q \in Requests : phase'[q] \in {"sending", "started"} => phase'[q] = "started" /\ phase[q] = "started"
    BY <1>9 DEF Restart
  <2>2. restarts' \in Nat /\ restarts' # 0
    BY <1>9 DEF Restart, Frozen, Tables
  <2>3. Tables' /\ NoMeta' /\ StaleLapsed'
    BY <1>9, <2>2 DEF Restart, Frozen, Tables, NoMeta, StaleLapsed
  <2>4. Saves'
    BY <1>9, <2>1, <2>2 DEF Restart, Frozen, Tables, Saves, InMemory, InDatabase
  <2> QED
    BY <2>3, <2>4 DEF Frozen
<1>10. CASE UNCHANGED vars
  BY <1>10 DEF vars, Frozen, Tables, NoMeta, StaleLapsed, Saves, InMemory, InDatabase
<1> QED
  BY <1>1, <1>2, <1>3, <1>4, <1>5, <1>6, <1>7, <1>8, <1>9, <1>10 DEF Next

LEMMA OnlyCallsBegin ==
    ASSUME Ownership, [Next]_vars, NEW r \in Requests, phase[r] = "new", phase'[r] = "running"
    PROVE  \E c \in Clients : Call(r, c)
<1> USE DEF request, dicts, stored, clients, history
<1>1. phase = [q \in Requests |-> phase[q]]
  BY DEF Ownership, Functions
<1>2. ASSUME NEW q \in Requests, NEW c \in Clients, Call(q, c) PROVE q = r
  BY <1>1, <1>2 DEF Call
<1>3. ASSUME NEW q \in Requests, SetItem(q) \/ ChangeFrozen(q) \/ Clear(q) \/ ResponseArrives(q) PROVE FALSE
  BY <1>3 DEF SetItem, ChangeFrozen, Clear, ResponseArrives
<1>4. ASSUME NEW q \in Requests, ResponseStart(q) PROVE FALSE
  BY <1>1, <1>4 DEF ResponseStart, SaveInMemory, SaveInDatabase, SaveFails
<1>5. ASSUME NEW q \in Requests, NEW ok \in BOOLEAN, StartSent(q, ok) PROVE FALSE
  BY <1>1, <1>5 DEF StartSent
<1>6. ASSUME NEW o \in Requests, Expire(o) PROVE FALSE
  BY <1>6 DEF Expire
<1>7. ASSUME Restart PROVE FALSE
  BY <1>7 DEF Restart
<1>8. ASSUME UNCHANGED vars PROVE FALSE
  BY <1>8 DEF vars
<1> QED
  BY <1>2, <1>3, <1>4, <1>5, <1>6, <1>7, <1>8 DEF Next

LEMMA CallReads ==
    ASSUME Ownership, Frozen, [Next]_vars, NEW r \in Requests, NEW id \in Requests, Reads(r, id)
    PROVE  content'[session'[r]] \ {Meta} = saved[id]
<1>1. PICK c \in Clients : Call(r, c)
  BY OnlyCallsBegin DEF Reads
<1>2. /\ owner'[r] = c /\ id = cookie[c] /\ r \notin Begun
      /\ GetShared(r, id) \/ GetCopy(r, id) \/ CreateSession(r, id)
  BY <1>1 DEF Call, Reads, Ownership, Functions, Begun
<1>3. IF store = "memory" THEN InMemory(id) ELSE InDatabase(id)
  BY DEF Reads, Frozen, Saves
<1>4. store = "memory" => id \in known /\ restarts = 0 /\ ~stale[sessions[id]]
  BY <1>3 DEF Reads, InMemory, Frozen, StaleLapsed
<1>5. session[id] \in Requests
  BY DEF Ownership, SessionsOwned, Begun, Reads
<1>6. content[r] = {}
  BY <1>2 DEF Ownership, ContentOwned
<1>7. CASE GetShared(r, id)
  <2>1. store = "memory" /\ content' = content /\ session'[r] = session[id]
    BY <1>3, <1>7 DEF GetShared, Held, InMemory, Ownership, Functions
  <2>2. saved[id] = content[session[id]] /\ Meta \notin content[session[id]]
    BY <1>3, <1>5, <2>1 DEF InMemory, Reads, Frozen, NoMeta
  <2> QED
    BY <2>1, <2>2
<1>8. CASE GetCopy(r, id)
  <2>1. store = "database" /\ session'[r] = r /\ content'[r] = rows[id] \cup {Meta}
    BY <1>8 DEF GetCopy, Ownership, Functions
  <2>2. saved[id] = rows[id] /\ Meta \notin rows[id]
    BY <1>3, <2>1 DEF InDatabase, Reads
  <2> QED
    BY <2>1, <2>2
<1>9. CASE CreateSession(r, id)
  <2>1. session'[r] = r /\ content' = content /\ store = "memory"
    BY <1>3, <1>9 DEF CreateSession, InDatabase, Ownership, Functions
  <2>2. content[sessions[id]] = {}
    BY <1>4, <1>9, <2>1 DEF CreateSession, Held
  <2>3. saved[id] = {}
    BY <1>3, <2>1, <2>2 DEF InMemory, Reads
  <2> QED
    BY <1>6, <2>1, <2>3
<1> QED
  BY <1>2, <1>7, <1>8, <1>9

(* A request whose cookie names a response that was sent finds the session *)
(* as it was then, however many requests have shared it since; unless the  *)
(* session grew stale, was changed round the freeze in memory, or was in   *)
(* the memory of a process that is gone (wrapped_send's modifiable =       *)
(* False, get_session).                                                    *)
THEOREM SavedSessionsAreRead == Spec => ReadYourWrites
<1>1. Ownership /\ Frozen /\ [Next]_vars =>
        [\A r, id \in Requests : Reads(r, id) => content'[session'[r]] \ {Meta} = saved[id]]_vars
  BY CallReads
<1> QED
  BY <1>1, OwnershipInit, OwnershipNext, FrozenInit, FrozenNext, PTL DEF Spec, ReadYourWrites

=============================================================================
