---------------------------- MODULE HttpSessions ----------------------------
(***************************************************************************)
(* The HTTP transport's session table (Sessions, Session and               *)
(* HttpServer::respond in transport/http.rs).  A Server is built for every *)
(* request; what the client established earlier is restored into it before *)
(* the request and absorbed from it afterwards, under the session's own    *)
(* lock, and the table is visited under another.  Requests of one session  *)
(* run in parallel.                                                        *)
(*                                                                         *)
(* One identity is modelled: it is part of every key, so the sessions of   *)
(* two identities are never the same entry.  Each request is made once.    *)
(* The table is kept in order of last use; since no time is modelled, a    *)
(* sweep may find any number of the least recently used entries expired.   *)
(***************************************************************************)
EXTENDS Integers, Sequences, SequencesExt

CONSTANTS
    Requests,       \* the HTTP requests that will be made
    Ids,            \* the session ids random_hex_id draws, each once
    None,           \* absent: no session, level or store
    MaxSessions,    \* MAX_SESSIONS
    RequireInit,    \* ServerConfig::require_initialization
    Levels,         \* the levels clients set
    DefaultLevel,   \* ServerConfig::default_log_level
    Capabilities    \* the sets of capabilities clients declare

ASSUME SessionsAssumption ==
    /\ MaxSessions \in Nat \ {0}
    /\ RequireInit \in BOOLEAN
    /\ None \notin Levels \cup {DefaultLevel} \cup Capabilities \cup Requests \cup Ids

VARIABLES
    table,      \* Sessions::live, its ids, least recently used first
    session,    \* session[s]: the Session behind its lock
    drawn,      \* the ids drawn so far
    at,         \* at[q]: where the request is in respond()
    cur,        \* cur[q]: the session it was given
    serverOf,   \* serverOf[q]: the state of the Server built for it
    recording,  \* the task stores that hold a record
    known,      \* history: ids some client has been told
    ended,      \* history: ids whose DELETE was answered 204
    promised,   \* history: ids a client was told after its handshake
    setting,    \* history: setting[q], the level the request set
    lastSet     \* history: lastSet[s], the level of the last setLevel absorbed

sessionsVars ==
    <<table, session, drawn, at, cur, serverOf, recording, known, ended, promised, setting, lastSet>>

\* negotiated_version is set where initialized is.
SessionState ==
    [level : Levels \cup {DefaultLevel, None}, caps : Capabilities \cup {None},
     initialized : BOOLEAN, store : Requests \cup {None}]
ServerState ==
    [level : Levels \cup {DefaultLevel}, caps : Capabilities \cup {None},
     initialized : BOOLEAN, store : Requests]

Stages == {"new", "out", "restored", "dispatched", "deciding", "keep", "drop", "done"}

Fresh(q) == [level |-> DefaultLevel, caps |-> None, initialized |-> FALSE, store |-> q]
Default  == [level |-> None, caps |-> None, initialized |-> FALSE, store |-> None]

SessionsTypeOK ==
    /\ table \in Seq(Ids)
    /\ IsInjective(table)
    /\ Len(table) <= MaxSessions
    /\ session \in [Ids -> SessionState]
    /\ drawn \subseteq Ids
    /\ at \in [Requests -> Stages]
    /\ cur \in [Requests -> Ids \cup {None}]
    /\ serverOf \in [Requests -> ServerState]
    /\ recording \subseteq Requests
    /\ known \subseteq drawn
    /\ ended \subseteq drawn
    /\ promised \subseteq known
    /\ setting \in [Requests -> Levels \cup {None}]
    /\ lastSet \in [Ids -> Levels \cup {DefaultLevel}]

-----------------------------------------------------------------------------
(* The table *)

Listed(t, s)  == Contains(t, s)
Place(t, s)   == CHOOSE i \in DOMAIN t : t[i] = s
Removed(t, s) == IF Listed(t, s) THEN RemoveAt(t, Place(t, s)) ELSE t

Used(t, s)    == Append(Removed(t, s), s)

\* sweep: entries idle for too long are the ones used least recently.
Swept(t, expired) == SubSeq(t, expired + 1, Len(t))

\* Mutation: the ceiling is off by one.
Evicted_OffByOne(t) ==
    IF Len(t) > MaxSessions + 1 THEN SubSeq(t, Len(t) - MaxSessions, Len(t)) ELSE t

\* evict_oldest, down to the ceiling.
Evicted(t) == IF Len(t) > MaxSessions THEN SubSeq(t, Len(t) - MaxSessions + 1, Len(t)) ELSE t

-----------------------------------------------------------------------------
(* One session *)

\* Session::restore into the server built for q; the first request that brings a
\* task store donates it.
Restored(q, s) ==
    [level       |-> IF s.level = None THEN DefaultLevel ELSE s.level,
     caps        |-> s.caps,
     initialized |-> s.initialized,
     store       |-> IF s.store = None THEN q ELSE s.store]

\* Mutation: a donated store is not remembered.
Donated_Forgotten(q, s) == s

Donated(q, s) == [s EXCEPT !.store = IF @ = None THEN q ELSE @]

\* Mutation: what the request's server holds is assigned, not merged.
Absorbed_Assigned(s, srv) ==
    [s EXCEPT !.level = srv.level, !.caps = srv.caps, !.initialized = srv.initialized]

\* Session::absorb: the level unless it is the default, what is declared unless
\* nothing is.
Absorbed(s, srv) ==
    [s EXCEPT !.level = IF srv.level # DefaultLevel THEN srv.level ELSE @,
              !.caps = IF srv.caps # None THEN srv.caps ELSE @,
              !.initialized = @ \/ srv.initialized]

WorthKeeping(s) == s.initialized \/ s.level # None \/ s.store \in recording

-----------------------------------------------------------------------------
(* One request: HttpServer::respond *)

history == <<known, ended, promised, setting, lastSet>>

RequestAt(q, stage) == at' = [at EXCEPT ![q] = stage]

\* checkout without a session id: a brand-new session, not in the table yet.
CheckoutNew(q, s) ==
    /\ at[q] = "new"
    /\ s \notin drawn
    /\ \E expired \in 0 .. Len(table) : table' = Swept(table, expired)
    /\ drawn' = drawn \cup {s}
    /\ cur' = [cur EXCEPT ![q] = s]
    /\ RequestAt(q, "out")
    /\ UNCHANGED <<session, serverOf, recording, history>>

\* checkout of a session some client was told of: it, or 404.
Checkout(q, s) ==
    /\ at[q] = "new"
    /\ s \in known
    /\ \E expired \in 0 .. Len(table) :
          LET swept == Swept(table, expired) IN
          \/ /\ Listed(swept, s)
             /\ table' = Used(swept, s)
             /\ cur' = [cur EXCEPT ![q] = s]
             /\ RequestAt(q, "out")
          \/ /\ ~Listed(swept, s)
             /\ table' = swept
             /\ UNCHANGED cur
             /\ RequestAt(q, "done")
    /\ UNCHANGED <<session, drawn, serverOf, recording, history>>

\* The body is refused: nothing is checked in.
BodyRejected(q) ==
    /\ at[q] = "out"
    /\ RequestAt(q, "done")
    /\ UNCHANGED <<table, session, drawn, cur, serverOf, recording, history>>

Restore(q) ==
    /\ at[q] = "out"
    /\ serverOf' = [serverOf EXCEPT ![q] = Restored(q, session[cur[q]])]
    /\ session' = [session EXCEPT ![cur[q]] = Donated(q, @)]
    /\ RequestAt(q, "restored")
    /\ UNCHANGED <<table, drawn, cur, recording, history>>

\* process_one: the message changes the server built for it, or starts a task in
\* the store it was given, or - refused, or of another kind - does neither.
Dispatch(q) ==
    /\ at[q] = "restored"
    /\ \/ \E caps \in Capabilities \cup {None} :
             /\ RequireInit => ~serverOf[q].initialized
             /\ serverOf' = [serverOf EXCEPT ![q] = [@ EXCEPT !.caps = caps, !.initialized = TRUE]]
             /\ UNCHANGED <<recording, setting>>
       \/ \E level \in Levels :
             /\ RequireInit => serverOf[q].initialized
             /\ serverOf' = [serverOf EXCEPT ![q] = [@ EXCEPT !.level = level]]
             /\ setting' = [setting EXCEPT ![q] = level]
             /\ UNCHANGED recording
       \/ /\ RequireInit => serverOf[q].initialized
          /\ recording' = recording \cup {serverOf[q].store}
          /\ UNCHANGED <<serverOf, setting>>
       \/ UNCHANGED <<serverOf, recording, setting>>
    /\ RequestAt(q, "dispatched")
    /\ UNCHANGED <<table, session, drawn, cur, known, ended, promised, lastSet>>

\* The context factory panics or setup fails before restore, or the dispatch
\* panics after it: the failure is contained, and skips absorb.
Panic(q) ==
    /\ at[q] \in {"out", "restored"}
    /\ RequestAt(q, "deciding")
    /\ UNCHANGED <<table, session, drawn, cur, serverOf, recording, history>>

Absorb(q) ==
    /\ at[q] = "dispatched"
    /\ session' = [session EXCEPT ![cur[q]] = Absorbed(@, serverOf[q])]
    /\ lastSet' = IF setting[q] = None THEN lastSet ELSE [lastSet EXCEPT ![cur[q]] = setting[q]]
    /\ RequestAt(q, "deciding")
    /\ UNCHANGED <<table, drawn, cur, serverOf, recording, known, ended, promised, setting>>

\* check_in asks the session under its lock ...
Decide(q) ==
    /\ at[q] = "deciding"
    /\ RequestAt(q, IF WorthKeeping(session[cur[q]]) THEN "keep" ELSE "drop")
    /\ UNCHANGED <<table, session, drawn, cur, serverOf, recording, history>>

\* ... and then visits the table under another.
Keep(q) ==
    /\ at[q] = "keep"
    /\ table' = Evicted(Used(table, cur[q]))
    /\ known' = known \cup {cur[q]}
    /\ promised' = IF session[cur[q]].initialized THEN promised \cup {cur[q]} ELSE promised
    /\ RequestAt(q, "done")
    /\ UNCHANGED <<session, drawn, cur, serverOf, recording, ended, setting, lastSet>>

Drop(q) ==
    /\ at[q] = "drop"
    /\ table' = Removed(table, cur[q])
    /\ RequestAt(q, "done")
    /\ UNCHANGED <<session, drawn, cur, serverOf, recording, history>>

\* DELETE: 204 if the session was there, 404 if not.
Terminate(q, s) ==
    /\ at[q] = "new"
    /\ s \in known
    /\ ended' = IF Listed(table, s) THEN ended \cup {s} ELSE ended
    /\ table' = Removed(table, s)
    /\ RequestAt(q, "done")
    /\ UNCHANGED <<session, drawn, cur, serverOf, recording, known, promised, setting, lastSet>>

\* The tasks of a store have all expired (TaskStore has the details).
TasksExpire(q) ==
    /\ q \in recording
    /\ recording' = recording \ {q}
    /\ UNCHANGED <<table, session, drawn, at, cur, serverOf, history>>

-----------------------------------------------------------------------------
SessionsInit ==
    /\ table = <<>>
    /\ session = [s \in Ids |-> Default]
    /\ drawn = {} /\ recording = {} /\ known = {} /\ ended = {} /\ promised = {}
    /\ at = [q \in Requests |-> "new"]
    /\ cur = [q \in Requests |-> None]
    /\ serverOf = [q \in Requests |-> Fresh(q)]
    /\ setting = [q \in Requests |-> None]
    /\ lastSet = [s \in Ids |-> DefaultLevel]

RequestStep(q) ==
    \/ \E s \in Ids : CheckoutNew(q, s) \/ Checkout(q, s) \/ Terminate(q, s)
    \/ BodyRejected(q) \/ Restore(q) \/ Dispatch(q) \/ Panic(q) \/ Absorb(q)
    \/ Decide(q) \/ Keep(q) \/ Drop(q)

SessionsNext == \E q \in Requests : RequestStep(q) \/ TasksExpire(q)

SessionsSpec == SessionsInit /\ [][SessionsNext]_sessionsVars

-----------------------------------------------------------------------------
(* Properties *)

InFlight(q) == at[q] \notin {"new", "done"}

\* "A ping that restored an empty set and absorbed it back could otherwise land
\* on top of a concurrent initialize": what a session has been told at its
\* handshake is not erased by the other requests running in it, nor is the
\* handshake itself, nor the level.
HandshakeKept ==
    [][\A s \in Ids :
          /\ session[s].initialized => session'[s].initialized
          /\ session[s].caps # None => session'[s].caps # None
          /\ session[s].level # None => session'[s].level # None]_sessionsVars

\* Every request of a session that has been restored works on the session's one
\* task store, whichever of two concurrent first requests donated it.
OneStore ==
    \A q \in Requests :
        at[q] \in {"restored", "dispatched"} => serverOf[q].store = session[cur[q]].store

\* The table keeps to max_sessions, however many requests put their sessions
\* back at once, and each session keeps to its one store.
TableSound == Len(table) <= MaxSessions /\ OneStore

\* "MUST respond to requests containing that session ID with HTTP 404": a
\* session that was terminated does not come back.
TerminatedStaysGone == \A s \in ended : ~Listed(table, s)

\* "A client that handshakes keeps `initialized` forever and never sees this": no
\* request takes a session whose client was told its id after the handshake off
\* the table because there is nothing in it worth keeping.
HandshakeNeverDropped ==
    [][\A q \in Requests : at[q] = "drop" /\ at'[q] = "done" => cur[q] \notin promised]_sessionsVars

\* Session::log_level is "As last set by logging/setLevel", once the requests of
\* the session have been answered.
LevelAsLastSet ==
    \A s \in Ids :
        (\A q \in Requests : InFlight(q) => cur[q] # s) =>
            (IF session[s].level = None THEN DefaultLevel ELSE session[s].level) = lastSet[s]
=============================================================================
