---------------------------- MODULE HandlerRaces ----------------------------
(***************************************************************************)
(* GameServer runs one handler at a time.  The program runs the handlers   *)
(* of different connections on the threads of a pool, and core/Server.cpp  *)
(* locks nothing: what a handler has found it may find no more when it     *)
(* writes.  Here are the handlers that test before they write, do_signin,  *)
(* do_create and do_join, each in its two halves.  A read or write of one  *)
(* map is taken to be atomic; in the program two at a time are undefined.  *)
(***************************************************************************)
EXTENDS Permissions, Naturals, FiniteSets

CONSTANTS
    Ids,         \* connections, each with at most one task (TransferServer)
    Staff,       \* accounts, all of them USER and STAFF
    Tables,
    None,        \* no entry in a map, no handler
    MAX_PLAYERS

VARIABLES
    users,     \* connection -> login and permission
    login2id,  \* login -> connection
    id2name,   \* connection -> table
    sessions,  \* table -> croupier and users
    handler    \* connection -> the handler that has made its test, and its argument

vars == <<users, login2id, id2name, sessions, handler>>

Handlers == {"do_signin", "do_create", "do_join"}

Idle == [name |-> None, of |-> None]

Init ==
    /\ users = [id \in Ids |-> [login |-> None, permission |-> GUEST]]
    /\ login2id = [login \in Staff |-> None]
    /\ id2name = [id \in Ids |-> None]
    /\ sessions = [name \in Tables |-> None]
    /\ handler = [id \in Ids |-> Idle]
-----------------------------------------------------------------------------
add_user(id, login, permission) ==
    /\ users' = [users EXCEPT ![id] = [login |-> login, permission |-> permission]]
    /\ login2id' = [login2id EXCEPT ![login] = id]

Needed(h) == CASE h = "do_signin" -> GUEST [] h = "do_create" -> STAFF [] h = "do_join" -> WAIT

\* Whatever the handler throws an error for, it finds before it writes.
Passes(h, of) ==
    CASE h = "do_signin" -> of \in Staff /\ login2id[of] = None
      [] h = "do_create" -> of \in Tables /\ sessions[of] = None
      [] h = "do_join"   -> of \in Tables /\ sessions[of] # None
                            /\ Cardinality(sessions[of].users) # MAX_PLAYERS

tests(id, h, of) ==
    /\ handler[id] = Idle
    /\ Allowed(users[id].permission, Needed(h))
    /\ Passes(h, of)
    /\ handler' = [handler EXCEPT ![id] = [name |-> h, of |-> of]]
    /\ UNCHANGED <<users, login2id, id2name, sessions>>

Writes(id, h) == handler[id].name = h /\ handler' = [handler EXCEPT ![id] = Idle]

do_signin(id) ==
    /\ Writes(id, "do_signin")
    /\ add_user(id, handler[id].of, USER \cup STAFF)
    /\ UNCHANGED <<id2name, sessions>>

do_create(id) ==
    LET name  == handler[id].of
        login == users[id].login
    IN  /\ Writes(id, "do_create")
        /\ sessions' = [sessions EXCEPT ![name] = [croupier |-> login, users |-> {login}]]
        /\ id2name' = [id2name EXCEPT ![id] = name]
        /\ add_user(id, login, CROUPIER)

do_join(id) ==
    LET name  == handler[id].of
        login == users[id].login
    IN  /\ Writes(id, "do_join")
        /\ sessions' = [sessions EXCEPT ![name].users = @ \cup {login}]
        /\ id2name' = [id2name EXCEPT ![id] = name]
        /\ add_user(id, login, PLAYER)

Next ==
    \E id \in Ids :
        \/ \E h \in Handlers, of \in Staff \cup Tables : tests(id, h, of)
        \/ do_signin(id) \/ do_create(id) \/ do_join(id)

Spec == Init /\ [][Next]_vars
-----------------------------------------------------------------------------
\* A second croupier does not get into the game of the first.
OneCroupier ==
    \A i, j \in Ids :
        /\ users[i].permission = CROUPIER /\ users[j].permission = CROUPIER
        /\ id2name[i] = id2name[j]
        => i = j
=============================================================================
