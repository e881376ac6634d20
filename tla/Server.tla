------------------------------- MODULE Server -------------------------------
(* Servers of one database, from start to stop: main (cmd/server/main.go),   *)
(* the migration of the tables (model/models.go), the first administrator    *)
(* (db/db.go) and the connection to Redis (redis/redis.go).  Several may     *)
(* start at a time, as in a rolling replacement.  Every statement on the     *)
(* database is a step; a server that ends on its own is restarted (the       *)
(* policy unless-stopped of docker-compose.yml), one that is stopped is not. *)
EXTENDS Integers, FiniteSets

CONSTANTS
    Servers,
    NumTables,      \* tables the migration creates, one after the other
    MaxFaults       \* bound: faults (MySQL or Redis out of reach, crashes)

ASSUME ServerBoundsAssumption == NumTables \in Nat \ {0} /\ MaxFaults \in Nat

VARIABLES
    tables,         \* tables there are: 1..tables
    users,          \* rows of the user table named admin
    server,         \* server[s]: where it is, the table it is at, and whether a
                    \* query for the administrator failed (history)
    wanted,         \* servers the operator has started and not stopped
    handling,       \* handling[s]: requests whose handlers are under way
    faults          \* faults so far (bound)

serverVars == <<tables, users, server, wanted, handling, faults>>

Down == [pc |-> "down", table |-> 0, faulted |-> FALSE]

ServerInit ==
    /\ tables = 0
    /\ users = 0
    /\ server = [s \in Servers |-> Down]
    /\ wanted = {}
    /\ handling = [s \in Servers |-> {}]
    /\ faults = 0

At(s, pc) == server[s].pc = pc

Go(s, pc) == server' = [server EXCEPT ![s].pc = pc]

\* The process ends, whatever its handlers are at.
End(s) ==
    /\ server' = [server EXCEPT ![s] = Down]
    /\ handling' = [handling EXCEPT ![s] = {}]

-----------------------------------------------------------------------------
(* Starting.                                                                 *)

Start(s) ==
    /\ s \notin wanted
    /\ wanted' = wanted \cup {s}
    /\ UNCHANGED <<tables, users, server, handling, faults>>

\* The database itself is created if it does not exist, in one statement.
Launch(s) ==
    /\ At(s, "down") /\ s \in wanted
    /\ server' = [server EXCEPT ![s] = [pc |-> "check", table |-> 1, faulted |-> FALSE]]
    /\ UNCHANGED <<tables, users, wanted, handling, faults>>

NextTable(s) ==
    server' = [server EXCEPT ![s] =
                 IF @.table = NumTables THEN [@ EXCEPT !.pc = "count"]
                 ELSE [@ EXCEPT !.pc = "check", !.table = server[s].table + 1]]

\* Mutant: tables are created without a look at what is there.
CheckNothing(s) ==
    /\ At(s, "check")
    /\ Go(s, "create")
    /\ UNCHANGED <<tables, users, wanted, handling, faults>>

\* A table that is there is brought up to date, which changes no row.
CheckTable(s) ==
    /\ At(s, "check")
    /\ IF server[s].table <= tables THEN NextTable(s) ELSE Go(s, "create")
    /\ UNCHANGED <<tables, users, wanted, handling, faults>>

\* CREATE TABLE; if somebody else has created it meanwhile, the server ends.
CreateTable(s) ==
    /\ At(s, "create")
    /\ \/ /\ server[s].table > tables
          /\ tables' = server[s].table
          /\ NextTable(s) /\ UNCHANGED handling
       \/ server[s].table <= tables /\ End(s) /\ UNCHANGED tables
    /\ UNCHANGED <<users, wanted, faults>>

\* Mutant: the administrator is created when there is one.
CountUsersWrong(s) ==
    /\ At(s, "count")
    /\ Go(s, IF users >= 0 THEN "redis" ELSE "admin")
    /\ UNCHANGED <<tables, users, wanted, handling, faults>>

CountUsers(s) ==
    /\ At(s, "count")
    /\ Go(s, IF users > 0 THEN "redis" ELSE "admin")
    /\ UNCHANGED <<tables, users, wanted, handling, faults>>

\* Mutant: the user name is not unique.
CreateSecondAdmin(s) ==
    /\ At(s, "admin")
    /\ users' = users + 1
    /\ Go(s, "redis")
    /\ UNCHANGED <<tables, wanted, handling, faults>>

\* User names are unique: whoever comes second is refused, warns, and goes on.
CreateAdmin(s) ==
    /\ At(s, "admin")
    /\ users' = IF users = 0 THEN 1 ELSE users
    /\ Go(s, "redis")
    /\ UNCHANGED <<tables, wanted, handling, faults>>

\* Counting or creating fails: a warning, nothing more.
WarnAdmin(s) ==
    /\ At(s, "count") \/ At(s, "admin")
    /\ faults < MaxFaults /\ faults' = faults + 1
    /\ server' = [server EXCEPT ![s].pc = "redis", ![s].faulted = TRUE]
    /\ UNCHANGED <<tables, users, wanted, handling>>

\* Redis answers; then the listener is opened in a goroutine of its own.
ConnectRedis(s) ==
    /\ At(s, "redis")
    /\ Go(s, "listening")
    /\ UNCHANGED <<tables, users, wanted, handling, faults>>

\* From here on signals are not deadly.
NotifySignals(s) ==
    /\ At(s, "listening")
    /\ Go(s, "serving")
    /\ UNCHANGED <<tables, users, wanted, handling, faults>>

-----------------------------------------------------------------------------
(* Stopping.                                                                 *)

\* MySQL or Redis is out of reach at the start, the port is taken, or the
\* process is killed: it ends, with its handlers.
Crash(s) ==
    /\ ~At(s, "down")
    /\ faults < MaxFaults /\ faults' = faults + 1
    /\ End(s)
    /\ UNCHANGED <<tables, users, wanted>>

\* SIGTERM.  A server that has not got round to signals dies of it.
Stop(s) ==
    /\ s \in wanted
    /\ wanted' = wanted \ {s}
    /\ IF At(s, "serving") THEN Go(s, "draining") /\ UNCHANGED handling ELSE End(s)
    /\ UNCHANGED <<tables, users, faults>>

\* Shutdown has seen the last handler return.
Drained(s) ==
    /\ At(s, "draining") /\ handling[s] = {}
    /\ End(s)
    /\ UNCHANGED <<tables, users, wanted, faults>>

\* Five seconds are over first.
ShutdownTimeout(s) ==
    /\ At(s, "draining") /\ handling[s] # {}
    /\ End(s)
    /\ UNCHANGED <<tables, users, wanted, faults>>

-----------------------------------------------------------------------------
(* What a server does by itself, and what happens to it.                     *)
Boot(s) ==
    \/ Launch(s) \/ CheckTable(s) \/ CreateTable(s)
    \/ CountUsers(s) \/ CreateAdmin(s)
    \/ ConnectRedis(s) \/ NotifySignals(s)

Shutdown(s) == Drained(s) \/ ShutdownTimeout(s)

Disturb(s) == Start(s) \/ Stop(s) \/ WarnAdmin(s) \/ Crash(s)

ServerNext == \E s \in Servers : Boot(s) \/ Shutdown(s) \/ Disturb(s)

-----------------------------------------------------------------------------
(* Properties.                                                               *)

ServerTypeOK ==
    /\ tables \in 0..NumTables
    /\ users \in {0, 1}
    /\ server \in [Servers ->
          [pc: {"check", "create"}, table: 1..NumTables, faulted: {FALSE}]
          \cup [pc: {"count", "admin", "redis", "listening", "serving", "draining"},
                table: {NumTables}, faulted: BOOLEAN]
          \cup {Down}]
    /\ wanted \subseteq Servers
    /\ faults \in 0..MaxFaults

\* A server that serves has every table and an administrator, though another
\* may have created either between its look and its own attempt; only a query
\* of its own that failed excuses it.
ServesWithAdministrator ==
    \A s \in Servers :
        server[s].pc \in {"listening", "serving", "draining"} =>
            tables = NumTables /\ (users = 1 \/ server[s].faulted)

\* Once the operator leaves the servers alone, all that are wanted come to serve
\* and go on serving, however many of them have created the same tables: to lose
\* that race costs a restart.
WantedServersServe ==
    <>[][wanted' = wanted]_serverVars => <>[](\A s \in wanted : At(s, "serving"))
=============================================================================
