--------------------------- MODULE DownloadsProofs --------------------------
(* Theorems about servers of one database, the downloads they hand out and  *)
(* the log of those downloads.                                              *)
EXTENDS Downloads, TLAPS

-----------------------------------------------------------------------------
(* The inductive invariant.                                                 *)

Starting == [pc: {"check", "create"}, table: 1..NumTables, faulted: {FALSE}]
Started == [pc: {"count", "admin", "redis", "listening", "serving", "draining"},
            table: {NumTables}, faulted: BOOLEAN]

\* A server has seen to the tables before the one it is at, to all of them
\* before it looks for the administrator, and to that one before it serves.
Ready(row, t, u) ==
    /\ row.pc \in {"check", "create"} => row.table <= t + 1
    /\ row.pc \in {"count", "admin", "redis", "listening", "serving", "draining"} => t = NumTables
    /\ row.pc \in {"redis", "listening", "serving", "draining"} => u = 1 \/ row.faulted

StartInv == \A s \in Servers : Ready(server[s], tables, users)

\* No handlers without a process.
DownInv ==
    /\ handling \in [Servers -> SUBSET Requests]
    /\ \A s \in Servers : At(s, "down") => handling[s] = {}

Working == {"reset", "authorise", "lookup", "refused", "redirected"}

Recorder == [pc: {"none", "context", "client", "device", "parsed", "insert", "done"},
             alive: Requests \cup {None}, client: Requests \cup {None},
             device: Requests \cup {None}]
Cell == [request: Requests \cup {None}, query: Requests \cup {None}, busy: BOOLEAN]

Uses(h, g) == h.pc \in Working \/ g.pc \notin {"none", "done"}

\* A handler h has its context c to itself, a goroutine g one that has been
\* used, and what g has to hand on it has read.
Fits(d, h, g, c) ==
    /\ h.pc \in Working => c.busy /\ c.request = d
    /\ g.pc \notin {"none", "done"} => h.pc \in {"redirected", "answered"} /\ c.request # None
    /\ g.pc \in {"device", "parsed", "insert"} => g.client # None
    /\ g.pc \in {"parsed", "insert"} => g.device # None

FitInv == \A d \in Requests : Fits(d, request[d], recorder[d], Own(d))

\* Two requests that use a context, one of them in a goroutine that was left
\* behind, have met there.
Together(d, e) == request[d].at = request[e].at /\ request[d].context = request[e].context

MeetInv ==
    \A d, e \in Requests :
        (d # e /\ Uses(request[d], recorder[d]) /\ Uses(request[e], recorder[e]) /\ Together(d, e))
        => d \in shared

\* What a request finds in its context while it meets nobody is its own.
Owns(d, h, g, c) ==
    /\ Uses(h, g) => c.request = d /\ (h.pc # "reset" => c.query \in {None, d})
    /\ g.pc \in {"device", "parsed", "insert"} => g.client = d
    /\ g.pc \in {"parsed", "insert"} => g.device = d

OwnInv == \A d \in Requests \ shared : Owns(d, request[d], recorder[d], Own(d))

IInv ==
    /\ TypeOK /\ StartInv /\ DownInv /\ FitInv /\ MeetInv /\ OwnInv
    /\ RowsNameTheDownloader

LEMMA InitIInv == Init => IInv
<1> SUFFICES ASSUME Init PROVE IInv
  OBVIOUS
<1>1. /\ \A d \in Requests : request[d].pc = "new" /\ recorder[d].pc = "none"
      /\ \A s \in Servers : server[s] = Down /\ handling[s] = {}
  BY DEF Init, NewRequest, NoRecorder, ServerInit
<1>2. StartInv
  BY <1>1 DEF StartInv, Ready, Down
<1>3. DownInv
  BY DEF DownInv, Init, ServerInit
<1>4. FitInv /\ MeetInv /\ OwnInv
  BY <1>1 DEF FitInv, MeetInv, OwnInv, Fits, Owns, Uses, Working
<1>5. TypeOK
  <2>1. ServerTypeOK
    BY ServerBoundsAssumption DEF Init, ServerInit, ServerTypeOK, Down
  <2>2. recorder \in [Requests -> Recorder] /\ context \in [Servers -> [Contexts -> Cell]]
    BY DEF Init, NoRecorder, Recorder, Unused, Cell
  <2>3. /\ request \in [Requests -> Handler \cup {NewRequest}]
        /\ log \in [Requests -> [client: Requests, device: Requests] \cup {None}]
        /\ gone \cup shared \subseteq Requests
    BY DEF Init
  <2> QED BY <1>1, <2>1, <2>2, <2>3 DEF TypeOK, Recorder, Cell
<1>6. RowsNameTheDownloader
  BY DEF Init, RowsNameTheDownloader
<1> QED BY <1>2, <1>3, <1>4, <1>5, <1>6 DEF IInv

-----------------------------------------------------------------------------
(* What happens to a server.                                                *)

Servings == Starting \cup Started \cup {Down}

LEMMA StartingFields ==
    \A row \in Starting :
        row.pc \in {"check", "create"} /\ row.table \in 1..NumTables /\ row.table \in Nat
BY ServerBoundsAssumption DEF Starting

LEMMA ServerKinds ==
    ASSUME ServerTypeOK, NEW s \in Servers
    PROVE  /\ server[s] \in Servings
           /\ server[s].pc \in {"check", "create"} => server[s] \in Starting
           /\ server[s].pc \in {"count", "admin", "redis", "listening", "serving", "draining"}
                 => server[s] \in Started
           /\ server[s].pc = "down" => server[s] = Down
<1>1. server[s] \in Servings
  BY DEF ServerTypeOK, Servings, Starting, Started
<1>2. CASE server[s] \in Starting
  BY <1>1, <1>2 DEF Starting
<1>3. CASE server[s] \in Started
  BY <1>1, <1>3 DEF Started
<1>4. CASE server[s] = Down
  BY <1>1, <1>4 DEF Down
<1> QED BY <1>1, <1>2, <1>3, <1>4 DEF Servings

Moves(s, row) == server' = [server EXCEPT ![s] = row]

\* Tables and the administrator stay.
Frame ==
    /\ tables' \in 0..NumTables /\ tables <= tables'
    /\ users' \in {0, 1} /\ users <= users'
    /\ wanted' \subseteq Servers /\ faults' \in 0..MaxFaults

\* A server that is ready where it goes, nothing being undone, leaves all ready.
LEMMA ServerMoves ==
    ASSUME ServerTypeOK, StartInv, NEW s \in Servers, NEW row \in Servings,
           Moves(s, row), Ready(row, tables', users'), Frame
    PROVE  ServerTypeOK' /\ StartInv'
<1>1. server' \in [Servers -> Servings]
  BY DEF ServerTypeOK, Servings, Starting, Started, Moves
<1>2. ServerTypeOK'
  BY <1>1 DEF ServerTypeOK, Servings, Starting, Started, Frame
<1>3. ASSUME NEW o \in Servers \ {s}
      PROVE  Ready(server'[o], tables', users')
  <2>1. server'[o] = server[o] /\ Ready(server[o], tables, users)
    BY DEF Moves, ServerTypeOK, StartInv
  <2>2. tables \in 0..NumTables /\ users \in {0, 1} /\ NumTables \in Nat
    BY ServerBoundsAssumption DEF ServerTypeOK
  <2>3. CASE server[o] \in Starting
    <3>1. server[o].pc \in {"check", "create"} /\ server[o].table \in Nat
      BY <2>3, StartingFields
    <3>2. server[o].table <= tables' + 1
      BY <2>1, <2>2, <3>1 DEF Ready, Frame
    <3> QED BY <2>1, <3>1, <3>2 DEF Ready
  <2>4. CASE server[o] \notin Starting
    <3>1. server[o].pc \notin {"check", "create"}
      BY <2>4, ServerKinds
    <3> QED BY <2>1, <2>2, <3>1 DEF Ready, Frame
  <2> QED BY <2>3, <2>4
<1>4. server'[s] = row
  BY DEF Moves, ServerTypeOK
<1> QED BY <1>2, <1>3, <1>4 DEF StartInv

LEMMA ServerStepSafe ==
    ASSUME ServerTypeOK, StartInv, NEW s \in Servers, Boot(s) \/ Shutdown(s) \/ Disturb(s)
    PROVE  ServerTypeOK' /\ StartInv'
<1>1. /\ tables \in 0..NumTables /\ tables \in Nat /\ users \in {0, 1} /\ NumTables \in Nat \ {0}
      /\ wanted \subseteq Servers /\ faults \in 0..MaxFaults /\ MaxFaults \in Nat
  BY ServerBoundsAssumption DEF ServerTypeOK
<1>2. Ready(server[s], tables, users)
  BY DEF StartInv
<1>3. server \in [Servers -> Servings]
  BY DEF ServerTypeOK, Servings, Starting, Started
<1>4. ASSUME NEW row \in Servings, Moves(s, row), Ready(row, tables', users'), Frame
      PROVE  ServerTypeOK' /\ StartInv'
  BY <1>4, ServerMoves
<1>5. Ready(Down, tables', users') /\ Down \in Servings
  BY DEF Ready, Down, Servings
<1>6. ASSUME End(s), Frame
      PROVE  ServerTypeOK' /\ StartInv'
  BY <1>4, <1>5, <1>6 DEF End, Moves
<1>7. CASE Start(s)
  <2>1. Moves(s, server[s]) /\ Frame /\ UNCHANGED <<tables, users>>
    BY <1>1, <1>3, <1>7 DEF Frame, Start, Moves
  <2>2. Ready(server[s], tables', users')
    BY <1>2, <2>1
  <2> QED BY <1>3, <1>4, <2>1, <2>2
<1>8. CASE Launch(s)
  <2> PICK row : row = [pc |-> "check", table |-> 1, faulted |-> FALSE]
    OBVIOUS
  <2>1. Moves(s, row) /\ Frame
    BY <1>1, <1>8 DEF Frame, Launch, Moves
  <2>2. row \in Servings /\ row.pc = "check" /\ row.table = 1
    BY <1>1 DEF Servings, Starting, Started
  <2>3. 1 <= tables' + 1
    BY <1>1, <1>8 DEF Launch
  <2>4. Ready(row, tables', users')
    BY <2>2, <2>3 DEF Ready
  <2> QED BY <1>4, <2>1, <2>2, <2>4
<1>9. ASSUME server[s] \in Starting, server[s].table <= tables', NextTable(s), Frame
      PROVE  ServerTypeOK' /\ StartInv'
  <2>1. CASE server[s].table = NumTables
    <3> PICK row : row = [server[s] EXCEPT !.pc = "count"]
      OBVIOUS
    <3>1. Moves(s, row)
      BY <1>3, <1>9, <2>1 DEF NextTable, Moves
    <3>2. row \in Started /\ row.pc = "count"
      BY <1>9, <2>1 DEF Starting, Started
    <3>3. tables' = NumTables
      BY <1>1, <1>9, <2>1 DEF Frame
    <3>4. Ready(row, tables', users')
      BY <3>2, <3>3 DEF Ready
    <3> QED BY <1>4, <1>9, <3>1, <3>2, <3>4 DEF Servings
  <2>2. CASE server[s].table # NumTables
    <3> PICK row, n : n = server[s].table /\ row = [server[s] EXCEPT !.pc = "check", !.table = n + 1]
      OBVIOUS
    <3>1. Moves(s, row)
      BY <1>3, <1>9, <2>2 DEF NextTable, Moves
    <3>2. n \in 1..NumTables /\ n + 1 \in 1..NumTables /\ n <= tables' /\ tables' \in Nat
      BY <1>1, <1>9, <2>2, StartingFields DEF Frame
    <3>3. row \in Starting /\ row.pc = "check" /\ row.table = n + 1
      BY <1>9, <3>2 DEF Starting
    <3>4. n + 1 <= tables' + 1
      BY <3>2
    <3>5. Ready(row, tables', users')
      BY <3>3, <3>4 DEF Ready
    <3> QED BY <1>4, <1>9, <3>1, <3>3, <3>5 DEF Servings
  <2> QED BY <2>1, <2>2
<1>10. ASSUME NEW pc \in {"admin", "redis", "listening", "serving", "draining"}, Go(s, pc),
              server[s] \in Started, Frame, UNCHANGED tables,
              pc # "admin" => users' = 1 \/ server[s].faulted
       PROVE  ServerTypeOK' /\ StartInv'
  <2> PICK row : row = [server[s] EXCEPT !.pc = pc]
    OBVIOUS
  <2>1. Moves(s, row)
    BY <1>3, <1>10 DEF Go, Moves
  <2>2. row \in Started /\ row.pc = pc /\ row.faulted = server[s].faulted
    BY <1>10 DEF Started
  <2>3. tables = NumTables
    BY <1>2, <1>10 DEF Ready, Started
  <2>4. Ready(row, tables', users')
    BY <1>10, <2>2, <2>3 DEF Ready
  <2> QED BY <1>4, <1>10, <2>1, <2>2, <2>4 DEF Servings
<1>11. CASE CheckTable(s)
  <2>1. server[s] \in Starting /\ Frame /\ UNCHANGED <<tables, users>>
    BY <1>1, <1>11, ServerKinds DEF Frame, CheckTable, At
  <2>2. CASE server[s].table <= tables
    BY <1>9, <1>11, <2>1, <2>2 DEF CheckTable
  <2>3. CASE ~(server[s].table <= tables)
    <3> PICK row : row = [server[s] EXCEPT !.pc = "create"]
      OBVIOUS
    <3>1. Moves(s, row)
      BY <1>3, <1>11, <2>3 DEF CheckTable, Go, Moves
    <3>2. row \in Starting /\ row.pc = "create" /\ row.table = server[s].table
      BY <2>1 DEF Starting
    <3>3. server[s].table <= tables + 1
      BY <1>2, <1>11 DEF Ready, CheckTable, At
    <3>4. Ready(row, tables', users')
      BY <2>1, <3>2, <3>3 DEF Ready
    <3> QED BY <1>4, <2>1, <3>1, <3>2, <3>4 DEF Servings
  <2> QED BY <2>2, <2>3
<1>12. CASE CreateTable(s)
  <2>1. server[s] \in Starting /\ UNCHANGED <<users, wanted, faults>>
    BY <1>12, ServerKinds DEF CreateTable, At
  <2>2. CASE /\ server[s].table > tables
             /\ tables' = server[s].table
             /\ NextTable(s) /\ UNCHANGED handling
    <3>1. server[s].table <= tables' /\ Frame
      BY <1>1, <2>1, <2>2, StartingFields DEF Frame
    <3> QED BY <1>9, <2>1, <2>2, <3>1
  <2>3. CASE End(s) /\ UNCHANGED tables
    BY <1>1, <1>6, <2>1, <2>3 DEF Frame
  <2> QED BY <1>12, <2>2, <2>3 DEF CreateTable
<1>13. CASE CountUsers(s)
  <2>1. server[s] \in Started /\ Frame /\ UNCHANGED <<tables, users>>
    BY <1>1, <1>13, ServerKinds DEF Frame, CountUsers, At
  <2>2. CASE users > 0
    BY <1>1, <1>10, <1>13, <2>1, <2>2 DEF CountUsers
  <2>3. CASE ~(users > 0)
    BY <1>10, <1>13, <2>1, <2>3 DEF CountUsers
  <2> QED BY <2>2, <2>3
<1>14. CASE CreateAdmin(s)
  <2>1. server[s] \in Started /\ Frame /\ UNCHANGED tables /\ users' = 1 /\ Go(s, "redis")
    BY <1>1, <1>14, ServerKinds DEF Frame, CreateAdmin, At
  <2> QED BY <1>10, <2>1
<1>15. CASE WarnAdmin(s)
  <2> PICK row : row = [server[s] EXCEPT !.pc = "redis", !.faulted = TRUE]
    OBVIOUS
  <2>1. server[s] \in Started /\ Frame /\ UNCHANGED <<tables, users>>
    BY <1>1, <1>15, ServerKinds DEF Frame, WarnAdmin, At
  <2>2. Moves(s, row)
    BY <1>3, <1>15, <2>1 DEF WarnAdmin, Moves, Started
  <2>3. row \in Started /\ row.pc = "redis" /\ row.faulted
    BY <2>1 DEF Started
  <2>4. tables = NumTables
    BY <1>2, <1>15 DEF Ready, WarnAdmin, At
  <2>5. Ready(row, tables', users')
    BY <2>1, <2>3, <2>4 DEF Ready
  <2> QED BY <1>4, <2>1, <2>2, <2>3, <2>5 DEF Servings
<1>16. CASE ConnectRedis(s) \/ NotifySignals(s)
  <2>1. server[s] \in Started /\ Frame /\ UNCHANGED <<tables, users>>
    BY <1>1, <1>16, ServerKinds DEF Frame, ConnectRedis, NotifySignals, At
  <2>2. users' = 1 \/ server[s].faulted
    BY <1>2, <1>16, <2>1 DEF Ready, ConnectRedis, NotifySignals, At
  <2> QED BY <1>10, <1>16, <2>1, <2>2 DEF ConnectRedis, NotifySignals
<1>17. CASE Stop(s)
  <2>1. Frame /\ UNCHANGED <<tables, users>>
    BY <1>1, <1>17 DEF Frame, Stop
  <2>2. CASE At(s, "serving")
    <3>1. server[s] \in Started /\ (users' = 1 \/ server[s].faulted) /\ Go(s, "draining")
      BY <1>2, <1>17, <2>1, <2>2, ServerKinds DEF Ready, Stop, At
    <3> QED BY <1>10, <2>1, <3>1
  <2>3. CASE ~At(s, "serving")
    BY <1>6, <1>17, <2>1, <2>3 DEF Stop
  <2> QED BY <2>2, <2>3
<1>18. CASE Crash(s) \/ Drained(s) \/ ShutdownTimeout(s)
  BY <1>1, <1>6, <1>18 DEF Frame, Crash, Drained, ShutdownTimeout
<1> QED BY <1>7, <1>8, <1>11, <1>12, <1>13, <1>14, <1>15, <1>16, <1>17, <1>18
        DEF Boot, Shutdown, Disturb

-----------------------------------------------------------------------------
(* What a request does by itself.                                           *)

LEMMA RequestKinds ==
    ASSUME TypeOK, NEW d \in Requests
    PROVE  /\ request[d].pc = "new" => request[d] = NewRequest
           /\ request[d].pc # "new" => request[d] \in Handler
           /\ recorder[d] \in Recorder
<1>1. request[d] \in Handler \cup {NewRequest} /\ recorder[d] \in Recorder
  BY DEF TypeOK, Recorder
<1> QED BY <1>1 DEF Handler, NewRequest

LEMMA OwnCell ==
    ASSUME TypeOK, NEW d \in Requests, request[d].pc # "new"
    PROVE  /\ request[d].at \in Servers /\ request[d].context \in Contexts
           /\ Own(d) \in Cell
<1>1. request[d].at \in Servers /\ request[d].context \in Contexts
  BY RequestKinds DEF Handler
<1>2. context \in [Servers -> [Contexts -> Cell]]
  BY DEF TypeOK, Cell
<1> QED BY <1>1, <1>2 DEF Own

LEMMA UsersAreNotNew ==
    ASSUME FitInv, NEW d \in Requests, Uses(request[d], recorder[d])
    PROVE  request[d].pc # "new"
BY DEF FitInv, Fits, Uses, Working

\* Request d goes on in its handler or its goroutine; the context it was given
\* stays pointed at whom it was, and is given back by its handler only.
Local(d, h, g, c) ==
    /\ request' = [request EXCEPT ![d] = h]
    /\ recorder' = [recorder EXCEPT ![d] = g]
    /\ context' = [context EXCEPT ![request[d].at][request[d].context] = c]
    /\ h.at = request[d].at /\ h.context = request[d].context
    /\ c.request = Own(d).request
    /\ c.busy = Own(d).busy \/ (request[d].pc \in Working /\ h.pc \notin Working)
    /\ UNCHANGED shared

LEMMA LocalStep ==
    ASSUME TypeOK, FitInv, MeetInv, OwnInv, NEW d \in Requests,
           Uses(request[d], recorder[d]),
           NEW h \in Handler, NEW g \in Recorder, NEW c \in Cell, Local(d, h, g, c),
           Fits(d, h, g, c), d \notin shared => Owns(d, h, g, c)
    PROVE  /\ request' \in [Requests -> Handler \cup {NewRequest}]
           /\ recorder' \in [Requests -> Recorder]
           /\ context' \in [Servers -> [Contexts -> Cell]]
           /\ FitInv' /\ MeetInv' /\ OwnInv'
<1> PICK a, x : a = request[d].at /\ x = request[d].context
  OBVIOUS
<1>1. a \in Servers /\ x \in Contexts
  BY UsersAreNotNew, OwnCell
<1>2. /\ request' \in [Requests -> Handler \cup {NewRequest}]
      /\ request'[d] = h /\ \A e \in Requests \ {d} : request'[e] = request[e]
  BY DEF TypeOK, Local
<1>3. /\ recorder' \in [Requests -> Recorder]
      /\ recorder'[d] = g /\ \A e \in Requests \ {d} : recorder'[e] = recorder[e]
  BY DEF TypeOK, Local, Recorder
<1>4. /\ context \in [Servers -> [Contexts -> Cell]]
      /\ context' = [context EXCEPT ![a][x] = c]
  BY DEF TypeOK, Local, Cell
<1>5. /\ context' \in [Servers -> [Contexts -> Cell]]
      /\ context'[a][x] = c
      /\ \A s \in Servers, y \in Contexts : s # a \/ y # x => context'[s][y] = context[s][y]
  BY <1>1, <1>4
<1>6. Own(d)' = c
  BY <1>2, <1>5 DEF Own, Local
<1>7. /\ h.at = a /\ h.context = x /\ c.request = Own(d).request
      /\ c.busy = Own(d).busy \/ (request[d].pc \in Working /\ h.pc \notin Working)
      /\ shared' = shared
  BY DEF Local
<1>8. ASSUME NEW e \in Requests \ {d}, Uses(request[e], recorder[e])
      PROVE  IF Together(d, e) THEN Own(e) = Own(d) /\ Own(e)' = c ELSE Own(e)' = Own(e)
  <2>1. request[e].at \in Servers /\ request[e].context \in Contexts
    BY <1>8, UsersAreNotNew, OwnCell
  <2>2. Own(e)' = context'[request[e].at][request[e].context]
    BY <1>2 DEF Own
  <2> QED BY <1>5, <2>1, <2>2 DEF Own, Together
<1>9. FitInv'
  <2>1. Fits(d, request'[d], recorder'[d], Own(d)')
    BY <1>2, <1>3, <1>6
  <2>2. ASSUME NEW e \in Requests \ {d}
        PROVE  Fits(e, request'[e], recorder'[e], Own(e)')
    <3>1. Fits(e, request[e], recorder[e], Own(e)) /\ Fits(d, request[d], recorder[d], Own(d))
      BY DEF FitInv
    <3>2. request'[e] = request[e] /\ recorder'[e] = recorder[e]
      BY <1>2, <1>3
    <3>3. CASE ~Uses(request[e], recorder[e])
      BY <3>1, <3>2, <3>3 DEF Fits, Uses
    <3>4. CASE Uses(request[e], recorder[e]) /\ ~Together(d, e)
      BY <1>8, <3>1, <3>2, <3>4
    <3>5. CASE Uses(request[e], recorder[e]) /\ Together(d, e)
      <4> PICK ce, ce2 : ce = Own(e) /\ ce2 = Own(e)'
        OBVIOUS
      <4>1. ce = Own(d) /\ ce2 = c
        BY <1>8, <3>5
      <4>2. ~(request[e].pc \in Working /\ request[d].pc \in Working)
        BY <3>1, <4>1 DEF Fits
      <4>3. ce2.request = ce.request /\ (request[e].pc \in Working => ce2.busy = ce.busy)
        BY <1>7, <4>1, <4>2
      <4> QED BY <3>1, <3>2, <4>3 DEF Fits
    <3> QED BY <3>3, <3>4, <3>5
  <2> QED BY <2>1, <2>2 DEF FitInv
<1>10. \A e \in Requests : /\ Uses(request'[e], recorder'[e]) => Uses(request[e], recorder[e])
                            /\ request'[e].at = request[e].at
                            /\ request'[e].context = request[e].context
  BY <1>2, <1>3, <1>7
<1>11. MeetInv'
  BY <1>7, <1>10 DEF MeetInv, Together
<1>12. OwnInv'
  <2>1. d \notin shared' => Owns(d, request'[d], recorder'[d], Own(d)')
    BY <1>2, <1>3, <1>6, <1>7
  <2>2. ASSUME NEW e \in Requests \ {d}, e \notin shared
        PROVE  Owns(e, request'[e], recorder'[e], Own(e)')
    <3>1. Owns(e, request[e], recorder[e], Own(e))
      BY <2>2 DEF OwnInv
    <3>2. request'[e] = request[e] /\ recorder'[e] = recorder[e]
      BY <1>2, <1>3
    <3>3. CASE ~Uses(request[e], recorder[e])
      BY <3>1, <3>2, <3>3 DEF Owns
    <3>4. CASE Uses(request[e], recorder[e])
      <4>1. ~Together(d, e)
        BY <2>2, <3>4 DEF MeetInv, Together
      <4> QED BY <1>8, <3>1, <3>2, <3>4, <4>1
    <3> QED BY <3>3, <3>4
  <2> QED BY <1>7, <2>1, <2>2 DEF OwnInv
<1> QED BY <1>2, <1>3, <1>5, <1>9, <1>11, <1>12

\* Every step of a handler or a goroutine is one of its own, and leaves it with
\* what it should have.
LEMMA RequestSteps ==
    ASSUME TypeOK, FitInv, OwnInv, NEW d \in Requests, Handle(d) \/ GoAway(d) \/ Record(d)
    PROVE  /\ Uses(request[d], recorder[d])
           /\ \E h \in Handler, g \in Recorder, c \in Cell :
                 /\ Local(d, h, g, c) /\ Fits(d, h, g, c)
                 /\ d \notin shared => Owns(d, h, g, c)
<1> DEFINE Goes(h, g, c) == /\ Local(d, h, g, c) /\ Fits(d, h, g, c)
                            /\ d \notin shared => Owns(d, h, g, c)
<1> PICK h, g, c : h = request[d] /\ g = recorder[d] /\ c = Own(d)
  OBVIOUS
<1>1. Uses(h, g)
  BY DEF Handle, Record, GoAway, Reset, Authorise, Lookup, Return, ReadContext, ReadClient,
     ReadDevice, KeepQuery, Insert, Uses, Working
<1>2. h \in Handler /\ g \in Recorder /\ c \in Cell /\ h.at \in Servers /\ h.context \in Contexts
  BY <1>1, UsersAreNotNew, RequestKinds, OwnCell
<1>3. Fits(d, h, g, c) /\ (d \notin shared => Owns(d, h, g, c)) /\ d # None
  BY DownloadsAssumption DEF FitInv, OwnInv
<1>4. /\ request = [request EXCEPT ![d] = h] /\ recorder = [recorder EXCEPT ![d] = g]
      /\ context = [context EXCEPT ![h.at][h.context] = c]
  <2>1. context \in [Servers -> [Contexts -> Cell]] /\ c = context[h.at][h.context]
    BY DEF TypeOK, Cell, Own
  <2>2. request = [request EXCEPT ![d] = h]
    BY DEF TypeOK
  <2>3. recorder = [recorder EXCEPT ![d] = g]
    BY DEF TypeOK
  <2>4. context = [context EXCEPT ![h.at][h.context] = c]
    <3> PICK a, x : a = h.at /\ x = h.context
      OBVIOUS
    <3>1. context[a] = [context[a] EXCEPT ![x] = c]
      BY <1>2, <2>1
    <3> QED BY <1>2, <2>1, <3>1
  <2> QED BY <2>2, <2>3, <2>4
<1>5. request \in [Requests -> Handler \cup {NewRequest}] /\ recorder \in [Requests -> Recorder]
  BY DEF TypeOK, Recorder
<1>6. ASSUME Reset(d)
      PROVE  \E h2 \in Handler, g2 \in Recorder, c2 \in Cell : Goes(h2, g2, c2)
  <2> PICK h2, c2 : h2 = [h EXCEPT !.pc = "authorise"] /\ c2 = [c EXCEPT !.query = None]
    OBVIOUS
  <2>1. /\ h2 \in Handler /\ h2.at = h.at /\ h2.context = h.context /\ h2.pc = "authorise"
        /\ c2 \in Cell /\ c2.busy = c.busy /\ c2.request = c.request /\ c2.query = None
    BY <1>2 DEF Handler, Cell
  <2>2. h.pc = "reset"
    BY <1>6 DEF Reset
  <2>3. Local(d, h2, g, c2)
    BY <1>4, <1>5, <1>6, <2>1 DEF Reset, Local, SetOwn, RequestAt
  <2>4. Fits(d, h2, g, c2) /\ (d \notin shared => Owns(d, h2, g, c2))
    BY <1>3, <2>1, <2>2 DEF Fits, Owns, Uses, Working
  <2> QED BY <1>2, <2>1, <2>3, <2>4
<1>7. ASSUME Authorise(d)
      PROVE  \E h2 \in Handler, g2 \in Recorder, c2 \in Cell : Goes(h2, g2, c2)
  <2>1. PICK pc \in {"lookup", "refused"} : RequestAt(d, pc)
    BY <1>7 DEF Authorise
  <2> PICK h2 : h2 = [h EXCEPT !.pc = pc]
    OBVIOUS
  <2>2. /\ h2 \in Handler /\ h2.at = h.at /\ h2.context = h.context /\ h2.pc = pc
        /\ h.pc = "authorise" /\ recorder' = recorder /\ shared' = shared
        /\ request' = [request EXCEPT ![d] = h2]
    BY <1>2, <1>5, <1>7, <2>1 DEF Handler, Authorise, RequestAt
  <2>3. PICK c2 \in Cell : /\ c2.busy = c.busy /\ c2.request = c.request
                           /\ c2.query \in {c.query, c.request}
                           /\ context' = [context EXCEPT ![h.at][h.context] = c2]
    <3>1. CASE UNCHANGED context
      BY <1>2, <1>4, <3>1
    <3>2. CASE ~UNCHANGED context
      <4> PICK q : q = IF c.query = None THEN c.request ELSE c.query
        OBVIOUS
      <4> PICK c2 : c2 = [c EXCEPT !.query = q]
        OBVIOUS
      <4>1. c2 \in Cell /\ c2.busy = c.busy /\ c2.request = c.request /\ c2.query = q
        BY <1>2 DEF Cell
      <4>2. context' = [context EXCEPT ![h.at][h.context] = c2]
        BY <1>7, <3>2 DEF Authorise, SetOwn
      <4> QED BY <4>1, <4>2
    <3> QED BY <3>1, <3>2
  <2>4. Local(d, h2, g, c2)
    BY <1>4, <2>2, <2>3 DEF Local
  <2>5. Fits(d, h2, g, c2) /\ (d \notin shared => Owns(d, h2, g, c2))
    BY <1>3, <2>2, <2>3 DEF Fits, Owns, Uses, Working
  <2> QED BY <1>2, <2>2, <2>4, <2>5
<1>8. ASSUME Lookup(d)
      PROVE  \E h2 \in Handler, g2 \in Recorder, c2 \in Cell : Goes(h2, g2, c2)
  <2>1. h.pc = "lookup" /\ context' = context /\ shared' = shared
    BY <1>8 DEF Lookup
  <2>2. CASE RequestAt(d, "refused") /\ UNCHANGED recorder
    <3> PICK h2 : h2 = [h EXCEPT !.pc = "refused"]
      OBVIOUS
    <3>1. h2 \in Handler /\ h2.at = h.at /\ h2.context = h.context /\ h2.pc = "refused"
      BY <1>2 DEF Handler
    <3>2. Local(d, h2, g, c)
      BY <1>4, <2>1, <2>2, <3>1 DEF Local, RequestAt
    <3>3. Fits(d, h2, g, c) /\ (d \notin shared => Owns(d, h2, g, c))
      BY <1>3, <2>1, <3>1 DEF Fits, Owns, Uses, Working
    <3> QED BY <1>2, <3>1, <3>2, <3>3
  <2>3. CASE RequestAt(d, "redirected") /\ recorder' = [recorder EXCEPT ![d].pc = "context"]
    <3> PICK h2, g2 : h2 = [h EXCEPT !.pc = "redirected"] /\ g2 = [g EXCEPT !.pc = "context"]
      OBVIOUS
    <3>1. /\ h2 \in Handler /\ h2.at = h.at /\ h2.context = h.context /\ h2.pc = "redirected"
          /\ g2 \in Recorder /\ g2.pc = "context"
      BY <1>2 DEF Handler, Recorder
    <3>2. Local(d, h2, g2, c)
      BY <1>4, <2>1, <2>3, <3>1 DEF Local, RequestAt
    <3>3. Fits(d, h2, g2, c) /\ (d \notin shared => Owns(d, h2, g2, c))
      BY <1>3, <2>1, <3>1 DEF Fits, Owns, Uses, Working
    <3> QED BY <1>2, <3>1, <3>2, <3>3
  <2> QED BY <1>8, <2>2, <2>3 DEF Lookup
<1>9. ASSUME Return(d)
      PROVE  \E h2 \in Handler, g2 \in Recorder, c2 \in Cell : Goes(h2, g2, c2)
  <2> PICK pc : pc = IF h.pc = "refused" THEN "failed" ELSE "answered"
    OBVIOUS
  <2> PICK h2, c2 : h2 = [h EXCEPT !.pc = pc] /\ c2 = [c EXCEPT !.busy = FALSE]
    OBVIOUS
  <2>1. h.pc \in {"refused", "redirected"}
    BY <1>9 DEF Return
  <2>2. pc = (IF h.pc = "refused" THEN "failed" ELSE "answered") /\ pc \in {"failed", "answered"}
    OBVIOUS
  <2>3. /\ h2 \in Handler /\ h2.at = h.at /\ h2.context = h.context /\ h2.pc = pc
        /\ c2 \in Cell /\ c2.request = c.request /\ c2.query = c.query
    BY <1>2, <2>2 DEF Handler, Cell
  <2>4. Local(d, h2, g, c2)
    BY <1>4, <1>9, <2>1, <2>2, <2>3 DEF Return, Local, SetOwn, RequestAt, Working
  <2>5. Fits(d, h2, g, c2) /\ (d \notin shared => Owns(d, h2, g, c2))
    BY <1>1, <1>3, <2>1, <2>2, <2>3 DEF Fits, Owns, Uses, Working
  <2> QED BY <1>2, <2>3, <2>4, <2>5
<1>10. ASSUME UNCHANGED <<request, context, shared>>,
              NEW g2 \in Recorder, recorder' = [recorder EXCEPT ![d] = g2],
              Fits(d, h, g2, c) /\ (d \notin shared => Owns(d, h, g2, c))
       PROVE  \E h2 \in Handler, g3 \in Recorder, c2 \in Cell : Goes(h2, g3, c2)
  BY <1>2, <1>4, <1>10 DEF Local
<1>11. ASSUME GoAway(d)
       PROVE  \E h2 \in Handler, g2 \in Recorder, c2 \in Cell : Goes(h2, g2, c2)
  BY <1>2, <1>3, <1>4, <1>10, <1>11 DEF GoAway
<1>12. ASSUME ReadContext(d)
       PROVE  \E h2 \in Handler, g2 \in Recorder, c2 \in Cell : Goes(h2, g2, c2)
  <2> PICK g2 : g2 = [g EXCEPT !.pc = "client", !.alive = c.request]
    OBVIOUS
  <2>1. g2 \in Recorder /\ g2.pc = "client" /\ g.pc = "context"
    BY <1>2, <1>12 DEF Recorder, Cell, ReadContext
  <2>2. recorder' = [recorder EXCEPT ![d] = g2]
    BY <1>2, <1>5, <1>12 DEF ReadContext, Recorder
  <2>3. Fits(d, h, g2, c) /\ (d \notin shared => Owns(d, h, g2, c))
    BY <1>3, <2>1 DEF Fits, Owns, Uses
  <2> QED BY <1>10, <1>12, <2>1, <2>2, <2>3 DEF ReadContext
<1>13. ASSUME ReadClient(d)
       PROVE  \E h2 \in Handler, g2 \in Recorder, c2 \in Cell : Goes(h2, g2, c2)
  <2> PICK g2 : g2 = [g EXCEPT !.pc = "device", !.client = c.request]
    OBVIOUS
  <2>1. g2 \in Recorder /\ g2.pc = "device" /\ g2.client = c.request /\ g.pc = "client"
    BY <1>2, <1>13 DEF Recorder, Cell, ReadClient
  <2>2. recorder' = [recorder EXCEPT ![d] = g2]
    BY <1>2, <1>5, <1>13 DEF ReadClient, Recorder
  <2>3. Fits(d, h, g2, c) /\ (d \notin shared => Owns(d, h, g2, c))
    BY <1>3, <2>1 DEF Fits, Owns, Uses
  <2> QED BY <1>10, <1>13, <2>1, <2>2, <2>3 DEF ReadClient
<1>14. ASSUME ReadDevice(d)
       PROVE  \E h2 \in Handler, g2 \in Recorder, c2 \in Cell : Goes(h2, g2, c2)
  <2> PICK pc, v : /\ pc = IF c.query = None THEN "parsed" ELSE "insert"
                  /\ v = IF c.query = None THEN c.request ELSE c.query
    OBVIOUS
  <2> PICK g2 : g2 = [g EXCEPT !.pc = pc, !.device = v]
    OBVIOUS
  <2>1. pc \in {"parsed", "insert"} /\ (v = c.request \/ (v = c.query /\ v # None))
    OBVIOUS
  <2>2. v \in Requests \cup {None}
    BY <1>2, <2>1 DEF Cell
  <2>3. /\ g2 \in Recorder /\ g2.pc = pc /\ g2.device = v /\ g2.client = g.client
        /\ g.pc = "device"
    BY <1>2, <1>14, <2>1, <2>2 DEF Recorder, ReadDevice
  <2>4. recorder' = [recorder EXCEPT ![d] = g2]
    BY <1>2, <1>5, <1>14 DEF ReadDevice, Recorder
  <2>5. Fits(d, h, g2, c) /\ (d \notin shared => Owns(d, h, g2, c))
    BY <1>3, <2>1, <2>3 DEF Fits, Owns, Uses
  <2> QED BY <1>10, <1>14, <2>3, <2>4, <2>5 DEF ReadDevice
<1>15. ASSUME KeepQuery(d)
       PROVE  \E h2 \in Handler, g2 \in Recorder, c2 \in Cell : Goes(h2, g2, c2)
  <2> PICK g2, c2 : g2 = [g EXCEPT !.pc = "insert"] /\ c2 = [c EXCEPT !.query = g.device]
    OBVIOUS
  <2>1. /\ g2 \in Recorder /\ g2.pc = "insert" /\ g2.device = g.device /\ g2.client = g.client
        /\ g.pc = "parsed"
        /\ c2 \in Cell /\ c2.busy = c.busy /\ c2.request = c.request /\ c2.query = g.device
    BY <1>2, <1>15 DEF Recorder, Cell, KeepQuery
  <2>2. Local(d, h, g2, c2)
    BY <1>4, <1>5, <1>15, <2>1 DEF KeepQuery, Local, SetOwn
  <2>3. Fits(d, h, g2, c2) /\ (d \notin shared => Owns(d, h, g2, c2))
    BY <1>3, <2>1 DEF Fits, Owns, Uses
  <2> QED BY <1>2, <2>1, <2>2, <2>3
<1>16. ASSUME Insert(d)
       PROVE  \E h2 \in Handler, g2 \in Recorder, c2 \in Cell : Goes(h2, g2, c2)
  <2> PICK g2 : g2 = [NoRecorder EXCEPT !.pc = "done"]
    OBVIOUS
  <2>1. g2 \in Recorder /\ g2.pc = "done"
    BY DEF Recorder, NoRecorder
  <2>2. g.pc = "insert"
    BY <1>16 DEF Insert
  <2>3. Fits(d, h, g2, c) /\ (d \notin shared => Owns(d, h, g2, c))
    BY <1>3, <2>1, <2>2 DEF Fits, Owns, Uses
  <2> QED BY <1>10, <1>16, <2>1, <2>3 DEF Insert
<1> HIDE DEF Goes
<1>17. \E h2 \in Handler, g2 \in Recorder, c2 \in Cell : Goes(h2, g2, c2)
  BY <1>6, <1>7, <1>8, <1>9, <1>11, <1>12, <1>13, <1>14, <1>15, <1>16 DEF Handle, Record
<1> QED BY <1>1, <1>17 DEF Goes

\* Servers, handlers under way and the log, when a request takes a step.
LEMMA RequestFrame ==
    ASSUME TypeOK, FitInv, OwnInv, DownInv, RowsNameTheDownloader,
           NEW d \in Requests, Handle(d) \/ GoAway(d) \/ Record(d)
    PROVE  /\ UNCHANGED <<tables, users, server, wanted, faults>>
           /\ gone' \subseteq Requests /\ shared' = shared
           /\ log' \in [Requests -> [client: Requests, device: Requests] \cup {None}]
           /\ RowsNameTheDownloader'
           /\ IF Return(d) THEN handling' = [handling EXCEPT ![request[d].at] = @ \ {d}]
                           ELSE handling' = handling
<1> USE DEF Handle, Record, GoAway, Reset, Authorise, Lookup, Return, ReadContext, ReadClient,
        ReadDevice, KeepQuery, Insert, serverVars
<1>1. /\ UNCHANGED <<tables, users, server, wanted, faults>>
      /\ shared' = shared /\ gone' \subseteq gone \cup {d}
  OBVIOUS
<1>2. IF Return(d) THEN handling' = [handling EXCEPT ![request[d].at] = @ \ {d}]
                  ELSE handling' = handling
  OBVIOUS
<1>3. Insert(d) \/ UNCHANGED log
  OBVIOUS
<1> HIDE DEF Handle, Record, GoAway, Reset, Authorise, Lookup, Return, ReadContext, ReadClient,
        ReadDevice, KeepQuery
<1>4. CASE UNCHANGED log
  BY <1>1, <1>2, <1>4 DEF TypeOK, RowsNameTheDownloader
<1>5. CASE Insert(d) /\ ~UNCHANGED log
  <2> PICK row, g : g = recorder[d] /\ row = [client |-> g.client, device |-> g.device]
    OBVIOUS
  <2>1. log' = [log EXCEPT ![d] = row] /\ g.pc = "insert"
    BY <1>5
  <2>2. g \in Recorder /\ g.client # None /\ g.device # None
    BY <2>1, RequestKinds DEF FitInv, Fits
  <2>3. g.client \in Requests /\ g.device \in Requests
    BY <2>2 DEF Recorder
  <2>4. row \in [client: Requests, device: Requests]
    BY <2>3
  <2>5. d \notin shared => row = [client |-> d, device |-> d]
    BY <2>1 DEF OwnInv, Owns
  <2>6. log \in [Requests -> [client: Requests, device: Requests] \cup {None}]
    BY DEF TypeOK
  <2>7. log' \in [Requests -> [client: Requests, device: Requests] \cup {None}]
    BY <2>1, <2>4, <2>6
  <2>8. RowsNameTheDownloader'
    BY <1>1, <2>1, <2>5, <2>6 DEF RowsNameTheDownloader
  <2> QED BY <1>1, <1>2, <2>7, <2>8 DEF TypeOK
<1> QED BY <1>3, <1>4, <1>5

\* Who is being handled is who is at work.
LEMMA Handled ==
    ASSUME TypeOK, NEW s \in Servers
    PROVE  handling[s] = {d \in Requests : request[d].at = s /\ request[d].pc \in Working}
<1>1. \A d \in Requests : request[d].pc \notin {"new", "failed", "answered", "lost"}
                            <=> request[d].pc \in Working
  BY RequestKinds DEF Working, Handler
<1> QED BY <1>1 DEF TypeOK

HandlingOK ==
    \A s \in Servers :
        handling[s] = {d \in Requests : /\ request[d].at = s
                                       /\ request[d].pc \notin {"new", "failed", "answered", "lost"}}

LEMMA RequestHandling ==
    ASSUME TypeOK, FitInv, OwnInv, DownInv, RowsNameTheDownloader,
           NEW d \in Requests, Handle(d) \/ GoAway(d) \/ Record(d)
    PROVE  HandlingOK' /\ DownInv'
<1>1. /\ handling \in [Servers -> SUBSET Requests]
      /\ \A s \in Servers : server[s].pc = "down" => handling[s] = {}
  BY DEF DownInv, At
<1>2. server' = server
  BY RequestFrame
<1>3. HandlingOK
  BY DEF TypeOK, HandlingOK
<1>4. request \in [Requests -> Handler \cup {NewRequest}]
  BY DEF TypeOK
<1>5. CASE Return(d)
  <2> PICK pc, a : pc = (IF request[d].pc = "refused" THEN "failed" ELSE "answered") /\ a = request[d].at
    OBVIOUS
  <2>1. request[d] \in Handler /\ request[d].pc \in {"refused", "redirected"}
    BY <1>5, RequestKinds DEF Return
  <2>2. /\ \A e \in Requests \ {d} : request'[e] = request[e]
        /\ request'[d].at = a /\ request'[d].pc \in {"failed", "answered"}
    BY <1>4, <1>5, <2>1 DEF Return, RequestAt, Handler
  <2>3. handling' = [handling EXCEPT ![a] = @ \ {d}]
    BY <1>5, RequestFrame
  <2>4. a \in Servers
    BY <2>1 DEF Handler
  <2>5. \A s \in Servers : handling'[s] = handling[s] \ (IF s = a THEN {d} ELSE {})
    BY <1>1, <2>3, <2>4
  <2>6. \A s \in Servers : handling'[s] =
            {e \in Requests : /\ request'[e].at = s
                              /\ request'[e].pc \notin {"new", "failed", "answered", "lost"}}
    <3> TAKE s \in Servers
    <3>1. handling[s] = {e \in Requests : /\ request[e].at = s
                              /\ request[e].pc \notin {"new", "failed", "answered", "lost"}}
      BY <1>3 DEF HandlingOK
    <3> QED BY <2>2, <2>5, <3>1
  <2>7. handling' \in [Servers -> SUBSET Requests]
    BY <1>1, <2>3, <2>4
  <2>8. \A s \in Servers : handling'[s] \subseteq handling[s]
    BY <2>5
  <2> QED BY <1>1, <1>2, <2>6, <2>7, <2>8 DEF HandlingOK, DownInv, At
<1>6. CASE ~Return(d)
  <2>1. handling' = handling
    BY <1>6, RequestFrame
  <2>2. \A e \in Requests : /\ request'[e].at = request[e].at
                            /\ request'[e].pc \in {"new", "failed", "answered", "lost"}
                               <=> request[e].pc \in {"new", "failed", "answered", "lost"}
    <3>1. CASE UNCHANGED request
      BY <3>1
    <3>2. CASE Reset(d) \/ Authorise(d) \/ Lookup(d)
      <4>1. PICK pc \in {"authorise", "lookup", "refused", "redirected"} : RequestAt(d, pc)
        BY <3>2 DEF Reset, Authorise, Lookup
      <4>2. request[d].pc \in {"reset", "authorise", "lookup"}
        BY <3>2 DEF Reset, Authorise, Lookup
      <4>3. request[d] \in Handler
        BY <4>2, RequestKinds
      <4>4. /\ request'[d].pc = pc /\ request'[d].at = request[d].at
            /\ \A e \in Requests \ {d} : request'[e] = request[e]
        BY <1>4, <4>1, <4>3 DEF RequestAt, Handler
      <4> QED BY <4>2, <4>4
    <3>3. CASE GoAway(d) \/ Record(d)
      BY <3>1, <3>3 DEF Record, GoAway, ReadContext, ReadClient, ReadDevice, KeepQuery, Insert
    <3> QED BY <1>6, <3>2, <3>3 DEF Handle
  <2> QED BY <1>1, <1>2, <1>3, <2>1, <2>2 DEF HandlingOK, DownInv, At
<1> QED BY <1>5, <1>6

LEMMA RequestStep ==
    ASSUME IInv, NEW d \in Requests, Handle(d) \/ GoAway(d) \/ Record(d)
    PROVE  IInv'
<1>1. /\ request' \in [Requests -> Handler \cup {NewRequest}]
      /\ recorder' \in [Requests -> Recorder]
      /\ context' \in [Servers -> [Contexts -> Cell]]
      /\ FitInv' /\ MeetInv' /\ OwnInv'
  BY RequestSteps, LocalStep DEF IInv
<1>2. /\ UNCHANGED <<tables, users, server, wanted, faults>>
      /\ gone' \subseteq Requests /\ shared' = shared
      /\ log' \in [Requests -> [client: Requests, device: Requests] \cup {None}]
      /\ RowsNameTheDownloader'
  BY RequestFrame DEF IInv
<1>3. HandlingOK' /\ DownInv'
  BY RequestHandling DEF IInv
<1>4. ServerTypeOK' /\ StartInv'
  BY <1>2 DEF IInv, TypeOK, ServerTypeOK, StartInv
<1>5. TypeOK'
  BY <1>1, <1>2, <1>3, <1>4 DEF TypeOK, HandlingOK, Recorder, Cell, IInv
<1> QED BY <1>1, <1>2, <1>3, <1>4, <1>5 DEF IInv

-----------------------------------------------------------------------------
(* A request is accepted.                                                   *)

LEMMA AcceptStep ==
    ASSUME IInv, NEW d \in Requests, NEW s \in Addressed, NEW x \in Contexts, Accept(d, s, x)
    PROVE  IInv'
<1> PICK h, c : /\ h = [pc |-> "reset", at |-> s, context |-> x]
               /\ c = [context[s][x] EXCEPT !.request = d, !.busy = TRUE]
  OBVIOUS
<1>0. /\ TypeOK /\ FitInv /\ MeetInv /\ OwnInv /\ DownInv
      /\ s \in Servers /\ d # None
      /\ request[d].pc = "new" /\ ~context[s][x].busy
      /\ UNCHANGED <<tables, users, server, wanted, faults, recorder, gone, log>>
  BY DownloadsAssumption DEF IInv, Accept
<1>1. /\ request' \in [Requests -> Handler \cup {NewRequest}]
      /\ request'[d] = h /\ h.pc = "reset" /\ h.at = s /\ h.context = x
      /\ \A e \in Requests \ {d} : request'[e] = request[e]
  BY <1>0 DEF Accept, TypeOK, Handler
<1>2. /\ context \in [Servers -> [Contexts -> Cell]]
      /\ context' = [context EXCEPT ![s][x] = c]
  BY DEF Accept, TypeOK, Cell, IInv
<1>3. c \in Cell /\ c.request = d /\ c.busy
  <2> PICK c0 : c0 = context[s][x]
    OBVIOUS
  <2>1. c0 \in Cell /\ c = [c0 EXCEPT !.request = d, !.busy = TRUE]
    BY <1>0, <1>2
  <2> QED BY <2>1 DEF Cell
<1>4. /\ context' \in [Servers -> [Contexts -> Cell]]
      /\ context'[s][x] = c
      /\ \A t \in Servers, y \in Contexts : t # s \/ y # x => context'[t][y] = context[t][y]
  BY <1>0, <1>2, <1>3
<1>5. Own(d)' = c
  BY <1>1, <1>4 DEF Own
<1>6. ~Uses(request[d], recorder[d]) /\ recorder[d] \in Recorder
  BY <1>0, UsersAreNotNew, RequestKinds
<1>7. /\ shared \subseteq shared' /\ shared' \subseteq Requests
      /\ Holding(s, x) # {} => Holding(s, x) \cup {d} \subseteq shared'
  BY <1>0 DEF Accept, TypeOK, Holding
<1>8. ASSUME NEW e \in Requests \ {d}, Uses(request[e], recorder[e])
      PROVE  IF request[e].at = s /\ request[e].context = x
             THEN Own(e)' = c /\ e \in Holding(s, x) /\ request[e].pc \notin Working
             ELSE Own(e)' = Own(e)
  <2>1. request[e].at \in Servers /\ request[e].context \in Contexts
    BY <1>0, <1>8, UsersAreNotNew, OwnCell
  <2>2. Own(e)' = context'[request[e].at][request[e].context]
    BY <1>1 DEF Own
  <2>3. request[e].pc \in Working => Own(e).busy
    BY <1>0 DEF FitInv, Fits
  <2>4. CASE request[e].at = s /\ request[e].context = x
    <3>1. request[e].pc \notin Working
      BY <1>0, <2>3, <2>4 DEF Own
    <3> QED BY <1>4, <1>8, <2>2, <2>4, <3>1 DEF Holding, Recording, Uses
  <2>5. CASE ~(request[e].at = s /\ request[e].context = x)
    BY <1>4, <2>1, <2>2, <2>5 DEF Own
  <2> QED BY <2>4, <2>5
<1>9. FitInv'
  <2>1. Fits(d, h, recorder[d], c)
    BY <1>1, <1>3, <1>6 DEF Fits, Uses
  <2>2. ASSUME NEW e \in Requests \ {d}
        PROVE  Fits(e, request[e], recorder[e], Own(e)')
    <3>1. Fits(e, request[e], recorder[e], Own(e))
      BY <1>0 DEF FitInv
    <3>2. CASE ~Uses(request[e], recorder[e])
      BY <3>1, <3>2 DEF Fits, Uses
    <3>3. CASE Uses(request[e], recorder[e])
      BY <1>0, <1>3, <1>8, <3>1, <3>3 DEF Fits
    <3> QED BY <3>2, <3>3
  <2> QED BY <1>0, <1>1, <1>5, <2>1, <2>2 DEF FitInv
<1>10. MeetInv'
  <2> SUFFICES ASSUME NEW a \in Requests, NEW b \in Requests, a # b,
                      Uses(request'[a], recorder'[a]), Uses(request'[b], recorder'[b]),
                      Together(a, b)'
               PROVE  a \in shared'
    BY DEF MeetInv
  <2>1. CASE a # d /\ b # d
    <3>1. Together(a, b) /\ Uses(request[a], recorder[a]) /\ Uses(request[b], recorder[b])
      BY <1>0, <1>1, <2>1 DEF Together
    <3> QED BY <1>0, <1>7, <3>1 DEF MeetInv
  <2>2. CASE a = d
    <3>1. Uses(request[b], recorder[b]) /\ request[b].at = s /\ request[b].context = x
      BY <1>0, <1>1, <2>2 DEF Together
    <3> QED BY <1>7, <1>8, <2>2, <3>1
  <2>3. CASE b = d
    <3>1. Uses(request[a], recorder[a]) /\ request[a].at = s /\ request[a].context = x
      BY <1>0, <1>1, <2>3 DEF Together
    <3> QED BY <1>7, <1>8, <2>3, <3>1
  <2> QED BY <2>1, <2>2, <2>3
<1>11. OwnInv'
  <2>1. Owns(d, h, recorder[d], c)
    BY <1>1, <1>3, <1>6 DEF Owns, Uses
  <2>2. ASSUME NEW e \in Requests \ {d}, e \notin shared'
        PROVE  Owns(e, request[e], recorder[e], Own(e)')
    <3>1. Owns(e, request[e], recorder[e], Own(e))
      BY <1>0, <1>7, <2>2 DEF OwnInv
    <3>2. CASE ~Uses(request[e], recorder[e])
      BY <3>1, <3>2 DEF Owns
    <3>3. CASE Uses(request[e], recorder[e])
      BY <1>7, <1>8, <2>2, <3>1, <3>3
    <3> QED BY <3>2, <3>3
  <2> QED BY <1>0, <1>1, <1>5, <2>1, <2>2 DEF OwnInv
<1>12. HandlingOK' /\ DownInv'
  <2>1. /\ handling \in [Servers -> SUBSET Requests]
        /\ \A t \in Servers : server[t].pc = "down" => handling[t] = {}
    BY <1>0 DEF DownInv, At
  <2>2. handling' = [handling EXCEPT ![s] = @ \cup {d}] /\ server[s].pc # "down"
    BY DEF Accept
  <2>3. /\ handling' \in [Servers -> SUBSET Requests]
        /\ \A t \in Servers : handling'[t] = handling[t] \cup (IF t = s THEN {d} ELSE {})
    BY <1>0, <2>1, <2>2
  <2>4. \A t \in Servers : handling'[t] =
            {e \in Requests : /\ request'[e].at = t
                              /\ request'[e].pc \notin {"new", "failed", "answered", "lost"}}
    <3> TAKE t \in Servers
    <3>1. handling[t] = {e \in Requests : /\ request[e].at = t
                              /\ request[e].pc \notin {"new", "failed", "answered", "lost"}}
      BY <1>0 DEF TypeOK
    <3> QED BY <1>0, <1>1, <2>3, <3>1
  <2> QED BY <1>0, <2>1, <2>2, <2>3, <2>4 DEF HandlingOK, DownInv, At
<1>13. ServerTypeOK' /\ StartInv'
  BY <1>0 DEF IInv, TypeOK, ServerTypeOK, StartInv
<1>14. TypeOK'
  BY <1>0, <1>1, <1>4, <1>7, <1>12, <1>13 DEF TypeOK, HandlingOK, Cell
<1>15. RowsNameTheDownloader'
  BY <1>0, <1>7 DEF IInv, RowsNameTheDownloader
<1> QED BY <1>9, <1>10, <1>11, <1>12, <1>13, <1>14, <1>15 DEF IInv

-----------------------------------------------------------------------------
(* A server takes a step, and what is in it follows.                        *)

\* Handlers end with their server, and not before it.
LEMMA HandlersFollow ==
    ASSUME TypeOK, DownInv, NEW s \in Servers, Boot(s) \/ Shutdown(s) \/ Disturb(s)
    PROVE  /\ handling' \in [Servers -> SUBSET Requests]
           /\ \A t \in Servers : handling'[t] = IF t \in Ended THEN {} ELSE handling[t]
           /\ \A t \in Servers : server'[t].pc = "down" => handling'[t] = {}
<1>1. /\ handling \in [Servers -> SUBSET Requests]
      /\ \A t \in Servers : server[t].pc = "down" => handling[t] = {}
  BY DEF DownInv, At
<1>2. /\ DOMAIN server = Servers
      /\ \A t \in Servers : server[t].pc = "down" => server[t] = Down
  BY ServerKinds DEF TypeOK, ServerTypeOK
<1>3. CASE End(s)
  <2>1. /\ handling' = [handling EXCEPT ![s] = {}]
        /\ server' = [server EXCEPT ![s] = Down]
    BY <1>3 DEF End
  <2>2. /\ handling'[s] = {} /\ server'[s] = Down /\ Down.pc = "down"
        /\ \A t \in Servers \ {s} : handling'[t] = handling[t] /\ server'[t] = server[t]
    BY <1>1, <1>2, <2>1 DEF Down
  <2>3. handling' \in [Servers -> SUBSET Requests]
    BY <1>1, <2>1
  <2>4. \A t \in Servers : handling'[t] = IF t \in Ended THEN {} ELSE handling[t]
    BY <1>1, <2>2 DEF Ended
  <2> QED BY <1>1, <2>2, <2>3, <2>4
<1>4. ASSUME UNCHANGED handling,
             \A t \in Servers : server'[t].pc = "down" => server[t].pc = "down"
      PROVE  /\ handling' \in [Servers -> SUBSET Requests]
             /\ \A t \in Servers : handling'[t] = IF t \in Ended THEN {} ELSE handling[t]
             /\ \A t \in Servers : server'[t].pc = "down" => handling'[t] = {}
  BY <1>1, <1>4 DEF Ended
<1>5. ASSUME NEW pc, pc # "down", Go(s, pc)
      PROVE  \A t \in Servers : server'[t].pc = "down" => server[t].pc = "down"
  <2>1. \A t \in Servers \ {s} : server'[t] = server[t]
    BY <1>2, <1>5 DEF Go
  <2>2. "pc" \in DOMAIN server[s]
    <3> PICK row : row = server[s]
      OBVIOUS
    <3>1. row \in Servings
      BY ServerKinds DEF TypeOK
    <3>2. "pc" \in DOMAIN row
      BY <3>1 DEF Servings, Starting, Started, Down
    <3> QED BY <3>2
  <2>3. server'[s].pc = pc
    BY <1>2, <1>5, <2>2 DEF Go
  <2> QED BY <1>5, <2>1, <2>3
<1>6. ASSUME UNCHANGED server
      PROVE  \A t \in Servers : server'[t].pc = "down" => server[t].pc = "down"
  BY <1>6
<1>7. ASSUME NEW row, row.pc # "down", server' = [server EXCEPT ![s] = row]
      PROVE  \A t \in Servers : server'[t].pc = "down" => server[t].pc = "down"
  BY <1>2, <1>7
<1>8. ASSUME NextTable(s), server[s] \in Starting
      PROVE  \A t \in Servers : server'[t].pc = "down" => server[t].pc = "down"
  <2> PICK row : row = IF server[s].table = NumTables THEN [server[s] EXCEPT !.pc = "count"]
                       ELSE [server[s] EXCEPT !.pc = "check", !.table = server[s].table + 1]
    OBVIOUS
  <2>1. row.pc \in {"count", "check"}
    BY <1>8 DEF Starting
  <2>2. server' = [server EXCEPT ![s] = row]
    BY <1>2, <1>8 DEF NextTable
  <2> QED BY <1>7, <2>1, <2>2
<1>9. CASE Boot(s)
  <2>1. CASE Launch(s)
    BY <1>4, <1>7, <2>1 DEF Launch
  <2>2. CASE CheckTable(s)
    <3>1. server[s] \in Starting /\ UNCHANGED handling
      BY <2>2, ServerKinds DEF CheckTable, At, TypeOK
    <3>2. NextTable(s) \/ Go(s, "create")
      BY <2>2 DEF CheckTable
    <3>3. \A t \in Servers : server'[t].pc = "down" => server[t].pc = "down"
      BY <1>5, <1>8, <3>1, <3>2
    <3> QED BY <1>4, <3>1, <3>3
  <2>3. CASE CreateTable(s)
    <3>1. server[s] \in Starting
      BY <2>3, ServerKinds DEF CreateTable, At, TypeOK
    <3>2. End(s) \/ (NextTable(s) /\ UNCHANGED handling)
      BY <2>3 DEF CreateTable
    <3> QED BY <1>3, <1>4, <1>8, <3>1, <3>2
  <2>4. CASE CountUsers(s) \/ CreateAdmin(s) \/ ConnectRedis(s) \/ NotifySignals(s)
    <3>1. UNCHANGED handling /\ \E pc \in {"redis", "admin", "listening", "serving"} : Go(s, pc)
      BY <2>4 DEF CountUsers, CreateAdmin, ConnectRedis, NotifySignals
    <3>2. \A t \in Servers : server'[t].pc = "down" => server[t].pc = "down"
      BY <1>5, <3>1
    <3> QED BY <1>4, <3>1, <3>2
  <2> QED BY <1>9, <2>1, <2>2, <2>3, <2>4 DEF Boot
<1>10. CASE Shutdown(s) \/ Crash(s)
  BY <1>3, <1>10 DEF Shutdown, Drained, ShutdownTimeout, Crash
<1>11. CASE Start(s)
  BY <1>4, <1>6, <1>11 DEF Start
<1>12. CASE Stop(s)
  <2>1. CASE Go(s, "draining") /\ UNCHANGED handling
    BY <1>4, <1>5, <2>1
  <2> QED BY <1>3, <1>12, <2>1 DEF Stop
<1>13. CASE WarnAdmin(s)
  <2> PICK row : row = [server[s] EXCEPT !.pc = "redis", !.faulted = TRUE]
    OBVIOUS
  <2>1. server[s] \in Started /\ UNCHANGED handling
    BY <1>13, ServerKinds DEF WarnAdmin, At, TypeOK
  <2>2. row.pc = "redis" /\ server' = [server EXCEPT ![s] = row]
    BY <1>2, <1>13, <2>1 DEF WarnAdmin, Started
  <2> QED BY <1>4, <1>7, <2>1, <2>2
<1> QED BY <1>9, <1>10, <1>11, <1>12, <1>13 DEF Disturb

\* What was in a server that ended is no longer at work; nothing else notices.
LEMMA RequestsFollow ==
    ASSUME TypeOK, FitInv, DownInv, NEW s \in Servers, Boot(s) \/ Shutdown(s) \/ Disturb(s),
           Follow, NEW d \in Requests
    PROVE  /\ request'[d] \in Handler \cup {NewRequest} /\ recorder'[d] \in Recorder
           /\ request'[d].at = request[d].at /\ request'[d].context = request[d].context
           /\ IF request[d].at \in Ended
              THEN ~Uses(request'[d], recorder'[d])
              ELSE /\ request'[d] = request[d]
                   /\ Uses(request[d], recorder[d]) => Own(d)' = Own(d)
           /\ Uses(request'[d], recorder'[d]) =>
                 request[d].at \notin Ended /\ Uses(request[d], recorder[d])
           /\ recorder'[d] = recorder[d] \/ recorder'[d].pc = "done"
<1> PICK h, g : h = request[d] /\ g = recorder[d]
  OBVIOUS
<1> PICK lost, done : lost = [h EXCEPT !.pc = "lost"] /\ done = [NoRecorder EXCEPT !.pc = "done"]
  OBVIOUS
<1>1. /\ h \in Handler \cup {NewRequest} /\ g \in Recorder
      /\ h.pc = "new" => h = NewRequest
      /\ h.pc # "new" => h \in Handler
  BY RequestKinds DEF TypeOK
<1>2. /\ done \in Recorder /\ done.pc = "done"
      /\ h \in Handler => /\ lost \in Handler /\ lost.pc = "lost"
                          /\ lost.at = h.at /\ lost.context = h.context
  BY DEF Handler, Recorder, NoRecorder
<1>3. /\ h.at \in Servers => (d \in handling[h.at] <=> h.pc \in Working)
      /\ Ended \subseteq Servers
  BY Handled DEF Ended
<1>4. /\ request'[d] = IF h.at \in Ended /\ d \in handling[h.at] THEN lost ELSE h
      /\ recorder'[d] = IF h.at \in Ended /\ g.pc \notin {"none", "done"} THEN done ELSE g
  BY DEF Follow, Recording
<1>5. h.pc \in Working => h \in Handler
  BY <1>1 DEF Working
<1>6. /\ request'[d] \in Handler \cup {NewRequest} /\ recorder'[d] \in Recorder
      /\ request'[d].at = h.at /\ request'[d].context = h.context
      /\ recorder'[d] = g \/ recorder'[d].pc = "done"
  BY <1>1, <1>2, <1>3, <1>4, <1>5
<1>7. h.at \in Ended => ~Uses(request'[d], recorder'[d])
  <2>1. ASSUME h.at \in Ended
        PROVE  request'[d].pc \notin Working
    BY <1>2, <1>3, <1>4, <1>5, <2>1 DEF Working
  <2>2. ASSUME h.at \in Ended
        PROVE  recorder'[d].pc \in {"none", "done"}
    BY <1>2, <1>4, <2>2
  <2> QED BY <2>1, <2>2 DEF Uses
<1>8. h.at \notin Ended => request'[d] = h /\ recorder'[d] = g
  BY <1>4
<1>9. ASSUME h.at \notin Ended, Uses(h, g)
      PROVE  Own(d)' = Own(d)
  <2>1. h.at \in Servers
    BY <1>9, UsersAreNotNew, OwnCell
  <2>2. context'[h.at] = context[h.at]
    BY <1>9, <2>1 DEF Follow
  <2> QED BY <1>6, <2>2 DEF Own
<1> QED BY <1>6, <1>7, <1>8, <1>9

LEMMA FollowStep ==
    ASSUME IInv, NEW s \in Servers, ServerStep(s)
    PROVE  IInv'
<1>0. /\ TypeOK /\ FitInv /\ MeetInv /\ OwnInv /\ DownInv /\ StartInv
      /\ Boot(s) \/ Shutdown(s) \/ Disturb(s)
      /\ Follow /\ log' = log /\ shared' = shared
  BY DEF IInv, ServerStep, Follow
<1>1. ServerTypeOK' /\ StartInv'
  BY <1>0, ServerStepSafe DEF TypeOK
<1>2. /\ handling' \in [Servers -> SUBSET Requests]
      /\ \A t \in Servers : handling'[t] = IF t \in Ended THEN {} ELSE handling[t]
      /\ DownInv'
  BY <1>0, HandlersFollow DEF DownInv, At
<1>3. \A d \in Requests :
          /\ request'[d] \in Handler \cup {NewRequest} /\ recorder'[d] \in Recorder
          /\ request'[d].at = request[d].at /\ request'[d].context = request[d].context
          /\ IF request[d].at \in Ended
             THEN ~Uses(request'[d], recorder'[d])
             ELSE /\ request'[d] = request[d]
                  /\ Uses(request[d], recorder[d]) => Own(d)' = Own(d)
          /\ Uses(request'[d], recorder'[d]) =>
                request[d].at \notin Ended /\ Uses(request[d], recorder[d])
          /\ recorder'[d] = recorder[d] \/ recorder'[d].pc = "done"
  BY <1>0, RequestsFollow
<1>4. /\ request' \in [Requests -> Handler \cup {NewRequest}]
      /\ recorder' \in [Requests -> Recorder]
  <2>1. request' = [d \in Requests |-> request'[d]] /\ recorder' = [d \in Requests |-> recorder'[d]]
    BY <1>0 DEF Follow
  <2> QED BY <1>3, <2>1
<1>5. context' \in [Servers -> [Contexts -> Cell]]
  <2>1. context \in [Servers -> [Contexts -> Cell]]
    BY <1>0 DEF TypeOK, Cell
  <2>2. [x \in Contexts |-> Unused] \in [Contexts -> Cell]
    BY DEF Unused, Cell
  <2> QED BY <1>0, <2>1, <2>2 DEF Follow
<1>6. HandlingOK'
  <2> SUFFICES ASSUME NEW t \in Servers
               PROVE  handling'[t] =
                         {d \in Requests : /\ request'[d].at = t
                                           /\ request'[d].pc \notin {"new", "failed", "answered", "lost"}}
    BY DEF HandlingOK
  <2>1. handling[t] = {d \in Requests : /\ request[d].at = t
                                        /\ request[d].pc \notin {"new", "failed", "answered", "lost"}}
    BY <1>0 DEF TypeOK
  <2>2. CASE t \notin Ended
    BY <1>2, <1>3, <2>1, <2>2
  <2>3. CASE t \in Ended
    <3>1. \A d \in Requests : request[d].at = t => request'[d].pc \notin Working
      BY <1>3, <2>3 DEF Uses
    <3>2. \A d \in Requests : request'[d].pc \notin Working =>
              request'[d].pc \in {"new", "failed", "answered", "lost"}
      <4> TAKE d \in Requests
      <4>1. request'[d] \in Handler \cup {NewRequest}
        BY <1>3
      <4> QED BY <4>1 DEF Handler, NewRequest, Working
    <3> QED BY <1>2, <1>3, <2>3, <3>1, <3>2
  <2> QED BY <2>2, <2>3
<1>7. gone' \subseteq Requests /\ shared' \subseteq Requests
      /\ log' \in [Requests -> [client: Requests, device: Requests] \cup {None}]
  BY <1>0 DEF TypeOK, Follow
<1>8. TypeOK'
  BY <1>1, <1>4, <1>5, <1>6, <1>7 DEF TypeOK, HandlingOK, Recorder, Cell
<1>9. FitInv'
  <2> SUFFICES ASSUME NEW d \in Requests
               PROVE  Fits(d, request'[d], recorder'[d], Own(d)')
    BY DEF FitInv
  <2>1. Fits(d, request[d], recorder[d], Own(d))
    BY <1>0 DEF FitInv
  <2>2. CASE Uses(request'[d], recorder'[d])
    <3>1. recorder'[d] = recorder[d] \/ recorder'[d].pc = "done"
      BY <1>3
    <3>2. request'[d] = request[d] /\ Own(d)' = Own(d)
      BY <1>3, <2>2
    <3>3. recorder'[d].pc = "done" => Fits(d, request'[d], recorder'[d], Own(d)')
      BY <2>1, <3>2 DEF Fits
    <3> QED BY <2>1, <3>1, <3>2, <3>3
  <2>3. CASE ~Uses(request'[d], recorder'[d])
    BY <2>3 DEF Fits, Uses
  <2> QED BY <2>2, <2>3
<1>10. MeetInv'
  <2> SUFFICES ASSUME NEW a \in Requests, NEW b \in Requests, a # b,
                      Uses(request'[a], recorder'[a]), Uses(request'[b], recorder'[b]),
                      Together(a, b)'
               PROVE  a \in shared'
    BY DEF MeetInv
  <2>1. Together(a, b) /\ Uses(request[a], recorder[a]) /\ Uses(request[b], recorder[b])
    BY <1>3 DEF Together
  <2> QED BY <1>0, <2>1 DEF MeetInv
<1>11. OwnInv'
  <2> SUFFICES ASSUME NEW d \in Requests, d \notin shared
               PROVE  Owns(d, request'[d], recorder'[d], Own(d)')
    BY <1>0 DEF OwnInv
  <2>1. Owns(d, request[d], recorder[d], Own(d))
    BY <1>0 DEF OwnInv
  <2>2. recorder'[d] = recorder[d] \/ recorder'[d].pc = "done"
    BY <1>3
  <2>3. CASE Uses(request'[d], recorder'[d])
    <3>1. request'[d] = request[d] /\ Own(d)' = Own(d) /\ Uses(request[d], recorder[d])
      BY <1>3, <2>3
    <3> QED BY <2>1, <2>2, <3>1 DEF Owns
  <2>4. CASE ~Uses(request'[d], recorder'[d])
    BY <2>1, <2>2, <2>4 DEF Owns
  <2> QED BY <2>3, <2>4
<1>12. RowsNameTheDownloader'
  BY <1>0 DEF IInv, RowsNameTheDownloader
<1> QED BY <1>1, <1>2, <1>8, <1>9, <1>10, <1>11, <1>12 DEF IInv

LEMMA IInvStep == IInv /\ [Next]_vars => IInv'
<1> SUFFICES ASSUME IInv, [Next]_vars PROVE IInv'
  OBVIOUS
<1>1. CASE \E s \in Servers : ServerStep(s)
  BY <1>1, FollowStep
<1>2. CASE \E d \in Requests : \E s \in Addressed, x \in Contexts : Accept(d, s, x)
  BY <1>2, AcceptStep
<1>3. CASE \E d \in Requests : Handle(d) \/ GoAway(d) \/ Record(d)
  BY <1>3, RequestStep
<1>4. CASE UNCHANGED vars
  <2>1. \A d \in Requests : Own(d)' = Own(d)
    BY <1>4 DEF vars, downloadVars, Own
  <2>2. TypeOK' /\ StartInv' /\ DownInv' /\ RowsNameTheDownloader'
    BY <1>4 DEF IInv, TypeOK, ServerTypeOK, StartInv, DownInv, At, RowsNameTheDownloader,
       vars, serverVars, downloadVars
  <2>3. FitInv' /\ MeetInv' /\ OwnInv'
    BY <1>4, <2>1 DEF IInv, FitInv, MeetInv, OwnInv, Together, vars, serverVars, downloadVars
  <2> QED BY <2>2, <2>3 DEF IInv
<1> QED BY <1>1, <1>2, <1>3, <1>4 DEF Next

-----------------------------------------------------------------------------
(* The theorems.                                                            *)

LEMMA Invariance == Spec => []IInv
BY InitIInv, IInvStep, PTL DEF Spec

\* There is one administrator at most, the handlers under way are those of the
\* requests at work, and a row that is written has a client and a device.
THEOREM DownloadTypes == Spec => []TypeOK
<1>1. IInv => TypeOK
  BY DEF IInv
<1> QED BY <1>1, Invariance, PTL

\* A server that serves has all tables and an administrator, unless its own
\* query failed, however many servers start, crash and are restarted.
THEOREM ServingServersAreReady == Spec => []ServesWithAdministrator
<1>1. IInv => ServesWithAdministrator
  BY DEF IInv, StartInv, Ready, ServesWithAdministrator
<1> QED BY <1>1, Invariance, PTL

\* The row of a request that met nobody in its context names that request, for
\* any number of servers, contexts and requests.
THEOREM LoggedRowsNameTheirOwn == Spec => []RowsNameTheDownloader
<1>1. IInv => RowsNameTheDownloader
  BY DEF IInv
<1> QED BY <1>1, Invariance, PTL
=============================================================================
