------------------------- MODULE WorkerAdminProofs -------------------------
(***************************************************************************)
(* Whatever workers, configurations and requests there are: who waits in   *)
(* Stop is answered, and bindings to recipe types stay in step with the    *)
(* configurations apart from the two exceptions of BindingsKept.           *)
(***************************************************************************)
EXTENDS WorkerAdmin, TLAPS

\* What a handler is when it is told to run or to stop: a goroutine runs for
\* every handler that is started ...
StartedRuns == \A h \in Handlers : runner[h].started => Running(h)

\* ... and none for a handler that a request is still to start, which nobody
\* else is to start.
StartsFresh ==
  \A p \in Requests : req[p].at = "start" =>
    /\ req[p].h \in Handlers /\ ~Running(req[p].h)
    /\ \A q \in Requests : req[q].at = "start" /\ req[q].h = req[p].h => p = q

IInv == TypeOK /\ StartedRuns /\ StartsFresh /\ StopIsReceived

\* Some row and some configuration exist.
LEMMA SomeRow ==
  /\ (CHOOSE row \in Rows : TRUE) \in Rows
  /\ (CHOOSE c \in Configs : TRUE) \in Configs
BY AdminAssumption

\* A row has a configuration, and that a recipe type or none.
LEMMA RowTypes ==
  ASSUME NEW row \in Rows \union {NoRow}
  PROVE  /\ CraftOf(row) \in Names \union {NoType}
         /\ row # NoRow => row.config \in Configs /\ row.enabled \in BOOLEAN
BY AdminAssumption DEF CraftOf

\* A handler before its start and one that has just been started are runners.
LEMMA RunnerTypes ==
  /\ Unused \in [config : Configs, started : BOOLEAN,
                 at : {"new", "top", "run", "wait", "done"}]
  /\ \A c \in Configs :
       Started(c) \in [config : Configs, started : BOOLEAN,
                       at : {"new", "top", "run", "wait", "done"}]
BY SomeRow DEF Unused, Started

\* Binding and unbinding keep the type of the recipe types.
LEMMA BindTypes ==
  ASSUME NEW ts \in [Names -> [Keys \union {Unbound} -> Nat]],
         NEW n \in Names \union {NoType}, NEW k \in Keys
  PROVE  /\ Set(ts, n, k) \in [Names -> [Keys \union {Unbound} -> Nat]]
         /\ Unset(ts, n, k) \in [Names -> [Keys \union {Unbound} -> Nat]]
<1> DEFINE Count == [Keys \union {Unbound} -> Nat]
<1>1. CASE n = NoType
  BY <1>1 DEF Set, Unset
<1>2. CASE n \in Names
  <2>1. n # NoType /\ ts[n] \in Count
    BY <1>2, AdminAssumption
  <2> DEFINE set == [ts[n] EXCEPT ![Unbound] = 0, ![k] = @ + 1]
             unset == [ts[n] EXCEPT ![k] = 0, ![Unbound] = @ + 1]
  <2>2. set \in Count /\ unset \in Count
    BY <2>1
  <2>3. Set(ts, n, k) = [ts EXCEPT ![n] = set] /\ Unset(ts, n, k) = [ts EXCEPT ![n] = unset]
    BY <1>2, <2>1 DEF Set, Unset
  <2> HIDE DEF set, unset, Count
  <2>4. [ts EXCEPT ![n] = set] \in [Names -> Count] /\ [ts EXCEPT ![n] = unset] \in [Names -> Count]
    BY <1>2, <2>2 DEF Count
  <2>. QED BY <2>3, <2>4 DEF Count
<1>. QED BY <1>1, <1>2

\* The invariant holds at first ...
LEMMA InitInv == Init => IInv
<1>. SUFFICES ASSUME Init PROVE IInv
  OBVIOUS
<1>1. /\ types \in [Names -> [Keys \union {Unbound} -> Nat]]
      /\ table \in [Keys -> Rows \union {NoRow}]
      /\ handler \in [Keys -> Handlers \union {NoHandler}]
      /\ mu \in Requests \union {Nobody} /\ parted \in BOOLEAN
  BY DEF Init
<1>3. runner \in [Handlers -> [config : Configs, started : BOOLEAN,
                              at : {"new", "top", "run", "wait", "done"}]]
  BY RunnerTypes DEF Init
<1>4. req \in [Requests -> ReqSet] /\ \A p \in Requests : req[p].at = "idle"
  BY DEF Init, ReqSet, Idle
<1>5. TypeOK
  BY <1>1, <1>3, <1>4, AdminAssumption DEF Init, TypeOK
<1>2. StartedRuns /\ StartsFresh /\ StopIsReceived
  BY AdminAssumption DEF Init, StartedRuns, StartsFresh, StopIsReceived, Unused, Idle
<1>. QED BY <1>2, <1>5 DEF IInv

-----------------------------------------------------------------------------
\* A request that is on its way has all its parts, and keeps its type when it
\* gets to another label, with a new row or handler.
LEMMA RequestTypes ==
  ASSUME NEW r \in ReqSet, r.at # "idle"
  PROVE  /\ r.op \in {"create", "update", "delete"} /\ r.key \in Keys /\ r.to \in Keys
         /\ r.row \in Rows /\ r.h \in Handlers \union {NoHandler}
         /\ \A l \in {"add", "remove", "stopping", "read", "delete", "start"} :
              /\ [r EXCEPT !.at = l] \in ReqSet /\ [r EXCEPT !.at = l].at = l
              /\ [r EXCEPT !.at = l].h = r.h
              /\ [r EXCEPT !.at = l].op = r.op
              /\ [r EXCEPT !.at = l].key = r.key /\ [r EXCEPT !.at = l].to = r.to
              /\ \A h \in Handlers :
                   /\ [r EXCEPT !.at = l, !.h = h] \in ReqSet
                   /\ [r EXCEPT !.at = l, !.h = h].at = l
                   /\ [r EXCEPT !.at = l, !.h = h].h = h
              /\ \A row \in Rows :
                   /\ [r EXCEPT !.at = l, !.row = row] \in ReqSet
                   /\ [r EXCEPT !.at = l, !.row = row].at = l
<1>1. r \in [at : {"add", "remove", "stopping", "read", "delete", "start"},
             op : {"create", "update", "delete"}, key : Keys, to : Keys,
             row : Rows, h : Handlers \union {NoHandler}]
  BY DEF ReqSet, Idle
<1>. QED BY <1>1 DEF ReqSet

\* The parts of the invariant that speak of requests keep holding when one of
\* them gets to a label without lock and without handler, and runners do not
\* change.
LEMMA RequestMoves ==
  ASSUME IInv, NEW p \in Requests, NEW r \in ReqSet,
         r.at \notin {"stopping", "start"}, req[p].at # "stopping",
         req' = [req EXCEPT ![p] = r], UNCHANGED <<handler, runner, mu>>
  PROVE  /\ handler' \in [Keys -> Handlers \union {NoHandler}]
         /\ runner' \in [Handlers -> [config : Configs, started : BOOLEAN,
                                      at : {"new", "top", "run", "wait", "done"}]]
         /\ mu' \in Requests \union {Nobody}
         /\ req' \in [Requests -> ReqSet]
         /\ \A q \in Requests : mu' = q <=> req'[q].at = "stopping"
         /\ StartedRuns' /\ StartsFresh' /\ StopIsReceived'
<1>1. req \in [Requests -> ReqSet] /\ \A q \in Requests : mu = q <=> req[q].at = "stopping"
  BY DEF IInv, TypeOK
<1>2. \A q \in Requests : req'[q] = IF q = p THEN r ELSE req[q]
  BY <1>1
<1>3. mu # p
  BY <1>1
<1>4. StartedRuns'
  BY DEF IInv, StartedRuns, Running
<1>5. StartsFresh'
  BY <1>2 DEF IInv, StartsFresh, Running
<1>6. \A q \in Requests : mu = q => KeyOf(q)' = KeyOf(q)
  BY <1>2, <1>3 DEF KeyOf
<1>7. StopIsReceived'
  BY <1>6 DEF IInv, StopIsReceived, Running
<1>8. req' \in [Requests -> ReqSet] /\ \A q \in Requests : mu' = q <=> req'[q].at = "stopping"
  BY <1>1, <1>2, <1>3
<1>. QED BY <1>4, <1>5, <1>7, <1>8 DEF IInv, TypeOK

\* A request comes.
LEMMA BeginTypes ==
  ASSUME IInv, NEW p \in Requests, NEW op \in {"create", "update", "delete"},
         NEW at \in {"add", "remove"}, NEW key \in Keys, NEW to \in Keys, NEW row \in Rows,
         Begin(p, op, at, key, to, row)
  PROVE  /\ \E r \in ReqSet : r.at = at /\ req' = [req EXCEPT ![p] = r]
         /\ req[p].at # "stopping"
<1> DEFINE r == [at |-> at, op |-> op, key |-> key, to |-> to, row |-> row, h |-> NoHandler]
<1>1. r \in ReqSet /\ r.at = at
  BY DEF ReqSet
<1>2. req' = [req EXCEPT ![p] = r] /\ req[p] = Idle
  BY DEF Begin, Become
<1>3. req[p].at = "idle"
  BY <1>2 DEF Idle
<1> HIDE DEF r
<1>. QED BY <1>1, <1>2, <1>3

\* A creation changes tables, and its request goes to the handler manager.
LEMMA CreateInv ==
  ASSUME IInv, NEW p \in Requests, NEW key \in Keys, NEW row \in Rows, Create(p, key, row)
  PROVE  IInv'
<1>1. PICK r \in ReqSet : r.at = "add" /\ req' = [req EXCEPT ![p] = r]
  BY BeginTypes DEF Create
<1>2. req[p].at # "stopping" /\ UNCHANGED <<handler, runner, mu, parted>>
  BY BeginTypes DEF Create, handlers
<1>3. types' \in [Names -> [Keys \union {Unbound} -> Nat]]
  BY BindTypes, RowTypes DEF Create, IInv, TypeOK
<1>4. table' \in [Keys -> Rows \union {NoRow}] /\ parted' \in BOOLEAN
  BY <1>2 DEF Create, IInv, TypeOK
<1>. QED BY <1>1, <1>2, <1>3, <1>4, RequestMoves DEF IInv, TypeOK

\* So does an update.
LEMMA UpdateInv ==
  ASSUME IInv, NEW p \in Requests, NEW key \in Keys, NEW to \in Keys, NEW row \in Rows,
         Update(p, key, to, row)
  PROVE  IInv'
<1> DEFINE freed == Unset(types, CraftOf(table[key]), key)
<1>1. PICK r \in ReqSet : r.at = "add" /\ req' = [req EXCEPT ![p] = r]
  BY BeginTypes DEF Update
<1>2. req[p].at # "stopping" /\ UNCHANGED <<handler, runner, mu>>
  BY BeginTypes DEF Update, handlers
<1>3. types' \in [Names -> [Keys \union {Unbound} -> Nat]]
  <2>1. table[key] \in Rows \union {NoRow}
    BY DEF IInv, TypeOK
  <2>2. CraftOf(table[key]) \in Names \union {NoType} /\ CraftOf(row) \in Names \union {NoType}
    BY <2>1, RowTypes
  <2>3. freed \in [Names -> [Keys \union {Unbound} -> Nat]]
    BY <2>2, BindTypes DEF IInv, TypeOK
  <2>4. types' = Set(freed, CraftOf(row), to)
    BY DEF Update
  <2>. QED BY <2>2, <2>3, <2>4, BindTypes
<1>4. table' \in [Keys -> Rows \union {NoRow}] /\ parted' \in BOOLEAN
  BY DEF Update, IInv, TypeOK
<1>. QED BY <1>1, <1>2, <1>3, <1>4, RequestMoves DEF IInv, TypeOK

\* A deletion comes.
LEMMA RemoveInv ==
  ASSUME IInv, NEW p \in Requests, NEW key \in Keys, Remove(p, key)
  PROVE  IInv'
<1>1. PICK r \in ReqSet : r.at = "remove" /\ req' = [req EXCEPT ![p] = r]
  BY BeginTypes, SomeRow DEF Remove
<1>2. req[p].at # "stopping" /\ UNCHANGED <<types, table, handler, runner, mu, parted>>
  BY BeginTypes, SomeRow DEF Remove, handlers, tables
<1>. QED BY <1>1, <1>2, RequestMoves DEF IInv, TypeOK

\* A deletion has read its row.
LEMMA ReadInv ==
  ASSUME IInv, NEW p \in Requests, Read(p)
  PROVE  IInv'
<1> DEFINE row == table[req[p].key]
           r == [req[p] EXCEPT !.at = "delete", !.row = row]
<1>1. req \in [Requests -> ReqSet] /\ req[p].at = "read"
  BY DEF Read, IInv, TypeOK
<1>2. req[p].key \in Keys
  BY <1>1, RequestTypes
<1>3. row \in Rows
  BY <1>2 DEF Read, IInv, TypeOK
<1>4. r \in ReqSet /\ r.at = "delete"
  <2> HIDE DEF row
  <2>1. req[p] \in ReqSet /\ req[p].at # "idle"
    BY <1>1
  <2>2. \A w \in Rows : /\ [req[p] EXCEPT !.at = "delete", !.row = w] \in ReqSet
                         /\ [req[p] EXCEPT !.at = "delete", !.row = w].at = "delete"
    BY <2>1, RequestTypes
  <2>. QED BY <1>3, <2>2
<1>5. req' = [req EXCEPT ![p] = r] /\ UNCHANGED <<types, table, handler, runner, mu, parted>>
  BY DEF Read, tables, handlers
<1>. QED BY <1>1, <1>4, <1>5, RequestMoves DEF IInv, TypeOK

\* A deletion has written, or failed.
LEMMA DeleteInv ==
  ASSUME IInv, NEW p \in Requests, Delete(p) \/ DeleteFails(p)
  PROVE  IInv'
<1>1. req \in [Requests -> ReqSet] /\ req[p].at \in {"read", "delete"}
  BY DEF Delete, DeleteFails, IInv, TypeOK
<1>2. req[p].key \in Keys /\ req[p].row \in Rows
  BY <1>1, RequestTypes
<1>3. /\ types' \in [Names -> [Keys \union {Unbound} -> Nat]]
      /\ table' \in [Keys -> Rows \union {NoRow}] /\ parted' \in BOOLEAN
  <2>1. CASE DeleteFails(p)
    BY <2>1 DEF DeleteFails, tables, IInv, TypeOK
  <2>2. CASE Delete(p)
    <3>1. CraftOf(req[p].row) \in Names \union {NoType}
      BY <1>2, RowTypes
    <3>2. types' = Unset(types, CraftOf(req[p].row), req[p].key)
      BY <2>2 DEF Delete
    <3>3. types' \in [Names -> [Keys \union {Unbound} -> Nat]]
      BY <1>2, <3>1, <3>2, BindTypes DEF IInv, TypeOK
    <3>. QED BY <2>2, <3>3 DEF Delete, IInv, TypeOK
  <2>. QED BY <2>1, <2>2
<1>4. Idle \in ReqSet /\ Idle.at \notin {"stopping", "start"}
  BY DEF ReqSet, Idle
<1>5. req' = [req EXCEPT ![p] = Idle] /\ UNCHANGED <<handler, runner, mu>>
  BY DEF Delete, DeleteFails, Become, handlers
<1>. QED BY <1>1, <1>3, <1>4, <1>5, RequestMoves DEF IInv, TypeOK

\* Recipe types come and go.
LEMMA TypesInv ==
  ASSUME IInv, NEW n \in Names, InsertType(n) \/ DeleteType(n)
  PROVE  IInv'
<1>1. UNCHANGED <<table, handler, runner, mu, req, parted>>
  BY DEF InsertType, DeleteType, handlers
<1>2. types' \in [Names -> [Keys \union {Unbound} -> Nat]]
  <2>1. types[n] \in [Keys \union {Unbound} -> Nat]
    BY DEF IInv, TypeOK
  <2> DEFINE more == [types[n] EXCEPT ![Unbound] = @ + 1]
             none == [k \in Keys \union {Unbound} |-> 0]
  <2>2. more \in [Keys \union {Unbound} -> Nat] /\ none \in [Keys \union {Unbound} -> Nat]
    BY <2>1
  <2>3. types' = [types EXCEPT ![n] = more] \/ types' = [types EXCEPT ![n] = none]
    BY DEF InsertType, DeleteType
  <2> HIDE DEF more, none
  <2>. QED BY <2>2, <2>3 DEF IInv, TypeOK
<1>. QED BY <1>1, <1>2 DEF IInv, TypeOK, StartedRuns, StartsFresh, StopIsReceived, Running, KeyOf

-----------------------------------------------------------------------------
\* Under the lock: the next handler is one that nothing runs and nobody starts.
LEMMA ReplaceInv ==
  ASSUME IInv, NEW p \in Requests, req[p].at \in {"add", "remove", "stopping"},
         NEW r, \A h \in Handlers : r[h] = runner[h] \/ r[h] = Unused,
         r \in [Handlers -> [config : Configs, started : BOOLEAN,
                             at : {"new", "top", "run", "wait", "done"}]],
         Replace(p, r), mu \in {Nobody, p}, mu' = Nobody,
         UNCHANGED tables, parted' \in BOOLEAN
  PROVE  IInv'
<1>1. req \in [Requests -> ReqSet] /\ \A q \in Requests : mu = q <=> req[q].at = "stopping"
  BY DEF IInv, TypeOK
<1>2. /\ req[p] \in ReqSet /\ req[p].at # "idle"
      /\ req[p].key \in Keys /\ req[p].to \in Keys
  BY <1>1, RequestTypes
<1>3. runner' = r
  BY DEF Replace
<1>4. handler' \in [Keys -> Handlers \union {NoHandler}]
  BY <1>2 DEF Replace, Free, IInv, TypeOK
<1>5. \E x \in ReqSet :
        /\ req' = [req EXCEPT ![p] = x]
        /\ \/ x.at = "read"
           \/ x.at = "start" /\ x.h \in Free
  <2>1. CASE req[p].op = "delete"
    <3> DEFINE x == [req[p] EXCEPT !.at = "read"]
    <3>1. x \in ReqSet /\ x.at = "read"
      BY <1>2, RequestTypes
    <3>2. req' = [req EXCEPT ![p] = x]
      BY <2>1, <1>1 DEF Replace, GoTo
    <3>. QED BY <3>1, <3>2
  <2>2. CASE req[p].op # "delete"
    <3>1. PICK h \in Free : req' = [req EXCEPT ![p].at = "start", ![p].h = h]
      BY <2>2 DEF Replace
    <3>2. h \in Handlers
      BY DEF Free
    <3> DEFINE x == [req[p] EXCEPT !.at = "start", !.h = h]
    <3>3. x \in ReqSet /\ x.at = "start" /\ x.h = h
      <4>1. \A g \in Handlers : /\ [req[p] EXCEPT !.at = "start", !.h = g] \in ReqSet
                                /\ [req[p] EXCEPT !.at = "start", !.h = g].at = "start"
                                /\ [req[p] EXCEPT !.at = "start", !.h = g].h = g
        BY <1>2, RequestTypes
      <4>. QED BY <3>2, <4>1
    <3>4. req' = [req EXCEPT ![p] = x]
      BY <1>1, <3>1
    <3> HIDE DEF x
    <3>. QED BY <3>3, <3>4
  <2>. QED BY <2>1, <2>2
<1>6. PICK x \in ReqSet : /\ req' = [req EXCEPT ![p] = x]
                          /\ \/ x.at = "read"
                             \/ x.at = "start" /\ x.h \in Free
  BY <1>5
<1>7. \A q \in Requests : req'[q] = IF q = p THEN x ELSE req[q]
  BY <1>1, <1>6
<1>8. req' \in [Requests -> ReqSet] /\ \A q \in Requests : mu' = q <=> req'[q].at = "stopping"
  BY <1>1, <1>6, <1>7, AdminAssumption
<1>9. \A h \in Handlers : ~Running(h) => ~Running(h)'
  BY <1>3 DEF Running, Unused
<1>10. StartedRuns'
  BY <1>3 DEF IInv, StartedRuns, Running, Unused
<1>11. StartsFresh'
  <2>1. \A h \in Free : /\ h \in Handlers /\ ~Running(h)
                        /\ \A q \in Requests : ~(req[q].at = "start" /\ req[q].h = h)
    BY DEF Free, InUse
  <2>. QED BY <1>6, <1>7, <1>9, <2>1 DEF IInv, StartsFresh
<1>12. StopIsReceived'
  BY AdminAssumption DEF StopIsReceived
<1>. QED BY <1>3, <1>4, <1>8, <1>10, <1>11, <1>12 DEF IInv, TypeOK, tables

\* A request takes the lock: it replaces the handler, or tells it to stop.
LEMMA EnterInv ==
  ASSUME IInv, NEW p \in Requests, Enter(p)
  PROVE  IInv'
<1> DEFINE old == handler[KeyOf(p)]
<1>1. req \in [Requests -> ReqSet] /\ \A q \in Requests : mu = q <=> req[q].at = "stopping"
  BY DEF IInv, TypeOK
<1>2. req[p].at \in {"add", "remove"} /\ mu = Nobody /\ parted' \in BOOLEAN /\ UNCHANGED tables
  BY DEF Enter, IInv, TypeOK
<1>3. req[p] \in ReqSet /\ req[p].at # "idle"
  BY <1>1, <1>2
<1>4. KeyOf(p) \in Keys
  BY <1>3, RequestTypes DEF KeyOf
<1>5. CASE old # NoHandler /\ runner[old].started
  <2> DEFINE r == [req[p] EXCEPT !.at = "stopping"]
  <2>1. old \in Handlers /\ runner[old].started
    BY <1>4, <1>5 DEF IInv, TypeOK
  <2>2. /\ mu' = p /\ UNCHANGED handler
        /\ runner' = [runner EXCEPT ![old].started = FALSE]
        /\ req' = [req EXCEPT ![p] = r]
    BY <1>5, <1>1 DEF Enter, GoTo
  <2>3. /\ r \in ReqSet /\ r.at = "stopping"
        /\ r.op = req[p].op /\ r.key = req[p].key /\ r.to = req[p].to
    BY <1>3, RequestTypes
  <2> HIDE DEF r
  <2>4. \A q \in Requests : req'[q] = IF q = p THEN r ELSE req[q]
    BY <1>1, <2>2
  <2>5. req' \in [Requests -> ReqSet] /\ \A q \in Requests : mu' = q <=> req'[q].at = "stopping"
    BY <1>1, <1>2, <2>2, <2>3, <2>4, AdminAssumption
  <2>6. /\ runner' \in [Handlers -> [config : Configs, started : BOOLEAN,
                                     at : {"new", "top", "run", "wait", "done"}]]
        /\ \A h \in Handlers : runner'[h].at = runner[h].at
        /\ \A h \in Handlers : runner'[h].started => runner[h].started
        /\ ~runner'[old].started
    BY <2>1, <2>2 DEF IInv, TypeOK
  <2>7. StartedRuns'
    BY <2>6 DEF IInv, StartedRuns, Running
  <2>8. StartsFresh'
    BY <2>3, <2>4, <2>6 DEF IInv, StartsFresh, Running
  <2>9. StopIsReceived'
    <3>1. KeyOf(p)' = KeyOf(p)
      BY <2>3, <2>4 DEF KeyOf
    <3>2. Running(old)
      BY <2>1 DEF IInv, StartedRuns
    <3>3. Running(old)' /\ handler'[KeyOf(p)'] = old /\ old # NoHandler
      BY <2>1, <2>2, <2>6, <3>1, <3>2, AdminAssumption DEF Running
    <3>4. \A q \in Requests : mu' = q => q = p
      BY <2>2
    <3>. QED BY <2>6, <3>1, <3>3, <3>4 DEF StopIsReceived
  <2>. QED BY <1>2, <2>2, <2>5, <2>6, <2>7, <2>8, <2>9 DEF IInv, TypeOK, tables
<1>6. CASE ~(old # NoHandler /\ runner[old].started)
  <2>1. Replace(p, runner) /\ mu' = Nobody
    BY <1>2, <1>6 DEF Enter
  <2>. QED BY <1>2, <2>1, ReplaceInv DEF IInv, TypeOK
<1>. QED BY <1>5, <1>6

\* The goroutine that was told to stop has ended.
LEMMA StoppedInv ==
  ASSUME IInv, NEW p \in Requests, Stopped(p)
  PROVE  IInv'
<1> DEFINE old == handler[KeyOf(p)]
           r == [runner EXCEPT ![old] = Unused]
<1>1. req[p].at = "stopping" /\ mu = p /\ mu' = Nobody /\ Replace(p, r)
  BY DEF Stopped, IInv, TypeOK
<1>2. UNCHANGED tables /\ parted' \in BOOLEAN
  BY DEF Stopped, IInv, TypeOK
<1>3. runner \in [Handlers -> [config : Configs, started : BOOLEAN,
                               at : {"new", "top", "run", "wait", "done"}]]
  BY DEF IInv, TypeOK
<1>4. \A h \in Handlers : r[h] = runner[h] \/ r[h] = Unused
  BY <1>3
<1>5. r \in [Handlers -> [config : Configs, started : BOOLEAN,
                          at : {"new", "top", "run", "wait", "done"}]]
  BY <1>3, RunnerTypes
<1> HIDE DEF r
<1>. QED BY <1>1, <1>2, <1>4, <1>5, ReplaceInv

\* A handler that is started is not the one somebody waits for.
LEMMA StartInv ==
  ASSUME IInv, NEW p \in Requests, Start(p)
  PROVE  IInv'
<1> DEFINE h == req[p].h
<1>1. req \in [Requests -> ReqSet] /\ \A q \in Requests : mu = q <=> req[q].at = "stopping"
  BY DEF IInv, TypeOK
<1>2. /\ req[p].at = "start" /\ req' = [req EXCEPT ![p] = Idle]
      /\ UNCHANGED <<types, table, handler, mu>> /\ parted' \in BOOLEAN
  BY DEF Start, Become, tables, IInv, TypeOK
<1>3. h \in Handlers /\ ~Running(h) /\ req[p].row \in Rows
  BY <1>1, <1>2, RequestTypes DEF IInv, StartsFresh
<1>4. Idle \in ReqSet /\ Idle.at \notin {"stopping", "start"}
  BY DEF ReqSet, Idle
<1>5. \A q \in Requests : req'[q] = IF q = p THEN Idle ELSE req[q]
  BY <1>1, <1>2
<1>6. req' \in [Requests -> ReqSet] /\ \A q \in Requests : mu' = q <=> req'[q].at = "stopping"
  BY <1>1, <1>2, <1>4, <1>5
<1>7. req[p].row.config \in Configs
  BY <1>3, RowTypes, AdminAssumption
<1>8. PICK x \in [config : Configs, started : BOOLEAN,
                  at : {"new", "top", "run", "wait", "done"}] :
        /\ x = runner[h] \/ x.at = "top"
        /\ runner' = [runner EXCEPT ![h] = x]
  <2>1. CASE UNCHANGED runner
    BY <1>3, <2>1 DEF IInv, TypeOK
  <2>2. CASE runner' = [runner EXCEPT ![h] = Started(req[p].row.config)]
    BY <1>7, <2>2, RunnerTypes DEF Started
  <2>. QED BY <2>1, <2>2 DEF Start
<1> HIDE DEF h
<1>9. /\ runner' \in [Handlers -> [config : Configs, started : BOOLEAN,
                                   at : {"new", "top", "run", "wait", "done"}]]
      /\ \A g \in Handlers : runner'[g] = IF g = h THEN x ELSE runner[g]
  BY <1>8 DEF IInv, TypeOK
<1>10. StartedRuns'
  BY <1>8, <1>9 DEF IInv, StartedRuns, Running
<1>11. StartsFresh'
  BY <1>2, <1>4, <1>5, <1>9 DEF IInv, StartsFresh, Running, h
<1>12. StopIsReceived'
  <2>1. SUFFICES ASSUME NEW q \in Requests, mu' = q
                 PROVE  /\ handler'[KeyOf(q)'] # NoHandler
                        /\ Running(handler[KeyOf(q)])' /\ ~runner'[handler'[KeyOf(q)']].started
    BY DEF StopIsReceived, Running
  <2>2. mu = q /\ req[q].at = "stopping" /\ q # p
    BY <1>1, <1>2, <2>1
  <2>3. KeyOf(q)' = KeyOf(q) /\ KeyOf(q) \in Keys
    <3>1. req'[q] = req[q]
      BY <1>5, <2>2
    <3>2. req[q] \in ReqSet /\ req[q].at # "idle"
      BY <1>1, <2>2
    <3>3. req[q].key \in Keys /\ req[q].to \in Keys
      BY <3>2, RequestTypes
    <3>. QED BY <3>1, <3>3 DEF KeyOf
  <2>4. /\ handler[KeyOf(q)] # NoHandler
        /\ Running(handler[KeyOf(q)]) /\ ~runner[handler[KeyOf(q)]].started
    BY <2>2 DEF IInv, StopIsReceived
  <2>5. handler[KeyOf(q)] \in Handlers /\ handler[KeyOf(q)] # h
    BY <1>3, <2>3, <2>4 DEF IInv, TypeOK
  <2>. QED BY <1>2, <1>9, <2>3, <2>4, <2>5 DEF Running
<1>. QED BY <1>2, <1>6, <1>9, <1>10, <1>11, <1>12 DEF IInv, TypeOK

\* A goroutine that is told to stop goes on until somebody receives.
LEMMA WorkInv ==
  ASSUME IInv, NEW h \in Handlers, Work(h) \/ RunEnds(h)
  PROVE  IInv'
<1>1. UNCHANGED <<types, table, handler, mu, req, parted>>
  BY DEF Work, RunEnds, tables
<1>2. PICK l \in {"run", "wait", "done"} : runner' = [runner EXCEPT ![h].at = l]
  BY DEF Work, RunEnds
<1>3. Running(h)
  BY DEF Work, RunEnds, Running
<1>4. /\ runner' \in [Handlers -> [config : Configs, started : BOOLEAN,
                                   at : {"new", "top", "run", "wait", "done"}]]
      /\ \A g \in Handlers : runner'[g].started = runner[g].started
      /\ \A g \in Handlers : runner'[g].at = IF g = h THEN l ELSE runner[g].at
  BY <1>2 DEF IInv, TypeOK
<1>5. \A g \in Handlers : Running(g)' = Running(g)
  BY <1>3, <1>4 DEF Running
<1>6. StartedRuns' /\ StartsFresh'
  BY <1>1, <1>4, <1>5 DEF IInv, StartedRuns, StartsFresh
<1>7. StopIsReceived'
  <2>1. SUFFICES ASSUME NEW q \in Requests, mu' = q
                 PROVE  /\ handler'[KeyOf(q)'] # NoHandler
                        /\ Running(handler[KeyOf(q)])' /\ ~runner'[handler'[KeyOf(q)']].started
    BY DEF StopIsReceived, Running
  <2>2. mu = q /\ KeyOf(q)' = KeyOf(q)
    BY <1>1, <2>1 DEF KeyOf
  <2>3. KeyOf(q) \in Keys
    BY <2>2, RequestTypes DEF KeyOf, IInv, TypeOK
  <2>4. /\ handler[KeyOf(q)] \in Handlers
        /\ Running(handler[KeyOf(q)]) /\ ~runner[handler[KeyOf(q)]].started
    BY <2>2, <2>3 DEF IInv, StopIsReceived, TypeOK
  <2>. QED BY <1>1, <1>4, <1>5, <2>2, <2>4, AdminAssumption
<1>. QED BY <1>1, <1>4, <1>6, <1>7 DEF IInv, TypeOK

\* After a restart there are fresh handlers and no requests.
LEMMA RestartInv ==
  ASSUME IInv, Restart
  PROVE  IInv'
<1> DEFINE enabled == {k \in Keys : table[k] # NoRow /\ table[k].enabled}
<1>1. PICK f \in [enabled -> Handlers] :
        /\ handler' = [k \in Keys |-> IF k \in enabled THEN f[k] ELSE NoHandler]
        /\ runner' = [h \in Handlers |->
                        IF \E k \in enabled : f[k] = h
                        THEN Started(table[CHOOSE k \in enabled : f[k] = h].config)
                        ELSE Unused]
  BY DEF Restart
<1>2. /\ mu' = Nobody /\ req' = [p \in Requests |-> Idle] /\ parted' = FALSE
      /\ UNCHANGED <<types, table>>
  BY DEF Restart, tables
<1>3. handler' \in [Keys -> Handlers \union {NoHandler}]
  BY <1>1
<1>4. \A k \in enabled : table[k] \in Rows /\ table[k].config \in Configs
  BY AdminAssumption DEF IInv, TypeOK
<1> HIDE DEF enabled
<1>5. \A h \in Handlers :
        \/ runner'[h] = Unused
        \/ \E c \in Configs : runner'[h] = Started(c)
  BY <1>1, <1>4
<1>6. runner' = [h \in Handlers |-> runner'[h]]
  BY <1>1
<1>7. runner' \in [Handlers -> [config : Configs, started : BOOLEAN,
                                at : {"new", "top", "run", "wait", "done"}]]
  <2> DEFINE R == [config : Configs, started : BOOLEAN,
                   at : {"new", "top", "run", "wait", "done"}]
  <2>1. \A h \in Handlers : runner'[h] \in R
    BY <1>5, RunnerTypes
  <2> HIDE DEF R
  <2>2. runner' \in [Handlers -> R]
    BY <1>6, <2>1
  <2>. QED BY <2>2 DEF R
<1>8. StartedRuns'
  <2>1. ~Unused.started /\ \A c \in Configs : Started(c).at = "top"
    BY DEF Unused, Started
  <2>2. SUFFICES ASSUME NEW h \in Handlers, runner'[h].started
                 PROVE  runner'[h].at = "top"
    BY DEF StartedRuns, Running
  <2>. QED BY <1>5, <2>1, <2>2
<1>9. Idle \in ReqSet /\ Idle.at \notin {"stopping", "start"}
  BY DEF ReqSet, Idle
<1>10. StartsFresh' /\ StopIsReceived'
  BY <1>2, <1>9, AdminAssumption DEF StartsFresh, StopIsReceived
<1>11. req' \in [Requests -> ReqSet] /\ \A q \in Requests : mu' = q <=> req'[q].at = "stopping"
  BY <1>2, <1>9, AdminAssumption
<1>. QED BY <1>2, <1>3, <1>7, <1>8, <1>10, <1>11 DEF IInv, TypeOK

\* ... and after every step, so always.
LEMMA NextInv == IInv /\ [Next]_vars => IInv'
<1>. SUFFICES ASSUME IInv, [Next]_vars PROVE IInv'
  OBVIOUS
<1>1. ASSUME NEW p \in Requests, Request(p) PROVE IInv'
  BY <1>1, CreateInv, UpdateInv, RemoveInv DEF Request
<1>2. ASSUME NEW p \in Requests, Step(p) PROVE IInv'
  BY <1>2, EnterInv, StoppedInv, StartInv, ReadInv, DeleteInv DEF Step
<1>3. ASSUME NEW h \in Handlers, Work(h) \/ RunEnds(h) PROVE IInv'
  BY <1>3, WorkInv
<1>4. ASSUME NEW n \in Names, InsertType(n) \/ DeleteType(n) PROVE IInv'
  BY <1>4, TypesInv
<1>5. CASE UNCHANGED vars
  BY <1>5 DEF vars, tables, handlers, IInv, TypeOK, StartedRuns, StartsFresh,
              StopIsReceived, Running, KeyOf
<1>. QED BY <1>1, <1>2, <1>3, <1>4, <1>5, RestartInv DEF Next

\* Types, handlers and requests always fit together as IInv says.
THEOREM InductiveInvariant == Spec => []IInv
BY InitInv, NextInv, PTL DEF Spec

\* Tables, handlers, runners and requests keep their types; exactly the request
\* that waits for a goroutine to end has the lock of the handler manager.
THEOREM TypeCorrect == Spec => []TypeOK
<1>1. IInv => TypeOK
  BY DEF IInv
<1>. QED BY InductiveInvariant, <1>1, PTL

\* Nobody waits in Stop for ever with the lock: the handler a request waits for has
\* a goroutine, and that has been told to stop.
THEOREM StopsAreReceived == Spec => []StopIsReceived
<1>1. IInv => StopIsReceived
  BY DEF IInv
<1>. QED BY InductiveInvariant, <1>1, PTL

-----------------------------------------------------------------------------
\* The shape of recipe_types.
Bindings == [Names -> [Keys \union {Unbound} -> Nat]]

\* What binding leaves at each place of the recipe types.
LEMMA SetValues ==
  ASSUME NEW ts \in Bindings,
         NEW n \in Names \union {NoType}, NEW k \in Keys
  PROVE  \A m \in Names, j \in Keys :
           Set(ts, n, k)[m][j] = IF m = n /\ j = k THEN ts[m][j] + 1 ELSE ts[m][j]
<1>1. NoType \notin Names /\ Unbound \notin Keys
  BY AdminAssumption
<1>. QED BY <1>1 DEF Set, Bindings

\* What unbinding leaves.
LEMMA UnsetValues ==
  ASSUME NEW ts \in Bindings,
         NEW n \in Names \union {NoType}, NEW k \in Keys
  PROVE  \A m \in Names, j \in Keys :
           Unset(ts, n, k)[m][j] = IF m = n /\ j = k THEN 0 ELSE ts[m][j]
<1>1. NoType \notin Names /\ Unbound \notin Keys
  BY AdminAssumption
<1>. QED BY <1>1 DEF Unset, Bindings

\* A worker that is not there has no type.
LEMMA NoRowNoType == CraftOf(NoRow) = NoType /\ NoType \notin Names
BY AdminAssumption DEF CraftOf

\* A creation binds the worker's type, which was free.
LEMMA CreateAgrees ==
  ASSUME IInv, Agree, NEW p \in Requests, NEW key \in Keys, NEW row \in Rows,
         Create(p, key, row)
  PROVE  Agree'
<1> SUFFICES ASSUME NEW n \in Names, NEW k \in Keys
             PROVE  types'[n][k] = IF CraftOf(table'[k]) = n THEN 1 ELSE 0
  BY DEF Agree, CraftOf
<1>1. CraftOf(row) \in Names \union {NoType}
  BY RowTypes
<1>2. types'[n][k] = IF n = CraftOf(row) /\ k = key THEN types[n][k] + 1 ELSE types[n][k]
  <2> DEFINE t == CraftOf(row)
  <2>1. types \in Bindings /\ types' = Set(types, t, key)
    BY DEF Create, IInv, TypeOK, Bindings
  <2>2. t \in Names \union {NoType}
    BY <1>1
  <2> HIDE DEF t
  <2>3. Set(types, t, key)[n][k] = IF n = t /\ k = key THEN types[n][k] + 1 ELSE types[n][k]
    BY <2>1, <2>2, SetValues
  <2>. QED BY <2>1, <2>3 DEF t
<1>3. table[key] = NoRow /\ table'[k] = IF k = key THEN row ELSE table[k]
  BY DEF Create, IInv, TypeOK
<1>4. types[n][k] = IF CraftOf(table[k]) = n THEN 1 ELSE 0
  BY DEF Agree
<1>. QED BY <1>2, <1>3, <1>4, NoRowNoType

\* An update unbinds the type of the row it replaces and binds the new one.
LEMMA UpdateAgrees ==
  ASSUME IInv, Agree, NEW p \in Requests, NEW key \in Keys, NEW to \in Keys,
         NEW row \in Rows, Update(p, key, to, row)
  PROVE  Agree'
<1> DEFINE old == CraftOf(table[key])
           freed == Unset(types, old, key)
<1> SUFFICES ASSUME NEW n \in Names, NEW k \in Keys
             PROVE  types'[n][k] = IF CraftOf(table'[k]) = n THEN 1 ELSE 0
  BY DEF Agree, CraftOf
<1>1. CraftOf(row) \in Names \union {NoType} /\ old \in Names \union {NoType}
  BY RowTypes DEF IInv, TypeOK
<1>2. freed \in Bindings
  BY <1>1, BindTypes DEF IInv, TypeOK, Bindings
<1>3. freed[n][k] = IF n = old /\ k = key THEN 0 ELSE types[n][k]
  <2>1. types \in Bindings
    BY DEF IInv, TypeOK, Bindings
  <2>2. old \in Names \union {NoType}
    BY <1>1
  <2> HIDE DEF old
  <2>3. Unset(types, old, key)[n][k] = IF n = old /\ k = key THEN 0 ELSE types[n][k]
    BY <2>1, <2>2, UnsetValues
  <2>. QED BY <2>3 DEF freed
<1>4. types' = Set(freed, CraftOf(row), to)
  BY DEF Update
<1> HIDE DEF freed
<1>5. types'[n][k] = IF n = CraftOf(row) /\ k = to THEN freed[n][k] + 1 ELSE freed[n][k]
  <2> DEFINE t == CraftOf(row)
  <2>1. t \in Names \union {NoType} /\ types' = Set(freed, t, to)
    BY <1>1, <1>4
  <2> HIDE DEF t
  <2>2. Set(freed, t, to)[n][k] = IF n = t /\ k = to THEN freed[n][k] + 1 ELSE freed[n][k]
    BY <1>2, <2>1, SetValues
  <2>. QED BY <2>1, <2>2 DEF t
<1>6. /\ to = key \/ table[to] = NoRow
      /\ table'[k] = IF k = to THEN row ELSE IF k = key THEN NoRow ELSE table[k]
  BY DEF Update, IInv, TypeOK
<1>7. types[n][k] = IF CraftOf(table[k]) = n THEN 1 ELSE 0
  BY DEF Agree
<1>. QED BY <1>3, <1>5, <1>6, <1>7, NoRowNoType

\* A deletion unbinds the type it has read the worker with.
LEMMA DeleteAgrees ==
  ASSUME IInv, Agree, NEW p \in Requests, Delete(p), ~DeletesAnother(p)
  PROVE  Agree'
<1> DEFINE r == req[p]
<1> SUFFICES ASSUME NEW n \in Names, NEW k \in Keys
             PROVE  types'[n][k] = IF CraftOf(table'[k]) = n THEN 1 ELSE 0
  BY DEF Agree, CraftOf
<1>1. r.at = "delete" /\ r.key \in Keys /\ r.row \in Rows
  <2>1. req[p] \in ReqSet /\ r.at = "delete"
    BY DEF Delete, IInv, TypeOK
  <2>. QED BY <2>1, RequestTypes
<1>2. CraftOf(r.row) \in Names \union {NoType}
  BY <1>1, RowTypes
<1>3. types' = Unset(types, CraftOf(r.row), r.key) /\ table' = [table EXCEPT ![r.key] = NoRow]
  BY DEF Delete
<1>4. table'[r.key] = NoRow /\ table'[k] = IF k = r.key THEN NoRow ELSE table[k]
  BY <1>1, <1>3 DEF IInv, TypeOK
<1>5. CraftOf(table[r.key]) = CraftOf(r.row)
  BY <1>1, <1>4 DEF DeletesAnother
<1>6. types'[n][k] = IF n = CraftOf(r.row) /\ k = r.key THEN 0 ELSE types[n][k]
  <2> DEFINE t == CraftOf(r.row)
             key == r.key
  <2>1. /\ types \in Bindings
        /\ types' = Unset(types, t, key)
    BY <1>3 DEF IInv, TypeOK, Bindings
  <2>2. t \in Names \union {NoType} /\ key \in Keys
    BY <1>1, <1>2
  <2> HIDE DEF t, key
  <2>3. Unset(types, t, key)[n][k] = IF n = t /\ k = key THEN 0 ELSE types[n][k]
    BY <2>1, <2>2, UnsetValues
  <2>. QED BY <2>1, <2>3 DEF t, key
<1>7. types[n][k] = IF CraftOf(table[k]) = n THEN 1 ELSE 0
  BY DEF Agree
<1>. QED BY <1>4, <1>5, <1>6, <1>7, NoRowNoType

\* The rows of a type without worker come and go.
LEMMA TypesAgree ==
  ASSUME IInv, Agree, NEW m \in Names, InsertType(m) \/ DeleteType(m),
         ~\E k \in Keys : types[m][k] > 0 /\ DeleteType(m)
  PROVE  Agree'
<1> SUFFICES ASSUME NEW n \in Names, NEW k \in Keys
             PROVE  types'[n][k] = IF CraftOf(table'[k]) = n THEN 1 ELSE 0
  BY DEF Agree, CraftOf
<1>1. table' = table
  BY DEF InsertType, DeleteType
<1>2. types[n][k] = IF CraftOf(table[k]) = n THEN 1 ELSE 0
  BY DEF Agree
<1>3. k # Unbound
  BY AdminAssumption
<1>4. CASE InsertType(m)
  BY <1>1, <1>2, <1>3, <1>4 DEF InsertType, IInv, TypeOK
<1>5. CASE DeleteType(m)
  <2>1. types[m][k] = 0
    BY <1>5, AdminAssumption DEF Agree
  <2>2. types'[n][k] = IF n = m THEN 0 ELSE types[n][k]
    BY <1>5 DEF DeleteType, IInv, TypeOK
  <2>. QED BY <1>1, <1>2, <2>1, <2>2
<1>. QED BY <1>4, <1>5

\* Bindings and configurations stay in step, whatever requests overlap, apart from
\* the deletion of a bound type and a deletion that was overtaken by an update.
THEOREM BindingsAgree == Spec => BindingsKept
<1> DEFINE Kept == Agree => \/ Agree'
                            \/ \E n \in Names : \E k \in Keys : types[n][k] > 0 /\ DeleteType(n)
                            \/ \E p \in Requests : DeletesAnother(p)
<1>1. ASSUME IInv, [Next]_vars PROVE [Kept]_vars
  <2>. SUFFICES ASSUME Next, Agree,
                       ~\E n \in Names : \E k \in Keys : types[n][k] > 0 /\ DeleteType(n),
                       ~\E p \in Requests : DeletesAnother(p)
                PROVE  Agree'
    BY <1>1
  <2>1. CASE UNCHANGED tables
    BY <2>1 DEF Agree, CraftOf, tables
  <2>2. ASSUME NEW p \in Requests, Request(p) PROVE Agree'
    <3>1. CASE \E key \in Keys : Remove(p, key)
      BY <2>1, <3>1 DEF Remove
    <3>. QED BY <1>1, <2>2, <3>1, CreateAgrees, UpdateAgrees DEF Request
  <2>3. ASSUME NEW p \in Requests, Step(p) PROVE Agree'
    <3>1. CASE Delete(p)
      BY <1>1, <3>1, DeleteAgrees
    <3>2. CASE ~Delete(p)
      BY <2>1, <2>3, <3>2 DEF Step, Enter, Stopped, Start, Read, DeleteFails, tables
    <3>. QED BY <3>1, <3>2
  <2>4. ASSUME NEW h \in Handlers, Work(h) \/ RunEnds(h) PROVE Agree'
    BY <2>1, <2>4 DEF Work, RunEnds
  <2>5. ASSUME NEW n \in Names, InsertType(n) \/ DeleteType(n) PROVE Agree'
    BY <1>1, <2>5, TypesAgree
  <2>6. CASE Restart
    BY <2>1, <2>6 DEF Restart
  <2>. QED BY <2>2, <2>3, <2>4, <2>5, <2>6 DEF Next
<1>. QED BY InductiveInvariant, <1>1, PTL DEF Spec, BindingsKept

-----------------------------------------------------------------------------
\* Why runners match the table between requests: as long as no named fault has
\* happened, whatever does not match is still to be put right by a request.

Enabled(k) == table[k] # NoRow /\ table[k].enabled

Serves(k) ==
  /\ handler[k] # NoHandler /\ Running(handler[k])
  /\ runner[handler[k]].config = table[k].config

\* A request will put a handler in place with the row that the key has, or
\* delete the row.
Coming(p, k) ==
  \/ /\ req[p].at \in {"remove", "stopping", "read", "delete"}
     /\ req[p].op = "delete" /\ req[p].key = k
  \/ /\ req[p].at \in {"add", "stopping", "start"}
     /\ req[p].op # "delete" /\ req[p].to = k
     /\ req[p].at = "stopping" => req[p].row = table[k]
     /\ req[p].at = "start" => req[p].row = table[k] /\ handler[k] = req[p].h
Expected(k) == \E p \in Requests : Coming(p, k)

\* The handler of a key is nobody else's, and a goroutine that was told to stop
\* is the one that the lock is held for.
OneEach == \A j, k \in Keys : handler[j] = handler[k] /\ handler[j] # NoHandler => j = k
ToldToStop ==
  \A h \in Handlers : Running(h) /\ ~runner[h].started =>
    \E p \in Requests : mu = p /\ handler[KeyOf(p)] = h

\* A request whose row is not the key's any more and that does not know it yet
\* is followed by another.
Follows(p) ==
  (/\ req[p].at \in {"stopping", "start"} /\ req[p].op # "delete"
   /\ req[p].at = "start" => handler[req[p].to] = req[p].h) => Expected(req[p].to)

KeyMatches(k) ==
  /\ handler[k] # NoHandler => table[k] # NoRow
  /\ Enabled(k) => Serves(k) \/ Expected(k)
  /\ handler[k] # NoHandler /\ Running(handler[k]) => Enabled(k) \/ Expected(k)

\* Which steps a deletion takes, and which the others.
OpFits ==
  \A p \in Requests :
    /\ req[p].at \in {"add", "start"} => req[p].op # "delete"
    /\ req[p].at \in {"remove", "read", "delete"} => req[p].op = "delete"

RInv ==
  /\ OpFits /\ OneEach /\ ToldToStop
  /\ ~parted => /\ \A k \in Keys : KeyMatches(k)
                /\ \A h \in Handlers : Running(h) => \E k \in Keys : handler[k] = h
                /\ \A p \in Requests : Follows(p)

\* What is coming for a key is the same where nothing that it depends on changes.
LEMMA StillComing ==
  ASSUME NEW q, NEW k,
         req'[q] = req[q], table'[k] = table[k], handler'[k] = handler[k]
  PROVE  Coming(q, k)' <=> Coming(q, k)
BY DEF Coming

\* A request that waits for a goroutine to end has the lock, and its key a handler
\* that runs; one that is to start a handler has one that does not.
LEMMA Waiting ==
  ASSUME IInv, NEW p \in Requests
  PROVE  /\ mu = p <=> req[p].at = "stopping"
         /\ req[p].at = "stopping" => /\ KeyOf(p) \in Keys
                                      /\ handler[KeyOf(p)] # NoHandler
                                      /\ handler[KeyOf(p)] \in Handlers
                                      /\ Running(handler[KeyOf(p)])
         /\ req[p].at = "start" => req[p].h \in Handlers /\ ~Running(req[p].h)
         /\ req[p].at # "idle" => /\ req[p].op \in {"create", "update", "delete"}
                                  /\ req[p].key \in Keys /\ req[p].to \in Keys
                                  /\ req[p].row \in Rows
<1>1. req[p] \in ReqSet /\ (mu = p <=> req[p].at = "stopping")
  BY DEF IInv, TypeOK
<1>2. req[p].at # "idle" => /\ req[p].op \in {"create", "update", "delete"}
                            /\ req[p].key \in Keys /\ req[p].to \in Keys
                            /\ req[p].row \in Rows
  BY <1>1, RequestTypes
<1>3. req[p].at = "start" => req[p].h \in Handlers /\ ~Running(req[p].h)
  BY DEF IInv, StartsFresh
<1>4. ASSUME req[p].at = "stopping"
      PROVE  /\ KeyOf(p) \in Keys
             /\ handler[KeyOf(p)] # NoHandler
             /\ handler[KeyOf(p)] \in Handlers
             /\ Running(handler[KeyOf(p)])
  <2>1. KeyOf(p) \in Keys
    BY <1>2, <1>4 DEF KeyOf
  <2>2. handler[KeyOf(p)] # NoHandler /\ Running(handler[KeyOf(p)])
    BY <1>1, <1>4 DEF IInv, StopIsReceived
  <2>. QED BY <2>1, <2>2 DEF IInv, TypeOK
<1>. QED BY <1>1, <1>2, <1>3, <1>4

\* What one request does to tables and to itself, while handlers stay: each key
\* keeps its row and what is coming, or something is coming for it from now on,
\* or there is nothing to match.
LEMMA RequestMatches ==
  ASSUME IInv, RInv, NEW p \in Requests, UNCHANGED <<handler, runner, mu>>,
         req[p].at # "stopping",
         req'[p].at \notin {"stopping", "start"},
         \A q \in Requests \ {p} : req'[q] = req[q],
         req'[p].at \in {"add", "start"} => req'[p].op # "delete",
         req'[p].at \in {"remove", "read", "delete"} => req'[p].op = "delete",
         ~parted' => ~parted,
         ~parted' => \A k \in Keys :
           \/ table'[k] = table[k] /\ (Coming(p, k) => Coming(p, k)')
           \/ table'[k] # NoRow /\ Coming(p, k)'
           \/ handler[k] = NoHandler /\ table'[k] = NoRow
  PROVE  RInv'
<1>1. OpFits'
  BY DEF RInv, OpFits
<1>2. OneEach'
  BY DEF RInv, OneEach
<1>3. ToldToStop'
  <2> SUFFICES ASSUME NEW h \in Handlers, Running(h)', ~runner'[h].started
               PROVE  \E q \in Requests : mu' = q /\ handler'[KeyOf(q)'] = h
    BY DEF ToldToStop
  <2>1. PICK q \in Requests : mu = q /\ handler[KeyOf(q)] = h
    BY DEF RInv, ToldToStop, Running
  <2>2. q # p
    BY <2>1, Waiting
  <2>3. KeyOf(q)' = KeyOf(q)
    BY <2>2 DEF KeyOf
  <2>. QED BY <2>1, <2>3
<1>4. ASSUME ~parted'
      PROVE  /\ \A k \in Keys : KeyMatches(k)'
             /\ \A h \in Handlers : Running(h)' => \E k \in Keys : handler'[k] = h
             /\ \A q \in Requests : Follows(q)'
  <2>1. ~parted
    BY <1>4
  <2>2. ASSUME NEW k \in Keys, Expected(k), handler[k] # NoHandler \/ table'[k] # NoRow
        PROVE  Expected(k)'
    <3>1. CASE Coming(p, k)'
      BY <3>1 DEF Expected
    <3>2. CASE ~Coming(p, k)'
      <4>1. table'[k] = table[k] /\ ~Coming(p, k)
        BY <1>4, <2>2, <3>2
      <4>2. PICK q \in Requests : Coming(q, k) /\ q # p
        BY <2>2, <4>1 DEF Expected
      <4>3. Coming(q, k)'
        BY <4>1, <4>2, StillComing
      <4>. QED BY <4>3 DEF Expected
    <3>. QED BY <3>1, <3>2
  <2>3. ASSUME NEW k \in Keys  PROVE KeyMatches(k)'
    <3>1. KeyMatches(k)
      BY <2>1 DEF RInv
    <3>2. CASE Coming(p, k)' /\ table'[k] # NoRow
      BY <3>2 DEF Expected, KeyMatches
    <3>3. CASE handler[k] = NoHandler /\ table'[k] = NoRow
      BY <3>3 DEF KeyMatches, Enabled
    <3>4. CASE table'[k] = table[k] /\ ~(handler[k] = NoHandler /\ table'[k] = NoRow)
      BY <2>2, <3>1, <3>4 DEF KeyMatches, Enabled, Serves, Running
    <3>. QED BY <1>4, <3>2, <3>3, <3>4
  <2>4. \A h \in Handlers : Running(h)' => \E k \in Keys : handler'[k] = h
    BY <2>1 DEF RInv, Running
  <2>5. ASSUME NEW q \in Requests  PROVE Follows(q)'
    <3>1. CASE q = p
      BY <3>1 DEF Follows
    <3>2. CASE q # p
      <4>1. PICK k : k = req[q].to
        OBVIOUS
      <4>2. req'[q] = req[q] /\ req'[q].to = k
        BY <3>2, <4>1
      <4>3. ASSUME req[q].at \in {"stopping", "start"}, req[q].op # "delete",
                   req[q].at = "start" => handler[k] = req[q].h
            PROVE  Expected(k)'
        <5>1. k \in Keys /\ Expected(k)
          BY <2>1, <4>1, <4>3, Waiting DEF RInv, Follows
        <5>2. handler[k] # NoHandler
          BY <4>1, <4>3, Waiting, AdminAssumption DEF KeyOf
        <5>. QED BY <2>2, <5>1, <5>2
      <4>. QED BY <4>2, <4>3 DEF Follows, Expected
    <3>. QED BY <3>1, <3>2
  <2>. QED BY <2>3, <2>4, <2>5
<1>. QED BY <1>1, <1>2, <1>3, <1>4 DEF RInv

\* A creation or an update brings a handler that is to come for its row.
LEMMA ChangeMatches ==
  ASSUME IInv, RInv, NEW p \in Requests, NEW key \in Keys, NEW to \in Keys, NEW row \in Rows,
         \/ Create(p, to, row) /\ key = to
         \/ Update(p, key, to, row)
  PROVE  RInv'
<1>1. PICK op \in {"create", "update"} : Begin(p, op, "add", key, to, row)
  BY DEF Create, Update
<1> DEFINE r == [at |-> "add", op |-> op, key |-> key, to |-> to, row |-> row, h |-> NoHandler]
<1>2. req' = [req EXCEPT ![p] = r] /\ req[p].at = "idle"
  BY <1>1 DEF Begin, Become, Idle
<1>3. r.at = "add" /\ r.op # "delete" /\ r.to = to
  OBVIOUS
<1> HIDE DEF r
<1>4. /\ req'[p] = r
      /\ \A q \in Requests \ {p} : req'[q] = req[q]
  BY <1>2 DEF IInv, TypeOK
<1>5. /\ UNCHANGED <<handler, runner, mu>>
      /\ ~parted' => ~parted /\ key = to
  <2>1. CASE Create(p, to, row) /\ key = to
    BY <2>1 DEF Create, handlers
  <2>2. CASE Update(p, key, to, row)
    BY <2>2 DEF Update, handlers
  <2>. QED BY <2>1, <2>2
<1>6. table' = [table EXCEPT ![to] = row] \/ table' = [table EXCEPT ![key] = NoRow, ![to] = row]
  BY DEF Create, Update
<1>7. ASSUME ~parted', NEW k \in Keys
      PROVE  \/ table'[k] = table[k] /\ (Coming(p, k) => Coming(p, k)')
             \/ table'[k] # NoRow /\ Coming(p, k)'
  <2>1. CASE k = to
    <3>1. table'[k] = row /\ row # NoRow
      BY <1>6, <2>1, AdminAssumption DEF IInv, TypeOK
    <3>2. Coming(p, k)'
      BY <1>3, <1>4, <2>1 DEF Coming
    <3>. QED BY <3>1, <3>2
  <2>2. CASE k # to
    <3>1. table'[k] = table[k]
      BY <1>5, <1>6, <1>7, <2>2 DEF IInv, TypeOK
    <3>2. ~Coming(p, k)
      BY <1>2 DEF Coming
    <3>. QED BY <3>1, <3>2
  <2>. QED BY <2>1, <2>2
<1>. QED BY <1>2, <1>3, <1>4, <1>5, <1>7, RequestMatches

\* A deletion that has read a row is still of the same key.
LEMMA ReadKeeps ==
  ASSUME NEW r \in ReqSet, r.at # "idle", NEW row \in Rows
  PROVE  /\ [r EXCEPT !.at = "delete", !.row = row].at = "delete"
         /\ [r EXCEPT !.at = "delete", !.row = row].op = r.op
         /\ [r EXCEPT !.at = "delete", !.row = row].key = r.key
<1>1. r \in [at : {"add", "remove", "stopping", "read", "delete", "start"},
             op : {"create", "update", "delete"}, key : Keys, to : Keys,
             row : Rows, h : Handlers \union {NoHandler}]
  BY DEF ReqSet, Idle
<1>. QED BY <1>1

\* A deletion that comes, and one that has read its row, is to come.
LEMMA RemoveMatches ==
  ASSUME IInv, RInv, NEW p \in Requests, Read(p) \/ \E key \in Keys : Remove(p, key)
  PROVE  RInv'
<1>1. UNCHANGED <<table, handler, runner, mu, parted>>
  BY DEF Read, Remove, tables, handlers
<1>2. CASE Read(p)
  <2>1. /\ req[p].at = "read" /\ req[p].op = "delete" /\ req[p] \in ReqSet
        /\ req' = [req EXCEPT ![p].at = "delete", ![p].row = table[req[p].key]]
    BY <1>2 DEF Read, RInv, OpFits, IInv, TypeOK
  <2>2. req'[p].at = "delete" /\ req'[p].op = "delete" /\ req'[p].key = req[p].key
    <3> DEFINE row == table[req[p].key]
    <3>1. req'[p] = [req[p] EXCEPT !.at = "delete", !.row = row]
      BY <2>1 DEF IInv, TypeOK
    <3>2. row \in Rows
      BY <1>2, <2>1, Waiting DEF Read, IInv, TypeOK
    <3> HIDE DEF row
    <3>3. req[p] \in ReqSet /\ req[p].at # "idle"
      BY <2>1
    <3>4. \A w \in Rows : /\ [req[p] EXCEPT !.at = "delete", !.row = w].at = "delete"
                          /\ [req[p] EXCEPT !.at = "delete", !.row = w].op = req[p].op
                          /\ [req[p] EXCEPT !.at = "delete", !.row = w].key = req[p].key
      BY <3>3, ReadKeeps
    <3>. QED BY <2>1, <3>1, <3>2, <3>4
  <2>3. \A q \in Requests \ {p} : req'[q] = req[q]
    BY <2>1 DEF IInv, TypeOK
  <2>4. ASSUME NEW k \in Keys, Coming(p, k)  PROVE Coming(p, k)'
    BY <2>1, <2>2, <2>4 DEF Coming
  <2>. QED BY <1>1, <2>1, <2>2, <2>3, <2>4, RequestMatches
<1>3. ASSUME NEW key \in Keys, Remove(p, key)  PROVE RInv'
  <2> DEFINE r == [at |-> "remove", op |-> "delete", key |-> key, to |-> key,
                   row |-> CHOOSE row \in Rows : TRUE, h |-> NoHandler]
  <2>1. req' = [req EXCEPT ![p] = r] /\ req[p].at = "idle"
    BY <1>3 DEF Remove, Begin, Become, Idle
  <2>2. r.at = "remove" /\ r.op = "delete"
    OBVIOUS
  <2> HIDE DEF r
  <2>3. req'[p] = r /\ \A q \in Requests \ {p} : req'[q] = req[q]
    BY <2>1 DEF IInv, TypeOK
  <2>4. \A k \in Keys : ~Coming(p, k)
    BY <2>1 DEF Coming
  <2>. QED BY <1>1, <2>1, <2>2, <2>3, <2>4, RequestMatches
<1>. QED BY <1>2, <1>3

\* After a deletion, or one that fails because the row has gone, the key has
\* neither row nor handler.
LEMMA DeleteMatches ==
  ASSUME IInv, RInv, NEW p \in Requests, Delete(p) \/ DeleteFails(p)
  PROVE  RInv'
<1>1. /\ req[p].at \in {"read", "delete"} /\ req[p].op = "delete"
      /\ req' = [req EXCEPT ![p] = Idle] /\ UNCHANGED <<handler, runner, mu>>
  BY DEF Delete, DeleteFails, Become, handlers, RInv, OpFits
<1>2. PICK key : key = req[p].key
  OBVIOUS
<1>3. key \in Keys
  BY <1>1, <1>2, Waiting
<1>4. /\ \/ table' = [table EXCEPT ![key] = NoRow] /\ (~parted' => handler[key] = NoHandler)
         \/ table' = table /\ (~parted' => table[key] = NoRow)
      /\ ~parted' => ~parted
  BY <1>2 DEF Delete, DeleteFails, tables
<1>5. /\ req'[p].at = "idle"
      /\ \A q \in Requests \ {p} : req'[q] = req[q]
  BY <1>1 DEF IInv, TypeOK, Idle
<1>6. ASSUME ~parted', NEW k \in Keys
      PROVE  \/ table'[k] = table[k] /\ ~Coming(p, k)
             \/ handler[k] = NoHandler /\ table'[k] = NoRow
  <2>1. CASE k = key
    <3>1. handler[key] # NoHandler => table[key] # NoRow
      BY <1>3, <1>4, <1>6 DEF RInv, KeyMatches
    <3>. QED BY <1>3, <1>4, <1>6, <2>1, <3>1 DEF IInv, TypeOK
  <2>2. CASE k # key
    <3>1. ~Coming(p, k)
      BY <1>1, <1>2, <2>2 DEF Coming
    <3>. QED BY <1>4, <2>2, <3>1 DEF IInv, TypeOK
  <2>. QED BY <2>1, <2>2
<1>. QED BY <1>1, <1>4, <1>5, <1>6, RequestMatches

\* Goroutines that go on, and recipe types, change nothing of that.
LEMMA WorkMatches ==
  ASSUME IInv, RInv,
         \/ \E h \in Handlers : Work(h) \/ RunEnds(h)
         \/ \E n \in Names : InsertType(n) \/ DeleteType(n)
         \/ UNCHANGED vars
  PROVE  RInv'
<1>1. UNCHANGED <<table, handler, mu, req, parted>>
  BY DEF Work, RunEnds, InsertType, DeleteType, vars, tables, handlers
<1>2. \A h \in Handlers : /\ Running(h)' <=> Running(h)
                          /\ runner'[h].started = runner[h].started
                          /\ runner'[h].config = runner[h].config
  <2>1. CASE UNCHANGED runner
    BY <2>1 DEF Running
  <2>2. ASSUME NEW h \in Handlers, Work(h) \/ RunEnds(h)
        PROVE  \A g \in Handlers : /\ Running(g)' <=> Running(g)
                                   /\ runner'[g].started = runner[g].started
                                   /\ runner'[g].config = runner[g].config
    <3>1. PICK l \in {"run", "wait", "done"} : runner' = [runner EXCEPT ![h].at = l]
      BY <2>2 DEF Work, RunEnds
    <3>2. Running(h)
      BY <2>2 DEF Work, RunEnds, Running
    <3>3. \A g \in Handlers : /\ runner'[g].at = IF g = h THEN l ELSE runner[g].at
                              /\ runner'[g].started = runner[g].started
                              /\ runner'[g].config = runner[g].config
      BY <3>1 DEF IInv, TypeOK
    <3>. QED BY <3>2, <3>3 DEF Running
  <2>. QED BY <2>1, <2>2 DEF InsertType, DeleteType, vars, handlers
<1>3. OpFits' /\ OneEach'
  BY <1>1 DEF RInv, OpFits, OneEach
<1>4. ToldToStop'
  BY <1>1, <1>2 DEF RInv, ToldToStop, KeyOf
<1>5. ASSUME NEW k \in Keys, KeyMatches(k)  PROVE KeyMatches(k)'
  <2>1. Expected(k)' <=> Expected(k)
    BY <1>1 DEF Expected, Coming
  <2>2. handler[k] # NoHandler => handler[k] \in Handlers
    BY DEF IInv, TypeOK
  <2>3. Serves(k)' <=> Serves(k)
    BY <1>1, <1>2, <2>2 DEF Serves
  <2>. QED BY <1>1, <1>2, <1>5, <2>1, <2>2, <2>3 DEF KeyMatches, Enabled
<1>6. \A p \in Requests : Follows(p)' <=> Follows(p)
  BY <1>1 DEF Follows, Expected, Coming
<1>. QED BY <1>1, <1>2, <1>3, <1>4, <1>5, <1>6 DEF RInv

\* What Replace does to the key of its request.
LEMMA Replaces ==
  ASSUME IInv, OpFits, NEW p \in Requests, req[p].at \in {"add", "remove", "stopping"},
         NEW r, Replace(p, r)
  PROVE  /\ \A q \in Requests \ {p} : req'[q] = req[q]
         /\ \A k \in Keys \ {KeyOf(p)} : handler'[k] = handler[k]
         /\ \/ /\ req[p].op = "delete" /\ handler'[KeyOf(p)] = NoHandler
               /\ req'[p].at = "read" /\ req'[p].op = "delete" /\ req'[p].key = KeyOf(p)
            \/ /\ req[p].op # "delete" /\ handler'[KeyOf(p)] \in Free
               /\ req'[p].at = "start" /\ req'[p].op # "delete" /\ req'[p].to = KeyOf(p)
               /\ req'[p].row = req[p].row /\ req'[p].h = handler'[KeyOf(p)]
<1>1. /\ req \in [Requests -> ReqSet] /\ handler \in [Keys -> Handlers \union {NoHandler}]
      /\ req[p] \in ReqSet /\ req[p].at # "idle"
      /\ req[p].key \in Keys /\ req[p].to \in Keys
  BY Waiting DEF IInv, TypeOK
<1>2. req[p] \in [at : {"add", "remove", "stopping", "read", "delete", "start"},
                  op : {"create", "update", "delete"}, key : Keys, to : Keys,
                  row : Rows, h : Handlers \union {NoHandler}]
  BY <1>1 DEF ReqSet, Idle
<1>3. CASE req[p].op = "delete"
  <2>1. /\ handler' = [handler EXCEPT ![req[p].key] = NoHandler]
        /\ req' = [req EXCEPT ![p].at = "read"] /\ KeyOf(p) = req[p].key
    BY <1>3 DEF Replace, GoTo, KeyOf
  <2>2. /\ req'[p] = [req[p] EXCEPT !.at = "read"]
        /\ \A q \in Requests \ {p} : req'[q] = req[q]
    BY <1>1, <2>1
  <2>3. /\ [req[p] EXCEPT !.at = "read"].at = "read"
        /\ [req[p] EXCEPT !.at = "read"].op = req[p].op
        /\ [req[p] EXCEPT !.at = "read"].key = req[p].key
    BY <1>2
  <2>. QED BY <1>1, <1>3, <2>1, <2>2, <2>3
<1>4. CASE req[p].op # "delete"
  <2>1. KeyOf(p) = req[p].to
    BY <1>4 DEF KeyOf
  <2>2. PICK h \in Free : /\ handler' = [handler EXCEPT ![req[p].to] = h]
                          /\ req' = [req EXCEPT ![p].at = "start", ![p].h = h]
    BY <1>4 DEF Replace
  <2>3. h \in Handlers
    BY DEF Free
  <2>4. /\ req'[p] = [req[p] EXCEPT !.at = "start", !.h = h]
        /\ \A q \in Requests \ {p} : req'[q] = req[q]
    BY <1>1, <2>2
  <2>5. \A g \in Handlers :
          /\ [req[p] EXCEPT !.at = "start", !.h = g].at = "start"
          /\ [req[p] EXCEPT !.at = "start", !.h = g].op = req[p].op
          /\ [req[p] EXCEPT !.at = "start", !.h = g].to = req[p].to
          /\ [req[p] EXCEPT !.at = "start", !.h = g].row = req[p].row
          /\ [req[p] EXCEPT !.at = "start", !.h = g].h = g
    BY <1>2
  <2>6. /\ req'[p].at = "start" /\ req'[p].op = req[p].op /\ req'[p].to = req[p].to
        /\ req'[p].row = req[p].row /\ req'[p].h = h
    BY <2>3, <2>4, <2>5
  <2>7. /\ handler'[req[p].to] = h
        /\ \A k \in Keys \ {req[p].to} : handler'[k] = handler[k]
    BY <1>1, <2>2
  <2>. QED BY <1>4, <2>1, <2>4, <2>6, <2>7
<1>. QED BY <1>3, <1>4

\* Under the lock: what the request leaves for its key is expected still, by
\* itself or by the request that has changed the row since; the other keys have
\* other handlers.
LEMMA ReplaceMatches ==
  ASSUME IInv, RInv, NEW p \in Requests, req[p].at \in {"add", "remove", "stopping"},
         NEW r, Replace(p, r),
         \A h \in Handlers : h # handler[KeyOf(p)] => r[h] = runner[h],
         \A h \in Handlers : h = handler[KeyOf(p)] =>
           r[h].at \notin {"top", "run", "wait", "done"},
         mu \in {Nobody, p}, mu' = Nobody, UNCHANGED tables, ~parted' => ~parted,
         ~parted' /\ req[p].at = "add" => table[req[p].to] = req[p].row
  PROVE  RInv'
<1>1. PICK K \in Keys : K = KeyOf(p)
  BY Waiting DEF KeyOf
<1>2. PICK old : old = handler[K]
  OBVIOUS
<1>3. /\ \A q \in Requests \ {p} : req'[q] = req[q]
      /\ \A k \in Keys \ {K} : handler'[k] = handler[k]
      /\ \/ /\ req[p].op = "delete" /\ handler'[K] = NoHandler
            /\ req'[p].at = "read" /\ req'[p].op = "delete" /\ req'[p].key = K
         \/ /\ req[p].op # "delete" /\ handler'[K] \in Free
            /\ req'[p].at = "start" /\ req'[p].op # "delete" /\ req'[p].to = K
            /\ req'[p].row = req[p].row /\ req'[p].h = handler'[K]
  BY <1>1, Replaces DEF RInv
<1>4. /\ \A h \in Handlers : Running(h)' <=> h # old /\ Running(h)
      /\ \A h \in Handlers : h # old => runner'[h] = runner[h]
  BY <1>1, <1>2 DEF Replace, Running
<1>5. /\ table' = table
      /\ \A h \in Free : /\ h \in Handlers /\ h # NoHandler /\ ~Running(h)
                         /\ \A k \in Keys : handler[k] # h
                         /\ \A q \in Requests : req[q].at = "start" => req[q].h # h
  BY AdminAssumption DEF tables, Free, InUse
<1>6. /\ \A q \in Requests \ {p} : req[q].at # "stopping"
      /\ \A k \in Keys : handler[k] \in Handlers \union {NoHandler}
  BY Waiting, AdminAssumption DEF IInv, TypeOK
<1>7. OpFits'
  BY <1>3 DEF RInv, OpFits
<1>8. OneEach'
  BY <1>3, <1>5 DEF RInv, OneEach
<1>9. ToldToStop'
  <2> SUFFICES ASSUME NEW h \in Handlers, Running(h)', ~runner'[h].started
               PROVE  FALSE
    BY DEF ToldToStop
  <2>1. h # old /\ Running(h) /\ ~runner[h].started
    BY <1>4
  <2>2. PICK q \in Requests : mu = q /\ handler[KeyOf(q)] = h
    BY <2>1 DEF RInv, ToldToStop
  <2>3. q = p
    BY <2>2, AdminAssumption
  <2>. QED BY <1>1, <1>2, <2>1, <2>2, <2>3
<1>10. ASSUME ~parted'
       PROVE  /\ \A k \in Keys : KeyMatches(k)'
              /\ \A h \in Handlers : Running(h)' => \E k \in Keys : handler'[k] = h
              /\ \A q \in Requests : Follows(q)'
  <2>1. /\ ~parted /\ KeyMatches(K) /\ Follows(p)
        /\ req[p].at = "add" => table[K] = req[p].row
    BY <1>1, <1>10 DEF RInv, OpFits, KeyOf
  <2>2. ASSUME NEW k \in Keys, k # K, Expected(k)  PROVE Expected(k)'
    <3>1. PICK q \in Requests : Coming(q, k)
      BY <2>2 DEF Expected
    <3>2. q # p
      BY <1>1, <2>2, <3>1 DEF Coming, KeyOf
    <3>3. Coming(q, k)'
      BY <1>3, <1>5, <2>2, <3>1, <3>2, StillComing
    <3>. QED BY <3>3 DEF Expected
  <2>3. Expected(K)'
    <3>1. CASE req[p].op = "delete"
      BY <1>3, <3>1 DEF Coming, Expected
    <3>2. CASE req[p].op # "delete" /\ req[p].row = table[K]
      BY <1>3, <1>5, <3>2 DEF Coming, Expected
    <3>3. CASE req[p].op # "delete" /\ req[p].row # table[K]
      <4>1. req[p].at = "stopping" /\ req[p].to = K
        BY <1>1, <2>1, <3>3 DEF RInv, OpFits, KeyOf
      <4>2. PICK q \in Requests : Coming(q, K)
        BY <2>1, <3>3, <4>1 DEF Follows, Expected
      <4>3. q # p
        BY <3>3, <4>1, <4>2 DEF Coming
      <4>4. req[q].at # "start"
        BY <1>1, <4>1, <4>2, Waiting DEF Coming, RInv, OpFits
      <4>5. Coming(q, K)'
        BY <1>3, <1>5, <1>6, <4>2, <4>3, <4>4 DEF Coming
      <4>. QED BY <4>5 DEF Expected
    <3>. QED BY <3>1, <3>2, <3>3
  <2>4. handler'[K] # NoHandler => table[K] # NoRow
    <3>1. CASE req[p].at = "add"
      BY <2>1, <3>1, Waiting, AdminAssumption
    <3>2. CASE req[p].at # "add"
      BY <1>1, <1>3, <2>1, <3>2, Waiting DEF RInv, OpFits, KeyMatches
    <3>. QED BY <3>1, <3>2
  <2>5. KeyMatches(K)'
    BY <1>5, <2>3, <2>4 DEF KeyMatches
  <2>6. ASSUME NEW k \in Keys, k # K  PROVE KeyMatches(k)'
    <3>1. handler'[k] = handler[k] /\ table'[k] = table[k] /\ KeyMatches(k)
      BY <1>3, <1>5, <2>1, <2>6 DEF RInv
    <3>2. handler[k] # NoHandler => handler[k] \in Handlers /\ handler[k] # old
      BY <1>2, <1>6, <2>6 DEF RInv, OneEach
    <3>3. Serves(k)' <=> Serves(k)
      BY <1>4, <3>1, <3>2 DEF Serves
    <3>. QED BY <1>4, <2>2, <2>6, <3>1, <3>2, <3>3 DEF KeyMatches, Enabled
  <2>7. ASSUME NEW h \in Handlers, Running(h)'  PROVE \E k \in Keys : handler'[k] = h
    <3>1. h # old /\ Running(h)
      BY <1>4, <2>7
    <3>2. PICK k \in Keys : handler[k] = h
      BY <2>1, <3>1 DEF RInv
    <3>. QED BY <1>2, <1>3, <3>1, <3>2
  <2>8. ASSUME NEW q \in Requests, q # p  PROVE Follows(q)'
    <3>1. PICK k : k = req[q].to
      OBVIOUS
    <3>2. req'[q] = req[q] /\ req'[q].to = k
      BY <1>3, <2>8, <3>1
    <3>3. ASSUME req[q].at = "start", req[q].op # "delete", handler'[k] = req[q].h
          PROVE  Expected(k)'
      <4>1. k \in Keys /\ req[q].h \in Handlers
        BY <3>1, <3>3, Waiting
      <4>2. k # K
        BY <1>3, <1>5, <3>3, <4>1, AdminAssumption
      <4>3. handler[k] = req[q].h
        BY <1>3, <3>3, <4>1, <4>2
      <4>4. Expected(k)
        BY <2>1, <3>1, <3>3, <4>3 DEF RInv, Follows
      <4>. QED BY <2>2, <4>1, <4>2, <4>4
    <3>. QED BY <1>6, <2>8, <3>2, <3>3 DEF Follows, Expected
  <2>9. Follows(p)'
    BY <1>3, <2>3 DEF Follows, Expected
  <2>. QED BY <2>5, <2>6, <2>7, <2>8, <2>9
<1>. QED BY <1>7, <1>8, <1>9, <1>10 DEF RInv

\* With the lock: the goroutine of the key's handler is told to stop, unless there
\* is none.  Without the fourth fault the request's row is the key's.
LEMMA EnterMatches ==
  ASSUME IInv, RInv, NEW p \in Requests, Enter(p)
  PROVE  RInv'
<1>1. PICK K \in Keys : K = KeyOf(p)
  BY Waiting DEF Enter, KeyOf
<1>2. PICK old : old = handler[K]
  OBVIOUS
<1>3. /\ req[p].at \in {"add", "remove"} /\ mu = Nobody /\ UNCHANGED tables
      /\ ~parted' => ~parted
      /\ ~parted' /\ req[p].at = "add" => table[req[p].to] = req[p].row
  BY DEF Enter
<1>4. \A h \in Handlers : Running(h) => runner[h].started
  BY <1>3, AdminAssumption DEF RInv, ToldToStop
<1>5. CASE old # NoHandler /\ runner[old].started
  <2>1. old \in Handlers /\ Running(old)
    BY <1>2, <1>5 DEF IInv, TypeOK, StartedRuns
  <2>2. /\ mu' = p /\ UNCHANGED handler
        /\ runner' = [runner EXCEPT ![old].started = FALSE]
        /\ req' = [req EXCEPT ![p].at = "stopping"]
    BY <1>1, <1>2, <1>5 DEF Enter, GoTo
  <2>3. /\ \A h \in Handlers : Running(h)' <=> Running(h)
        /\ \A h \in Handlers : runner'[h].config = runner[h].config
        /\ \A h \in Handlers : h # old => runner'[h].started = runner[h].started
    BY <2>2 DEF IInv, TypeOK, Running
  <2>4. /\ req'[p].at = "stopping" /\ req'[p].op = req[p].op /\ req'[p].key = req[p].key
        /\ req'[p].to = req[p].to /\ req'[p].row = req[p].row
        /\ \A q \in Requests \ {p} : req'[q] = req[q]
    <3>1. /\ req[p] \in [at : {"add", "remove", "stopping", "read", "delete", "start"},
                         op : {"create", "update", "delete"}, key : Keys, to : Keys,
                         row : Rows, h : Handlers \union {NoHandler}]
          /\ req \in [Requests -> ReqSet]
      BY <1>3 DEF IInv, TypeOK, ReqSet, Idle
    <3>. QED BY <2>2, <3>1
  <2>5. OpFits' /\ OneEach'
    BY <2>2, <2>4 DEF RInv, OpFits, OneEach
  <2>6. ToldToStop'
    <3>1. KeyOf(p)' = K
      BY <1>1, <2>4 DEF KeyOf
    <3>2. \A h \in Handlers : Running(h)' /\ ~runner'[h].started => h = old
      BY <1>4, <2>3
    <3>. QED BY <1>2, <2>2, <3>1, <3>2 DEF ToldToStop
  <2>7. ASSUME ~parted'
        PROVE  /\ \A k \in Keys : KeyMatches(k)'
               /\ \A h \in Handlers : Running(h)' => \E k \in Keys : handler'[k] = h
               /\ \A q \in Requests : Follows(q)'
    <3>1. ~parted /\ table' = table /\ (req[p].at = "add" => table[req[p].to] = req[p].row)
      BY <1>3, <2>7 DEF tables
    <3>2. ASSUME NEW k \in Keys, NEW q \in Requests, Coming(q, k)
          PROVE  Coming(q, k)'
      <4>1. CASE q = p
        BY <1>3, <2>4, <3>1, <3>2, <4>1 DEF Coming, RInv, OpFits
      <4>2. CASE q # p
        BY <2>2, <2>4, <3>1, <3>2, <4>2, StillComing
      <4>. QED BY <4>1, <4>2
    <3>3. \A k \in Keys : Expected(k) => Expected(k)'
      BY <3>2 DEF Expected
    <3>4. ASSUME NEW k \in Keys  PROVE KeyMatches(k)'
      <4>1. KeyMatches(k)
        BY <3>1 DEF RInv
      <4>2. handler[k] # NoHandler => handler[k] \in Handlers
        BY DEF IInv, TypeOK
      <4>. QED BY <2>2, <2>3, <3>1, <3>3, <4>1, <4>2 DEF KeyMatches, Enabled, Serves
    <3>5. \A h \in Handlers : Running(h)' => \E k \in Keys : handler'[k] = h
      BY <2>2, <2>3, <3>1 DEF RInv
    <3>6. ASSUME NEW q \in Requests, q # p  PROVE Follows(q)'
      <4>1. PICK k : k = req[q].to
        OBVIOUS
      <4>2. req'[q] = req[q] /\ req'[q].to = k
        BY <2>4, <3>6, <4>1
      <4>3. ASSUME req[q].at \in {"stopping", "start"}, req[q].op # "delete",
                   req[q].at = "start" => handler[k] = req[q].h
            PROVE  Expected(k)'
        <5>1. k \in Keys /\ Expected(k)
          BY <3>1, <4>1, <4>3, Waiting DEF RInv, Follows
        <5>. QED BY <3>3, <5>1
      <4>. QED BY <2>2, <4>2, <4>3 DEF Follows, Expected
    <3>7. Follows(p)'
      BY <1>3, <2>4, <3>1 DEF Follows, Expected, Coming, RInv, OpFits
    <3>. QED BY <3>4, <3>5, <3>6, <3>7
  <2>. QED BY <2>5, <2>6, <2>7 DEF RInv
<1>6. CASE ~(old # NoHandler /\ runner[old].started)
  <2>1. Replace(p, runner) /\ mu' = Nobody
    BY <1>1, <1>2, <1>3, <1>6 DEF Enter
  <2>2. \A h \in Handlers : h = handler[KeyOf(p)] =>
          runner[h].at \notin {"top", "run", "wait", "done"}
    BY <1>1, <1>2, <1>4, <1>6, AdminAssumption DEF Running
  <2>. QED BY <1>3, <2>1, <2>2, ReplaceMatches
<1>. QED BY <1>5, <1>6

\* The goroutine that was told to stop has ended.
LEMMA StoppedMatches ==
  ASSUME IInv, RInv, NEW p \in Requests, Stopped(p)
  PROVE  RInv'
<1> DEFINE r == [runner EXCEPT ![handler[KeyOf(p)]] = Unused]
<1>1. /\ req[p].at = "stopping" /\ Replace(p, r) /\ mu = p /\ mu' = Nobody
      /\ UNCHANGED tables /\ UNCHANGED parted
  BY Waiting DEF Stopped
<1>2. \A h \in Handlers : r[h] = IF h = handler[KeyOf(p)] THEN Unused ELSE runner[h]
  BY DEF IInv, TypeOK
<1>3. Unused.at = "new"
  BY DEF Unused
<1> HIDE DEF r
<1>. QED BY <1>1, <1>2, <1>3, ReplaceMatches

\* A handler that is started serves the row of its key, unless another request is
\* to come for it.
LEMMA StartMatches ==
  ASSUME IInv, RInv, NEW p \in Requests, Start(p)
  PROVE  RInv'
<1>1. PICK K \in Keys, h \in Handlers, row \in Rows :
        K = req[p].to /\ h = req[p].h /\ row = req[p].row
  BY Waiting DEF Start
<1>2. /\ req[p].at = "start" /\ req[p].op # "delete" /\ ~Running(h) /\ h # NoHandler
      /\ req' = [req EXCEPT ![p] = Idle] /\ UNCHANGED <<table, handler, mu>>
  BY <1>1, Waiting, AdminAssumption DEF Start, Become, tables, RInv, OpFits
<1>3. /\ req'[p].at = "idle"
      /\ \A q \in Requests \ {p} : req'[q] = req[q]
  BY <1>2 DEF IInv, TypeOK, Idle
<1>4. \/ /\ runner' = [runner EXCEPT ![h] = Started(row.config)]
         /\ ~parted' => ~parted /\ handler[K] = h /\ row.enabled
      \/ runner' = runner /\ parted' = parted /\ ~row.enabled
  BY <1>1 DEF Start
<1>5. /\ \A g \in Handlers : g # h => runner'[g] = runner[g]
      /\ \/ /\ runner'[h] = Started(row.config)
            /\ ~parted' => ~parted /\ handler[K] = h /\ row.enabled
         \/ runner'[h] = runner[h] /\ (~parted' => ~parted) /\ ~row.enabled
  BY <1>4 DEF IInv, TypeOK
<1>6. /\ \A g \in Handlers : g # h => (Running(g)' <=> Running(g))
      /\ \/ /\ Running(h)' /\ runner'[h].started /\ runner'[h].config = row.config
            /\ ~parted' => handler[K] = h /\ row.enabled
         \/ ~Running(h)' /\ ~row.enabled
  BY <1>2, <1>5 DEF Running, Started
<1>7. OpFits' /\ OneEach'
  BY <1>2, <1>3 DEF RInv, OpFits, OneEach
<1>8. ToldToStop'
  <2> SUFFICES ASSUME NEW g \in Handlers, Running(g)', ~runner'[g].started
               PROVE  \E q \in Requests : mu' = q /\ handler'[KeyOf(q)'] = g
    BY DEF ToldToStop
  <2>1. Running(g) /\ ~runner[g].started
    BY <1>5, <1>6
  <2>2. PICK q \in Requests : mu = q /\ handler[KeyOf(q)] = g
    BY <2>1 DEF RInv, ToldToStop
  <2>3. q # p
    BY <1>2, <2>2, Waiting
  <2>4. KeyOf(q)' = KeyOf(q)
    BY <1>3, <2>3 DEF KeyOf
  <2>. QED BY <1>2, <2>2, <2>4
<1>9. ASSUME ~parted'
      PROVE  /\ \A k \in Keys : KeyMatches(k)'
             /\ \A g \in Handlers : Running(g)' => \E k \in Keys : handler'[k] = g
             /\ \A q \in Requests : Follows(q)'
  <2>1. ~parted
    BY <1>5, <1>9
  <2>2. ASSUME NEW k \in Keys, Expected(k)
        PROVE  Expected(k)' \/ (k = K /\ handler[K] = h /\ row = table[K])
    <3>1. PICK q \in Requests : Coming(q, k)
      BY <2>2 DEF Expected
    <3>2. CASE q = p
      BY <1>1, <1>2, <3>1, <3>2 DEF Coming
    <3>3. CASE q # p
      BY <1>2, <1>3, <3>1, <3>3, StillComing DEF Expected
    <3>. QED BY <3>2, <3>3
  <2>3. ASSUME NEW k \in Keys, handler[k] # h  PROVE KeyMatches(k)'
    <3>1. KeyMatches(k) /\ (handler[k] # NoHandler => handler[k] \in Handlers)
      BY <2>1 DEF RInv, IInv, TypeOK
    <3>2. Expected(k) => Expected(k)'
      BY <2>2, <2>3
    <3>3. Serves(k)' <=> Serves(k)
      BY <1>2, <1>5, <1>6, <2>3, <3>1 DEF Serves
    <3>. QED BY <1>2, <1>6, <2>3, <3>1, <3>2, <3>3 DEF KeyMatches, Enabled
  <2>4. ASSUME NEW k \in Keys, handler[k] = h  PROVE KeyMatches(k)'
    <3>1. KeyMatches(k)
      BY <2>1 DEF RInv
    <3>2. ~Serves(k) /\ ~Running(handler[k])
      BY <1>2, <2>4 DEF Serves
    <3>3. CASE Expected(k)'
      BY <1>2, <3>1, <3>3 DEF KeyMatches, Enabled
    <3>4. CASE ~Expected(k)' /\ ~Expected(k)
      <4>1. ~Enabled(k)
        BY <3>1, <3>2, <3>4 DEF KeyMatches
      <4>2. k # K \/ ~Running(h)'
        <5>1. ASSUME k = K  PROVE ~Expected(k) => FALSE
          BY <1>1, <1>2, <2>1, <2>4, <5>1 DEF RInv, Follows
        <5>. QED BY <3>4, <5>1
      <4>3. ~Running(h)'
        BY <1>2, <1>6, <1>9, <2>4, <4>2 DEF RInv, OneEach
      <4>. QED BY <1>2, <2>4, <3>1, <4>1, <4>3 DEF KeyMatches, Enabled
    <3>5. CASE ~Expected(k)' /\ Expected(k)
      <4>1. k = K /\ row = table[K]
        BY <2>2, <3>5
      <4>2. handler'[k] = h /\ table'[k] = row /\ row # NoRow /\ h # NoHandler
        BY <1>2, <2>4, <4>1, AdminAssumption
      <4>3. CASE Running(h)' /\ runner'[h].config = row.config /\ row.enabled
        <5>1. Serves(k)'
          BY <4>2, <4>3 DEF Serves, Running
        <5>. QED BY <4>2, <4>3, <5>1 DEF KeyMatches, Enabled
      <4>4. CASE ~Running(h)' /\ ~row.enabled
        BY <4>2, <4>4 DEF KeyMatches, Enabled, Running
      <4>. QED BY <1>6, <1>9, <4>3, <4>4
    <3>. QED BY <3>3, <3>4, <3>5
  <2>5. ASSUME NEW g \in Handlers, Running(g)'  PROVE \E k \in Keys : handler'[k] = g
    BY <1>2, <1>6, <1>9, <2>1, <2>5 DEF RInv
  <2>6. ASSUME NEW q \in Requests, q # p  PROVE Follows(q)'
    <3>1. PICK k : k = req[q].to
      OBVIOUS
    <3>2. req'[q] = req[q] /\ req'[q].to = k
      BY <1>3, <2>6, <3>1
    <3>3. ASSUME req[q].at \in {"stopping", "start"}, req[q].op # "delete",
                 req[q].at = "start" => handler[k] = req[q].h
          PROVE  Expected(k)'
      <4>1. k \in Keys /\ Expected(k)
        BY <2>1, <3>1, <3>3, Waiting DEF RInv, Follows
      <4>2. CASE req[q].at = "stopping"
        <5>1. Running(handler[k])
          BY <3>1, <3>3, <4>2, Waiting DEF KeyOf
        <5>. QED BY <1>2, <2>2, <4>1, <5>1
      <4>3. CASE req[q].at = "start"
        <5>1. req[q].h # h
          BY <1>1, <1>2, <2>6, <4>3 DEF IInv, StartsFresh
        <5>. QED BY <2>2, <3>3, <4>1, <4>3, <5>1
      <4>. QED BY <3>3, <4>2, <4>3
    <3>. QED BY <1>2, <3>2, <3>3 DEF Follows, Expected
  <2>7. Follows(p)'
    BY <1>3 DEF Follows
  <2>. QED BY <2>3, <2>4, <2>5, <2>6, <2>7
<1>. QED BY <1>7, <1>8, <1>9 DEF RInv

\* A restart runs the workers that are enabled, each in its own handler.
LEMMA RestartMatches ==
  ASSUME IInv, Restart
  PROVE  RInv'
<1> DEFINE enabled == {k \in Keys : table[k] # NoRow /\ table[k].enabled}
<1>1. PICK f \in [enabled -> Handlers] :
        /\ \A j, k \in enabled : f[j] = f[k] => j = k
        /\ handler' = [k \in Keys |-> IF k \in enabled THEN f[k] ELSE NoHandler]
        /\ runner' = [h \in Handlers |->
                        IF \E k \in enabled : f[k] = h
                        THEN Started(table[CHOOSE k \in enabled : f[k] = h].config)
                        ELSE Unused]
  BY DEF Restart
<1>2. /\ req' = [p \in Requests |-> Idle] /\ table' = table
      /\ \A p \in Requests : req'[p].at = "idle"
  BY DEF Restart, tables, Idle
<1>3. enabled \subseteq Keys /\ \A k \in Keys : k \in enabled <=> Enabled(k)'
  BY <1>2 DEF Enabled
<1> HIDE DEF enabled
<1>4. ASSUME NEW k \in enabled
      PROVE  /\ handler'[k] \in Handlers /\ handler'[k] # NoHandler
             /\ runner'[handler'[k]] = Started(table[k].config)
  <2>1. f[k] \in Handlers /\ handler'[k] = f[k]
    BY <1>1, <1>3
  <2>2. (CHOOSE j \in enabled : f[j] = f[k]) = k
    BY <1>1
  <2>3. runner'[f[k]] = Started(table[CHOOSE j \in enabled : f[j] = f[k]].config)
    BY <1>1, <2>1
  <2>. QED BY <2>1, <2>2, <2>3, AdminAssumption
<1>5. ASSUME NEW h \in Handlers
      PROVE  \/ runner'[h] = Unused
             \/ \E k \in enabled : handler'[k] = h /\ runner'[h] = Started(table[k].config)
  <2>1. CASE \E k \in enabled : f[k] = h
    BY <1>1, <1>3, <1>4, <2>1
  <2>2. CASE ~\E k \in enabled : f[k] = h
    BY <1>1, <2>2
  <2>. QED BY <2>1, <2>2
<1>6. /\ Unused.at = "new"
      /\ \A c : Started(c).at = "top" /\ Started(c).started /\ Started(c).config = c
  BY DEF Unused, Started
<1>7. OpFits'
  BY <1>2 DEF OpFits
<1>8. OneEach'
  BY <1>1, <1>3 DEF OneEach
<1>9. ToldToStop'
  BY <1>5, <1>6 DEF ToldToStop, Running
<1>10. ASSUME NEW k \in Keys  PROVE KeyMatches(k)'
  <2>1. CASE k \in enabled
    <3>1. Serves(k)'
      BY <1>2, <1>4, <1>6, <2>1 DEF Serves, Running
    <3>. QED BY <1>3, <2>1, <3>1 DEF KeyMatches, Enabled
  <2>2. CASE k \notin enabled
    <3>1. handler'[k] = NoHandler /\ ~Enabled(k)'
      BY <1>1, <1>3, <2>2
    <3>. QED BY <3>1 DEF KeyMatches
  <2>. QED BY <2>1, <2>2
<1>11. \A h \in Handlers : Running(h)' => \E k \in Keys : handler'[k] = h
  BY <1>3, <1>5, <1>6 DEF Running
<1>12. \A p \in Requests : Follows(p)'
  BY <1>2 DEF Follows
<1>. QED BY <1>7, <1>8, <1>9, <1>10, <1>11, <1>12 DEF RInv

\* Nothing runs at first.
LEMMA InitMatches == Init => RInv
<1> SUFFICES ASSUME Init PROVE RInv
  OBVIOUS
<1>1. /\ \A p \in Requests : req[p].at = "idle"
      /\ \A k \in Keys : table[k] = NoRow /\ handler[k] = NoHandler
      /\ \A h \in Handlers : ~Running(h)
  BY DEF Init, Idle, Unused, Running
<1>. QED BY <1>1 DEF RInv, OpFits, OneEach, ToldToStop, KeyMatches, Enabled, Follows

\* Every step keeps what is to come in step.
LEMMA NextMatches == IInv /\ RInv /\ [Next]_vars => RInv'
<1>. SUFFICES ASSUME IInv, RInv, [Next]_vars PROVE RInv'
  OBVIOUS
<1>1. ASSUME NEW p \in Requests, Request(p) PROVE RInv'
  BY <1>1, ChangeMatches, RemoveMatches DEF Request
<1>2. ASSUME NEW p \in Requests, Step(p) PROVE RInv'
  BY <1>2, EnterMatches, StoppedMatches, StartMatches, RemoveMatches, DeleteMatches DEF Step
<1>. QED BY <1>1, <1>2, WorkMatches, RestartMatches DEF Next

\* Between requests, and as long as none of the six named faults has happened since
\* the server was started, every enabled worker runs in one goroutine with the
\* configuration of its row, and nothing else runs.
THEOREM RunnersAgree == Spec => []RunnersMatch
<1>1. IInv /\ RInv => RunnersMatch
  <2> SUFFICES ASSUME RInv, ~parted, \A p \in Requests : req[p] = Idle
               PROVE  /\ \A k \in Keys : (table[k] # NoRow /\ table[k].enabled) =>
                           /\ handler[k] # NoHandler /\ Running(handler[k])
                           /\ runner[handler[k]].config = table[k].config
                      /\ \A h \in Handlers : Running(h) =>
                           \E k \in Keys : handler[k] = h /\ table[k] # NoRow /\ table[k].enabled
    BY DEF RunnersMatch
  <2>1. \A k \in Keys : ~Expected(k)
    BY DEF Expected, Coming, Idle
  <2>2. \A k \in Keys : KeyMatches(k)
    BY DEF RInv
  <2>3. \A k \in Keys : (Enabled(k) => Serves(k))
                        /\ (handler[k] # NoHandler /\ Running(handler[k]) => Enabled(k))
    BY <2>1, <2>2 DEF KeyMatches
  <2>4. \A h \in Handlers : Running(h) => \E k \in Keys : handler[k] = h
    BY DEF RInv
  <2>. QED BY <2>3, <2>4, AdminAssumption DEF Enabled, Serves
<1>. QED BY InitInv, NextInv, InitMatches, NextMatches, <1>1, PTL DEF Spec
=============================================================================
