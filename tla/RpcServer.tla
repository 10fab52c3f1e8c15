----------------------------- MODULE RpcServer -----------------------------
(***************************************************************************)
(* The JSON-RPC server and its goroutine pool (internal/wsrpc/handler.go,  *)
(* pkg/gopool/pool.go).  A call registers a channel under its id, writes   *)
(* its request and waits for the channel or its timeout.  The answer, read *)
(* by a goroutine of the websocket server, is matched by its id and        *)
(* delivered by a goroutine of the pool, which waits until the channel is  *)
(* read.  Logins run in the same pool, and call the client themselves.     *)
(*                                                                         *)
(* Calls are numbered in the order of their ids.  A client answers a       *)
(* request any time later, or not at all; a connection that is lost is one *)
(* that no longer answers.  The Lua clients of the repository answer once, *)
(* but the server takes a second answer as it takes the first.             *)
(*                                                                         *)
(* A login ends here with its call: RegisterClient, which then takes the   *)
(* clients' lock in the same goroutine, is in ClientLifecycle.             *)
(***************************************************************************)
EXTENDS Sequences, FiniteSets, Integers

CONSTANTS
  Size,      \* goroutines of the pool
  Queue,     \* length of its queue
  Modulus,   \* request ids start again here
  Twice,     \* calls whose request the client may answer twice
  MaxCalls,  \* bound on calls
  MaxLogins  \* bound on logins

ASSUME RpcAssumption ==
  /\ Size \in Nat \ {0} /\ Queue \in Nat \ {0} /\ Modulus \in Nat \ {0}
  /\ Twice \subseteq Nat /\ MaxCalls \in Nat /\ MaxLogins \in Nat

Calls == 1..MaxCalls
Pool == 1..Size
None == 0

VARIABLES
  seq,      \* reqSeq
  calls,    \* the calls so far: [id, at, got], got is the request answered
  pending,  \* id -> the call whose channel is registered, or None
  asked,    \* requests that the client may still answer
  again,    \* requests that it has answered and may answer once more
  logins,   \* how many logins have come
  arriving, \* tasks that goroutines of the websocket server schedule
  queue,    \* tasks in the pool's queue
  worker    \* goroutine of the pool -> what it does

pool == <<arriving, queue, worker>>
vars == <<seq, calls, pending, asked, again, logins, pool>>

Answer(d, to, second) ==
  [kind |-> "answer", of |-> d, to |-> to, intime |-> calls[to].at # "ended", second |-> second]
TaskOf(kind, n) == [kind |-> kind, of |-> n, to |-> None, intime |-> TRUE, second |-> FALSE]
Login(n) == TaskOf("login", n)

\* Goroutines that do not exist yet, or wait for the queue.
Unborn == TaskOf("unborn", None)
Ready == TaskOf("ready", None)

Init ==
  /\ seq = 0 /\ calls = <<>>
  /\ pending = [i \in 0..(Modulus - 1) |-> None]
  /\ asked = {} /\ again = {} /\ logins = 0
  /\ arriving = {} /\ queue = <<>>
  /\ worker = [g \in Pool |-> IF g = 1 THEN Ready ELSE Unborn]

\* Mutant: the last id is left out.
NextSeqEarly(n) == IF n + 2 >= Modulus THEN 0 ELSE n + 1

NextSeq(n) == (n + 1) % Modulus

-----------------------------------------------------------------------------
\* SendRequestSync.

\* Mutant: the id is read again after it was raised.
SendUnlocked(written) ==
  /\ Len(calls) < MaxCalls
  /\ calls' = Append(calls, [id |-> seq, at |-> IF written THEN "wait" ELSE "ended",
                             got |-> None])
  /\ pending' = [pending EXCEPT ![NextSeq(seq)] =
                    IF written THEN Len(calls) + 1 ELSE None]
  /\ asked' = IF written THEN asked \union {Len(calls) + 1} ELSE asked
  /\ seq' = NextSeq(seq)

\* The channel is registered, over one that still has the id, and the request
\* is written.  If that fails the entry is deleted and the call has ended.
Send(written) ==
  /\ Len(calls) < MaxCalls
  /\ calls' = Append(calls, [id |-> seq, at |-> IF written THEN "wait" ELSE "ended",
                             got |-> None])
  /\ pending' = [pending EXCEPT ![seq] = IF written THEN Len(calls) + 1 ELSE None]
  /\ asked' = IF written THEN asked \union {Len(calls) + 1} ELSE asked
  /\ seq' = NextSeq(seq)

\* Any goroutine that is not the pool's.
Call ==
  /\ \E written \in BOOLEAN : Send(written)
  /\ UNCHANGED <<again, logins, pool>>

\* Mutant: logins wait without a timeout.
TimeoutOutside(c) ==
  /\ calls[c].at = "wait"
  /\ \A g \in Pool : ~(worker[g].kind = "login" /\ worker[g].to = c)
  /\ calls' = [calls EXCEPT ![c].at = "expired"]
  /\ UNCHANGED <<seq, pending, asked, again, logins, pool>>

\* The context's time is over: the call no longer reads its channel ...
Timeout(c) ==
  /\ calls[c].at = "wait"
  /\ calls' = [calls EXCEPT ![c].at = "expired"]
  /\ UNCHANGED <<seq, pending, asked, again, logins, pool>>

\* Mutant: the channel stays registered.
ForgetNothing(c) ==
  /\ calls[c].at = "expired"
  /\ calls' = [calls EXCEPT ![c].at = "ended"]
  /\ UNCHANGED <<pending, seq, asked, again, logins, pool>>

\* ... and removes what is registered under its id.
Forget(c) ==
  /\ calls[c].at = "expired"
  /\ calls' = [calls EXCEPT ![c].at = "ended"]
  /\ pending' = [pending EXCEPT ![calls[c].id] = None]
  /\ UNCHANGED <<seq, asked, again, logins, pool>>

-----------------------------------------------------------------------------
\* HandleMessage.

\* An answer: the channel is looked up, and a task is made that sends to it.
LookUp(d, second) ==
  LET to == pending[calls[d].id] IN
  /\ arriving' = IF to = None THEN arriving ELSE arriving \union {Answer(d, to, second)}
  /\ UNCHANGED <<seq, calls, pending, logins, queue, worker>>

Receive(d) ==
  /\ d \in asked
  /\ asked' = asked \ {d}
  /\ again' = IF d \in Twice THEN again \union {d} ELSE again
  /\ LookUp(d, FALSE)

\* A call that was answered has left its channel registered.
ReceiveAgain(d) ==
  /\ d \in again
  /\ again' = again \ {d}
  /\ LookUp(d, TRUE)
  /\ UNCHANGED asked

ReceiveLogin ==
  /\ logins < MaxLogins
  /\ logins' = logins + 1
  /\ arriving' = arriving \union {Login(logins + 1)}
  /\ UNCHANGED <<seq, calls, pending, asked, again, queue, worker>>

-----------------------------------------------------------------------------
\* The pool.

\* schedule: the task goes into the queue or gets a new goroutine, whichever
\* select takes; a goroutine that is ready has no precedence.
Schedule(t) ==
  /\ t \in arriving
  /\ arriving' = arriving \ {t}
  /\ \/ /\ Len(queue) < Queue
        /\ queue' = Append(queue, t)
        /\ UNCHANGED worker
     \/ \E g \in Pool :
          /\ worker[g] = Unborn /\ \A f \in 1..(g - 1) : worker[f] # Unborn
          /\ worker' = [worker EXCEPT ![g] = t]
          /\ UNCHANGED queue
  /\ UNCHANGED <<seq, calls, pending, asked, again, logins>>

Take(g) ==
  /\ worker[g] = Ready /\ queue # <<>>
  /\ worker' = [worker EXCEPT ![g] = Head(queue)]
  /\ queue' = Tail(queue)
  /\ UNCHANGED <<seq, calls, pending, asked, again, logins, arriving>>

\* done <- &msg: the call that waits has its answer.  If none waits any more
\* the goroutine is lost.
Deliver(g) ==
  LET t == worker[g] IN
  /\ t.kind = "answer" /\ calls[t.to].at = "wait"
  /\ calls' = [calls EXCEPT ![t.to] = [id |-> @.id, at |-> "ended", got |-> t.of]]
  /\ worker' = [worker EXCEPT ![g] = Ready]
  /\ UNCHANGED <<seq, pending, asked, again, logins, arriving, queue>>

\* login calls the client (upgrade or init) ...
LoginCalls(g) ==
  /\ worker[g].kind = "login" /\ worker[g].to = None
  /\ \E written \in BOOLEAN : Send(written)
  /\ worker' = [worker EXCEPT ![g].to = Len(calls')]
  /\ UNCHANGED <<again, logins, arriving, queue>>

\* ... unless it is refused or there is no script, and then returns.
LoginEnds(g) ==
  /\ worker[g].kind = "login"
  /\ worker[g].to # None => calls[worker[g].to].at = "ended"
  /\ worker' = [worker EXCEPT ![g] = Ready]
  /\ UNCHANGED <<seq, calls, pending, asked, again, logins, arriving, queue>>

-----------------------------------------------------------------------------
Expire(c) == c \in DOMAIN calls /\ (Timeout(c) \/ Forget(c))
Work(g) == Take(g) \/ Deliver(g) \/ LoginCalls(g) \/ LoginEnds(g)

Next ==
  \/ Call \/ ReceiveLogin
  \/ \E d \in asked : Receive(d)
  \/ \E d \in again : ReceiveAgain(d)
  \/ \E c \in Calls : Expire(c)
  \/ \E t \in arriving : Schedule(t)
  \/ \E g \in Pool : Work(g)

Spec == Init /\ [][Next]_vars

\* Every call has a timeout, and goroutines run.  Calls and logins are finitely
\* many here, so what goes on at all reaches every goroutine.
Serve ==
  \/ \E c \in Calls : Expire(c)
  \/ \E t \in arriving : Schedule(t)
  \/ \E g \in Pool : Work(g)

Fairness == WF_vars(Serve)

FairSpec == Spec /\ Fairness

-----------------------------------------------------------------------------
\* Properties.

\* A goroutine that waits to send to a call that no longer reads.
Lost(g) == worker[g].kind = "answer" /\ calls[worker[g].to].at # "wait"

Tasks == arriving \union {queue[i] : i \in DOMAIN queue} \union {worker[g] : g \in Pool}

\* Calls, channels and tasks have their types, and a channel is registered
\* under the id of its call.
TypeOK ==
  /\ seq \in 0..(Modulus - 1) /\ logins \in 0..MaxLogins
  /\ calls \in Seq([id : 0..(Modulus - 1), at : {"wait", "expired", "ended"},
                    got : Calls \union {None}])
  /\ Len(calls) <= MaxCalls
  /\ \A i \in DOMAIN pending :
       pending[i] # None => pending[i] \in DOMAIN calls /\ calls[pending[i]].id = i
  /\ asked \subseteq DOMAIN calls /\ again \subseteq DOMAIN calls \ asked
  /\ \A t \in Tasks :
       /\ t.kind \in {"answer", "login", "ready", "unborn"}
       /\ t.kind = "answer" => t.of \in DOMAIN calls /\ t.to \in DOMAIN calls

\* A call gets the answer to its own request.  Ids come again after Modulus
\* calls: only an answer that is that late can reach another call.
AnswersOwnCall ==
  \A c \in DOMAIN calls :
    calls[c].got \notin {None, c} => calls[c].got + Modulus <= c

\* A goroutine of the pool is lost only to an answer that was looked up before
\* its call had removed its channel, or to one of two answers to one request: any
\* other late answer finds no channel, and no call costs a goroutine for its
\* first answer and another one.  Apart from calls that an answer has reached
\* that is late by Modulus calls.
Reused(t) == t.of + Modulus <= t.to \/ calls[t.to].got \notin {None, t.to}
LostToLateAnswers ==
  \A t \in Tasks : t.kind = "answer" =>
    \/ t.second \/ Reused(t)
    \/ /\ t.intime
       /\ \A u \in Tasks :
            u.kind = "answer" /\ u.to = t.to => u = t \/ u.second \/ Reused(u)

\* Every login and every answer that finds its channel gets a goroutine in the
\* end, as long as one of those that exist is not lost: also when the answer to
\* a login's call is in the queue behind that login, or logins fill the pool,
\* for then they time out.  A pool that is not full is no help: a task that is
\* in its queue gets no new goroutine.
Waits(kind, n) ==
  \E t \in arriving \union {queue[i] : i \in DOMAIN queue} : t.kind = kind /\ t.of = n
AllLost == \A g \in Pool : worker[g] = Unborn \/ Lost(g)

PoolLives ==
  /\ \A c \in Calls : Waits("answer", c) ~> ~Waits("answer", c) \/ AllLost
  /\ \A n \in 1..MaxLogins : Waits("login", n) ~> ~Waits("login", n) \/ AllLost
=============================================================================
