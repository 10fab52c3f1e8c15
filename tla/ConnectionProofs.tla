-------------------------- MODULE ConnectionProofs --------------------------
(***************************************************************************)
(* Proofs about what happens on the connections of clients: about the      *)
(* JSON-RPC server, for any size of the pool and its queue, any modulus of *)
(* the ids and any number of calls and logins; and about clients and their *)
(* crafting workers, for any connections and roles, whether behaviours are *)
(* followed past a race or not.  The names of the second begin with Life.  *)
(***************************************************************************)
EXTENDS RpcServer, ClientLifecycle, TLAPS

Kinds == {"answer", "login", "ready", "unborn"}
Task == [kind : Kinds, of : Nat, to : Nat, intime : BOOLEAN, second : BOOLEAN]
CallOf == [id : 0..(Modulus - 1), at : {"wait", "expired", "ended"}, got : Calls \union {None}]

Types ==
  /\ seq \in 0..(Modulus - 1) /\ logins \in 0..MaxLogins
  /\ calls \in Seq(CallOf) /\ Len(calls) <= MaxCalls
  /\ pending \in [0..(Modulus - 1) -> Nat]
  /\ asked \subseteq DOMAIN calls /\ again \subseteq DOMAIN calls \ asked
  /\ arriving \subseteq Task /\ queue \in Seq(Task) /\ worker \in [Pool -> Task]

\* A channel is registered under the id of its call, the last one with that id.
Registered ==
  \A i \in 0..(Modulus - 1) : pending[i] # None =>
    /\ pending[i] \in DOMAIN calls /\ calls[pending[i]].id = i
    /\ \A c \in DOMAIN calls : c > pending[i] => calls[c].id # i

\* The ids of the last Modulus calls, counted back from the next one.
IdsRotate ==
  \A c \in DOMAIN calls :
    /\ Len(calls) + 1 - c <= seq => calls[c].id = seq - (Len(calls) + 1 - c)
    /\ seq < Len(calls) + 1 - c /\ Len(calls) + 1 - c <= Modulus =>
         calls[c].id = seq + Modulus - (Len(calls) + 1 - c)

\* Calls with the same id are Modulus calls apart.
IdsApart ==
  \A c, d \in DOMAIN calls : c < d /\ calls[c].id = calls[d].id => c + Modulus <= d

\* An answer reaches the call it is for, or one whose id was given again.  A
\* first one comes once, and so does a second one.
AnswerOK(t) ==
  /\ t.of \in DOMAIN calls /\ t.to \in DOMAIN calls
  /\ t.of \notin asked /\ (t.second => t.of \notin again)
  /\ t.of = t.to \/ t.of + Modulus <= t.to
  /\ t.intime \/ t.second \/ Reused(t)

AnswersOK == \A t \in Tasks : t.kind = "answer" => AnswerOK(t)

AnswersDistinct ==
  \A t, u \in Tasks :
    t.kind = "answer" /\ u.kind = "answer" /\ t.of = u.of /\ t.second = u.second => t = u

\* A call that has ended and is still registered was answered, and not by its
\* own answer if that has not come yet.
EndedOK ==
  \A c \in asked : calls[c].at = "ended" /\ pending[calls[c].id] = c =>
    calls[c].got \notin {None, c}

GotOK == \A c \in DOMAIN calls : calls[c].got # None => calls[c].at = "ended"

IInv ==
  /\ Types /\ Registered /\ IdsRotate /\ IdsApart
  /\ AnswersOK /\ AnswersDistinct /\ EndedOK /\ GotOK /\ AnswersOwnCall

-----------------------------------------------------------------------------
\* The next id, without the remainder.
LEMMA NextSeqIs ==
  ASSUME NEW n \in 0..(Modulus - 1)
  PROVE  NextSeq(n) = IF n = Modulus - 1 THEN 0 ELSE n + 1
<1>1. Modulus \in Nat /\ Modulus > 0
  BY RpcAssumption
<1>2. CASE n = Modulus - 1
  BY <1>1, <1>2 DEF NextSeq
<1>3. CASE n # Modulus - 1
  BY <1>1, <1>3 DEF NextSeq
<1>. QED BY <1>2, <1>3


\* Calls as a sequence of records, field by field.
LEMMA CallsAre ==
  ASSUME Types
  PROVE  /\ Len(calls) \in Nat /\ DOMAIN calls = 1..Len(calls) /\ DOMAIN calls \subseteq Calls
         /\ \A c \in DOMAIN calls :
              /\ calls[c] \in CallOf
              /\ calls[c] = [id |-> calls[c].id, at |-> calls[c].at, got |-> calls[c].got]
<1>1. calls \in Seq(CallOf) /\ Len(calls) <= MaxCalls
  BY DEF Types
<1>2. Len(calls) \in Nat /\ DOMAIN calls = 1..Len(calls) /\ \A c \in DOMAIN calls : calls[c] \in CallOf
  BY <1>1
<1>3. \A r \in CallOf : r = [id |-> r.id, at |-> r.at, got |-> r.got]
  BY DEF CallOf
<1>. QED BY <1>1, <1>2, <1>3, RpcAssumption DEF Calls

\* A call is added with the next id.
LEMMA SendAdds ==
  ASSUME Types, NEW written \in BOOLEAN, Send(written)
  PROVE  /\ Len(calls) + 1 \in Calls
         /\ Len(calls') = Len(calls) + 1 /\ DOMAIN calls' = 1..(Len(calls) + 1)
         /\ \A c \in DOMAIN calls : calls'[c] = calls[c]
         /\ calls'[Len(calls) + 1].id = seq /\ calls'[Len(calls) + 1].got = None
         /\ calls'[Len(calls) + 1] \in CallOf
         /\ ~written => calls'[Len(calls) + 1].at = "ended"
         /\ written => calls'[Len(calls) + 1].at = "wait"
         /\ calls' \in Seq(CallOf) /\ Len(calls') <= MaxCalls
<1> DEFINE new == [id |-> seq, at |-> IF written THEN "wait" ELSE "ended", got |-> None]
<1>1. calls' = Append(calls, new) /\ Len(calls) < MaxCalls
  BY DEF Send
<1>2. new \in CallOf
  BY DEF Types, CallOf
<1>3. /\ new.id = seq /\ new.got = None
      /\ ~written => new.at = "ended"
      /\ written => new.at = "wait"
  OBVIOUS
<1>4. calls \in Seq(CallOf)
  BY DEF Types
<1> HIDE DEF new
<1>. QED BY <1>1, <1>2, <1>3, <1>4, CallsAre, RpcAssumption DEF Calls

\* What Send does to the registered channels.
LEMMA SendTypes ==
  ASSUME Types, NEW written \in BOOLEAN, Send(written)
  PROVE  /\ seq' \in 0..(Modulus - 1)
         /\ seq' = IF seq = Modulus - 1 THEN 0 ELSE seq + 1
         /\ pending' \in [0..(Modulus - 1) -> Nat]
         /\ pending'[seq] = IF written THEN Len(calls) + 1 ELSE None
         /\ \A i \in 0..(Modulus - 1) : i # seq => pending'[i] = pending[i]
         /\ asked' \subseteq DOMAIN calls'
         /\ asked' \subseteq asked \union {Len(calls) + 1}
         /\ ~written => asked' = asked
<1>1. seq \in 0..(Modulus - 1) /\ pending \in [0..(Modulus - 1) -> Nat] /\ asked \subseteq DOMAIN calls
  BY DEF Types
<1>2. Modulus \in Nat \ {0} /\ Len(calls) \in Nat /\ DOMAIN calls = 1..Len(calls)
  BY CallsAre, RpcAssumption
<1>3. DOMAIN calls' = 1..(Len(calls) + 1)
  BY SendAdds
<1>4. pending' = [pending EXCEPT ![seq] = IF written THEN Len(calls) + 1 ELSE None]
  BY DEF Send
<1>5. asked' = IF written THEN asked \union {Len(calls) + 1} ELSE asked
  BY DEF Send
<1>6. seq' = IF seq = Modulus - 1 THEN 0 ELSE seq + 1
  BY <1>1, NextSeqIs DEF Send
<1>. QED BY <1>1, <1>2, <1>3, <1>4, <1>5, <1>6 DEF None

LEMMA SendRegistered ==
  ASSUME Types, Registered, NEW written \in BOOLEAN, Send(written)
  PROVE  Registered'
<1> SUFFICES ASSUME NEW i \in 0..(Modulus - 1), pending'[i] # None
             PROVE  /\ pending'[i] \in DOMAIN calls' /\ calls'[pending'[i]].id = i
                    /\ \A c \in DOMAIN calls' : c > pending'[i] => calls'[c].id # i
  BY DEF Registered
<1>1. Len(calls) \in Nat /\ DOMAIN calls = 1..Len(calls)
  BY CallsAre
<1>2. CASE i = seq
  <2>1. pending'[i] = Len(calls) + 1
    BY <1>2, SendTypes
  <2>. QED BY <1>1, <1>2, <2>1, SendAdds
<1>3. CASE i # seq
  <2>1. /\ pending[i] \in DOMAIN calls /\ calls[pending[i]].id = i
        /\ \A c \in DOMAIN calls : c > pending[i] => calls[c].id # i
    BY <1>3, SendTypes DEF Registered
  <2>2. pending'[i] = pending[i]
    BY <1>3, SendTypes
  <2>. QED BY <1>1, <1>3, <2>1, <2>2, SendAdds
<1>. QED BY <1>2, <1>3

LEMMA SendIds ==
  ASSUME Types, IdsRotate, IdsApart, NEW written \in BOOLEAN, Send(written)
  PROVE  IdsRotate' /\ IdsApart'
<1> DEFINE n == Len(calls)
<1>1. n \in Nat /\ DOMAIN calls = 1..n /\ Len(calls') = n + 1 /\ DOMAIN calls' = 1..(n + 1)
  BY CallsAre, SendAdds
<1>2. /\ Modulus \in Nat \ {0} /\ seq \in 0..(Modulus - 1)
      /\ seq' = IF seq = Modulus - 1 THEN 0 ELSE seq + 1
  BY SendTypes, RpcAssumption DEF Types
<1>3. /\ \A c \in 1..n : calls'[c].id = calls[c].id
      /\ calls'[n + 1].id = seq
  BY <1>1, SendAdds
<1>4. \A c \in 1..n :
        /\ n + 1 - c <= seq => calls[c].id = seq - (n + 1 - c)
        /\ seq < n + 1 - c /\ n + 1 - c <= Modulus => calls[c].id = seq + Modulus - (n + 1 - c)
  BY <1>1 DEF IdsRotate
<1>5. \A c, d \in 1..n : c < d /\ calls[c].id = calls[d].id => c + Modulus <= d
  BY <1>1 DEF IdsApart
<1> HIDE DEF n
<1>6. ASSUME NEW c \in 1..(n + 1)
      PROVE  /\ n + 2 - c <= seq' => calls'[c].id = seq' - (n + 2 - c)
             /\ seq' < n + 2 - c /\ n + 2 - c <= Modulus =>
                  calls'[c].id = seq' + Modulus - (n + 2 - c)
  <2>1. CASE c = n + 1
    BY <1>1, <1>2, <1>3, <2>1
  <2>2. CASE c \in 1..n
    BY <1>1, <1>2, <1>3, <1>4, <2>2
  <2>. QED BY <1>1, <2>1, <2>2
<1>7. ASSUME NEW c \in 1..n, calls[c].id = seq
      PROVE  c + Modulus <= n + 1
  <2>1. PICK k \in 1..n : k = n + 1 - c
    BY <1>1
  <2>2. /\ k <= seq => calls[c].id = seq - k
        /\ seq < k /\ k <= Modulus => calls[c].id = seq + Modulus - k
    BY <1>4, <2>1
  <2>3. k >= Modulus
    BY <1>1, <1>2, <1>7, <2>2
  <2>. QED BY <1>1, <1>2, <2>1, <2>3
<1>8. \A c, d \in 1..(n + 1) : c < d /\ calls'[c].id = calls'[d].id => c + Modulus <= d
  BY <1>1, <1>3, <1>5, <1>7
<1>9. n + 1 + 1 = n + 2
  BY <1>1
<1>. QED BY <1>1, <1>6, <1>8, <1>9 DEF IdsRotate, IdsApart

LEMMA SendEnds ==
  ASSUME Types, EndedOK, GotOK, AnswersOwnCall, NEW written \in BOOLEAN, Send(written)
  PROVE  EndedOK' /\ GotOK' /\ AnswersOwnCall'
<1>1. Len(calls) \in Nat /\ DOMAIN calls = 1..Len(calls) /\ DOMAIN calls' = 1..(Len(calls) + 1)
  BY CallsAre, SendAdds
<1>2. /\ \A c \in DOMAIN calls : calls'[c] = calls[c] /\ calls[c].id \in 0..(Modulus - 1)
      /\ calls'[Len(calls) + 1].got = None
      /\ written => calls'[Len(calls) + 1].at = "wait"
  BY CallsAre, SendAdds DEF CallOf
<1>3. ASSUME NEW c \in asked', calls'[c].at = "ended", pending'[calls'[c].id] = c
      PROVE  calls'[c].got \notin {None, c}
  <2>1. c \in DOMAIN calls /\ c \in asked
    BY <1>1, <1>2, <1>3, SendTypes DEF Types
  <2>2. calls'[c] = calls[c] /\ calls[c].id \in 0..(Modulus - 1)
    BY <1>2, <2>1
  <2>3. pending[calls[c].id] = c
    BY <1>1, <1>3, <2>1, <2>2, SendTypes DEF None
  <2>. QED BY <1>3, <2>1, <2>2, <2>3 DEF EndedOK
<1>4. GotOK' /\ AnswersOwnCall'
  BY <1>1, <1>2 DEF GotOK, AnswersOwnCall
<1>. QED BY <1>3, <1>4 DEF EndedOK

-----------------------------------------------------------------------------
\* A call that waits no longer: it is marked as expired or ended.
LEMMA MarkTypes ==
  ASSUME Types, NEW c \in DOMAIN calls, NEW at \in {"expired", "ended"},
         calls' = [calls EXCEPT ![c].at = at]
  PROVE  /\ calls' \in Seq(CallOf) /\ Len(calls') = Len(calls) /\ DOMAIN calls' = DOMAIN calls
         /\ \A d \in DOMAIN calls : calls'[d].id = calls[d].id /\ calls'[d].got = calls[d].got
         /\ \A d \in DOMAIN calls \ {c} : calls'[d] = calls[d]
         /\ calls'[c].at = at
<1> DEFINE new == [calls[c] EXCEPT !.at = at]
<1>1. /\ calls[c] \in CallOf
      /\ calls[c] = [id |-> calls[c].id, at |-> calls[c].at, got |-> calls[c].got]
  BY CallsAre
<1>2. new \in CallOf /\ new.id = calls[c].id /\ new.got = calls[c].got /\ new.at = at
  BY <1>1 DEF CallOf
<1>3. calls' = [calls EXCEPT ![c] = new] /\ calls \in Seq(CallOf)
  BY DEF Types
<1> HIDE DEF new
<1>. QED BY <1>2, <1>3

\* A call that waits gets an answer.
LEMMA DeliverTypes ==
  ASSUME Types, NEW c \in DOMAIN calls, NEW d \in DOMAIN calls,
         calls' = [calls EXCEPT ![c] = [id |-> @.id, at |-> "ended", got |-> d]]
  PROVE  /\ calls' \in Seq(CallOf) /\ Len(calls') = Len(calls) /\ DOMAIN calls' = DOMAIN calls
         /\ \A b \in DOMAIN calls : calls'[b].id = calls[b].id
         /\ \A b \in DOMAIN calls \ {c} : calls'[b] = calls[b]
         /\ calls'[c].at = "ended" /\ calls'[c].got = d
<1> DEFINE new == [id |-> calls[c].id, at |-> "ended", got |-> d]
<1>1. /\ calls[c] \in CallOf /\ d \in Calls
      /\ calls[c] = [id |-> calls[c].id, at |-> calls[c].at, got |-> calls[c].got]
  BY CallsAre
<1>2. new \in CallOf /\ new.id = calls[c].id /\ new.got = d /\ new.at = "ended"
  BY <1>1 DEF CallOf
<1>3. calls \in Seq(CallOf) /\ DOMAIN calls = 1..Len(calls)
  BY CallsAre DEF Types
<1>4. calls' = [calls EXCEPT ![c] = new]
  BY <1>3
<1> HIDE DEF new
<1>5. /\ calls' \in Seq(CallOf) /\ Len(calls') = Len(calls) /\ DOMAIN calls' = DOMAIN calls
      /\ calls'[c] = new
      /\ \A b \in DOMAIN calls \ {c} : calls'[b] = calls[b]
  BY <1>2, <1>3, <1>4
<1>. QED BY <1>2, <1>5

\* Answers that are under way stay what they are while their calls keep what
\* they have got.
LEMMA AnswersKept ==
  ASSUME AnswersOK, AnswersDistinct,
         \A t \in Tasks' : t.kind = "answer" => t \in Tasks,
         DOMAIN calls \subseteq DOMAIN calls',
         \A c \in DOMAIN calls : calls[c].got # None => calls'[c].got = calls[c].got,
         \A c \in DOMAIN calls : c \in asked' => c \in asked,
         again' = again
  PROVE  AnswersOK' /\ AnswersDistinct'
<1>1. ASSUME NEW t \in Tasks', t.kind = "answer"
      PROVE  AnswerOK(t)'
  <2>1. AnswerOK(t)
    BY <1>1 DEF AnswersOK
  <2>. QED BY <2>1 DEF AnswerOK, Reused
<1>. QED BY <1>1 DEF AnswersOK, AnswersDistinct

\* The tasks in a sequence.
LEMMA QueueTasks ==
  ASSUME NEW s \in Seq(Task)
  PROVE  /\ \A t \in Task : /\ Append(s, t) \in Seq(Task)
                            /\ \A i \in DOMAIN Append(s, t) :
                                 Append(s, t)[i] = t \/ \E j \in DOMAIN s : Append(s, t)[i] = s[j]
         /\ s # <<>> =>
              /\ Tail(s) \in Seq(Task) /\ Head(s) \in Task
              /\ \E j \in DOMAIN s : Head(s) = s[j]
              /\ \A i \in DOMAIN Tail(s) : \E j \in DOMAIN s : Tail(s)[i] = s[j]
<1>1. ASSUME NEW t \in Task, NEW i \in DOMAIN Append(s, t)
      PROVE  Append(s, t)[i] = t \/ \E j \in DOMAIN s : Append(s, t)[i] = s[j]
  <2>1. CASE i = Len(s) + 1
    BY <2>1
  <2>2. CASE i \in DOMAIN s
    BY <2>2
  <2>. QED BY <1>1, <2>1, <2>2
<1>2. ASSUME s # <<>>
      PROVE  /\ Tail(s) \in Seq(Task) /\ Head(s) \in Task
             /\ \E j \in DOMAIN s : Head(s) = s[j]
  <2>1. 1 \in DOMAIN s
    BY <1>2
  <2>. QED BY <1>2, <2>1
<1>3. ASSUME s # <<>>, NEW i \in DOMAIN Tail(s)
      PROVE  \E j \in DOMAIN s : Tail(s)[i] = s[j]
  <2>1. i + 1 \in DOMAIN s /\ Tail(s)[i] = s[i + 1]
    BY <1>3
  <2>. QED BY <2>1
<1>. QED BY <1>1, <1>2, <1>3

\* The task of a goroutine, and what it may become.
LEMMA WorkerTasks ==
  ASSUME Types, NEW g \in Pool, NEW t \in Task, worker' = [worker EXCEPT ![g] = t]
  PROVE  worker' \in [Pool -> Task] /\ \A f \in Pool : worker'[f] = t \/ worker'[f] = worker[f]
BY DEF Types

LEMMA TasksAre ==
  Ready \in Task /\ Unborn \in Task /\ \A n \in Nat : Login(n) \in Task
BY DEF Ready, Unborn, Login, TaskOf, Task, Kinds, None

\* A step of the pool that touches no call.
LEMMA QuietKeeps ==
  ASSUME IInv, UNCHANGED <<seq, calls, pending, asked, again>>, logins' \in 0..MaxLogins,
         arriving' \subseteq Task, queue' \in Seq(Task), worker' \in [Pool -> Task],
         \A t \in Tasks' : t.kind = "answer" => t \in Tasks
  PROVE  IInv'
<1>1. AnswersOK' /\ AnswersDistinct'
  BY AnswersKept DEF IInv
<1>2. Types' /\ Registered' /\ IdsRotate' /\ IdsApart' /\ EndedOK' /\ GotOK' /\ AnswersOwnCall'
  BY DEF IInv, Types, Registered, IdsRotate, IdsApart, EndedOK, GotOK, AnswersOwnCall
<1>. QED BY <1>1, <1>2 DEF IInv

\* A call is made, by a goroutine of the pool or another.
LEMMA SendKeeps ==
  ASSUME IInv, NEW written \in BOOLEAN, Send(written),
         again' = again, logins' = logins, arriving' = arriving, queue' = queue,
         worker' \in [Pool -> Task],
         \A t \in Tasks' : t.kind = "answer" => t \in Tasks
  PROVE  IInv'
<1>1. Types'
  BY SendAdds, SendTypes DEF IInv, Types
<1>2. DOMAIN calls = 1..Len(calls) /\ Len(calls) \in Nat
  BY CallsAre DEF IInv
<1>3. /\ DOMAIN calls \subseteq DOMAIN calls'
      /\ \A c \in DOMAIN calls : calls[c].got # None => calls'[c].got = calls[c].got
  BY <1>2, SendAdds DEF IInv
<1>4. \A c \in DOMAIN calls : c \in asked' => c \in asked
  BY <1>2, SendTypes DEF IInv
<1>5. AnswersOK' /\ AnswersDistinct'
  BY <1>3, <1>4, AnswersKept DEF IInv
<1>6. Registered' /\ IdsRotate' /\ IdsApart' /\ EndedOK' /\ GotOK' /\ AnswersOwnCall'
  BY SendRegistered, SendIds, SendEnds DEF IInv
<1>. QED BY <1>1, <1>5, <1>6 DEF IInv

\* Ids stay what they are when a call is marked or answered.
LEMMA IdsKept ==
  ASSUME IdsRotate, IdsApart, seq' = seq, Len(calls') = Len(calls), DOMAIN calls' = DOMAIN calls,
         \A c \in DOMAIN calls : calls'[c].id = calls[c].id
  PROVE  IdsRotate' /\ IdsApart'
BY DEF IdsRotate, IdsApart

LEMMA TimeoutKeeps ==
  ASSUME IInv, NEW c \in DOMAIN calls, Timeout(c)
  PROVE  IInv'
<1>1. /\ calls[c].at = "wait" /\ calls' = [calls EXCEPT ![c].at = "expired"]
      /\ UNCHANGED <<seq, pending, asked, again, logins, arriving, queue, worker>>
  BY DEF Timeout, pool
<1>2. /\ calls' \in Seq(CallOf) /\ Len(calls') = Len(calls) /\ DOMAIN calls' = DOMAIN calls
      /\ \A d \in DOMAIN calls : calls'[d].id = calls[d].id /\ calls'[d].got = calls[d].got
      /\ \A d \in DOMAIN calls \ {c} : calls'[d] = calls[d]
      /\ calls'[c].at = "expired"
  BY <1>1, MarkTypes DEF IInv
<1>3. Types' /\ Registered'
  BY <1>1, <1>2 DEF IInv, Types, Registered
<1>4. IdsRotate' /\ IdsApart'
  BY <1>1, <1>2, IdsKept DEF IInv
<1>5. AnswersOK' /\ AnswersDistinct'
  BY <1>1, <1>2, AnswersKept DEF IInv, Tasks
<1>6. EndedOK'
  BY <1>1, <1>2 DEF IInv, Types, EndedOK
<1>7. GotOK' /\ AnswersOwnCall'
  BY <1>1, <1>2 DEF IInv, GotOK, AnswersOwnCall
<1>. QED BY <1>3, <1>4, <1>5, <1>6, <1>7 DEF IInv

LEMMA ForgetKeeps ==
  ASSUME IInv, NEW c \in DOMAIN calls, Forget(c)
  PROVE  IInv'
<1>1. /\ calls[c].at = "expired" /\ calls' = [calls EXCEPT ![c].at = "ended"]
      /\ pending' = [pending EXCEPT ![calls[c].id] = None]
      /\ UNCHANGED <<seq, asked, again, logins, arriving, queue, worker>>
  BY DEF Forget, pool
<1>2. /\ calls' \in Seq(CallOf) /\ Len(calls') = Len(calls) /\ DOMAIN calls' = DOMAIN calls
      /\ \A d \in DOMAIN calls : calls'[d].id = calls[d].id /\ calls'[d].got = calls[d].got
      /\ \A d \in DOMAIN calls \ {c} : calls'[d] = calls[d]
      /\ calls'[c].at = "ended"
  BY <1>1, MarkTypes DEF IInv
<1>3. /\ pending' \in [0..(Modulus - 1) -> Nat]
      /\ \A i \in 0..(Modulus - 1) : pending'[i] = None \/ pending'[i] = pending[i]
      /\ pending'[calls[c].id] = None
  <2>1. calls[c].id \in 0..(Modulus - 1)
    BY CallsAre DEF IInv, CallOf
  <2>. QED BY <1>1, <2>1 DEF IInv, Types, None
<1>4. Types' /\ Registered'
  BY <1>1, <1>2, <1>3 DEF IInv, Types, Registered
<1>5. IdsRotate' /\ IdsApart'
  BY <1>1, <1>2, IdsKept DEF IInv
<1>6. AnswersOK' /\ AnswersDistinct'
  BY <1>1, <1>2, AnswersKept DEF IInv, Tasks
<1>7. EndedOK'
  <2>1. SUFFICES ASSUME NEW d \in asked, calls'[d].at = "ended", pending'[calls'[d].id] = d
                 PROVE  calls'[d].got \notin {None, d}
    BY <1>1 DEF EndedOK
  <2>2. d \in DOMAIN calls /\ d # None /\ calls[d].id \in 0..(Modulus - 1)
    BY CallsAre DEF IInv, Types, CallOf, None
  <2>3. pending'[calls[d].id] = d
    BY <1>2, <2>1, <2>2
  <2>4. d # c /\ pending[calls[d].id] = d
    BY <1>3, <2>2, <2>3
  <2>. QED BY <1>2, <2>1, <2>2, <2>4 DEF IInv, EndedOK
<1>8. GotOK' /\ AnswersOwnCall'
  BY <1>1, <1>2 DEF IInv, GotOK, AnswersOwnCall
<1>. QED BY <1>4, <1>5, <1>6, <1>7, <1>8 DEF IInv

\* An answer is read and its channel looked up.
LEMMA LookUpKeeps ==
  ASSUME IInv, NEW d \in DOMAIN calls, NEW second \in BOOLEAN, LookUp(d, second),
         asked' \subseteq asked, d \notin asked',
         again' \subseteq DOMAIN calls \ asked', again' \subseteq again \union {d},
         second => d \in again /\ d \notin again',
         ~second => d \in asked
  PROVE  IInv'
<1>1. PICK to : to = pending[calls[d].id]
  OBVIOUS
<1>2. PICK t : t = [kind |-> "answer", of |-> d, to |-> to,
                    intime |-> calls[to].at # "ended", second |-> second]
  OBVIOUS
<1>3. /\ arriving' = IF to = None THEN arriving ELSE arriving \union {t}
      /\ UNCHANGED <<seq, calls, pending, logins, queue, worker>>
  BY <1>1, <1>2 DEF LookUp, Answer
<1>4. /\ d # None /\ calls[d].id \in 0..(Modulus - 1)
      /\ DOMAIN calls \subseteq Nat
  BY CallsAre DEF IInv, Types, CallOf, None
<1>5. /\ t.kind = "answer" /\ t.of = d /\ t.to = to /\ t.intime = (calls[to].at # "ended")
      /\ t.second = second
  BY <1>2
<1>6. ASSUME to # None
      PROVE  t \in Task /\ AnswerOK(t)'
  <2>1. to \in DOMAIN calls /\ calls[to].id = calls[d].id /\ d <= to
    BY <1>1, <1>4, <1>6 DEF IInv, Registered
  <2>2. d = to \/ d + Modulus <= to
    BY <1>4, <2>1 DEF IInv, IdsApart
  <2>3. (calls[to].at # "ended") \in BOOLEAN
    OBVIOUS
  <2>4. t \in Task
    BY <1>2, <1>4, <2>1, <2>3 DEF Task, Kinds
  <2>5. t.intime \/ t.second \/ Reused(t)
    <3>1. CASE d = to /\ ~second
      <4>1. calls[d].at # "ended" \/ calls[d].got \notin {None, d}
        BY <1>1, <3>1 DEF IInv, EndedOK
      <4>. QED BY <1>5, <3>1, <4>1 DEF Reused
    <3>2. CASE d + Modulus <= to
      BY <1>5, <3>2 DEF Reused
    <3>3. CASE second
      BY <1>5, <3>3
    <3>. QED BY <2>2, <3>1, <3>2, <3>3
  <2>6. t.intime \/ t.second \/ Reused(t)'
    BY <1>3, <2>5 DEF Reused
  <2>7. t.of \notin asked' /\ (t.second => t.of \notin again')
    BY <1>5
  <2>. QED BY <1>3, <1>4, <1>5, <2>1, <2>2, <2>4, <2>6, <2>7 DEF AnswerOK
<1>7. /\ to # None => Tasks' = Tasks \union {t}
      /\ to = None => Tasks' = Tasks
  BY <1>3 DEF Tasks
<1>8. Types'
  BY <1>3, <1>6 DEF IInv, Types
<1>9. ASSUME NEW u \in Tasks, u.kind = "answer"
      PROVE  AnswerOK(u)' /\ ~(u.of = d /\ u.second = second)
  <2>1. AnswerOK(u)
    BY <1>9 DEF IInv, AnswersOK
  <2>2. u.of = d => d \notin asked /\ (u.second => d \notin again)
    BY <2>1 DEF AnswerOK
  <2>3. u.intime \/ u.second \/ Reused(u)'
    BY <1>3, <2>1 DEF AnswerOK, Reused
  <2>4. ~(u.of = d /\ u.second = second)
    BY <2>2
  <2>5. u.of \notin asked' /\ (u.second => u.of \notin again')
    BY <2>1, <2>2 DEF AnswerOK
  <2>. QED BY <1>3, <2>1, <2>3, <2>4, <2>5 DEF AnswerOK
<1>10. AnswersOK'
  BY <1>6, <1>7, <1>9 DEF AnswersOK
<1>11. AnswersDistinct'
  BY <1>5, <1>7, <1>9 DEF IInv, AnswersDistinct
<1>12. EndedOK'
  BY <1>3 DEF IInv, EndedOK
<1>13. Registered' /\ IdsRotate' /\ IdsApart' /\ GotOK' /\ AnswersOwnCall'
  BY <1>3 DEF IInv, Registered, IdsRotate, IdsApart, GotOK, AnswersOwnCall
<1>. QED BY <1>8, <1>10, <1>11, <1>12, <1>13 DEF IInv

LEMMA ReceiveKeeps ==
  ASSUME IInv, NEW d \in asked, Receive(d)
  PROVE  IInv'
<1>1. /\ asked' = asked \ {d} /\ LookUp(d, FALSE)
      /\ again' = IF d \in Twice THEN again \union {d} ELSE again
  BY DEF Receive
<1>2. d \in DOMAIN calls /\ asked \subseteq DOMAIN calls /\ again \subseteq DOMAIN calls \ asked
  BY DEF IInv, Types
<1>. QED BY <1>1, <1>2, LookUpKeeps

LEMMA ReceiveAgainKeeps ==
  ASSUME IInv, NEW d \in again, ReceiveAgain(d)
  PROVE  IInv'
<1>1. again' = again \ {d} /\ LookUp(d, TRUE) /\ asked' = asked
  BY DEF ReceiveAgain
<1>2. d \in DOMAIN calls /\ again \subseteq DOMAIN calls \ asked
  BY DEF IInv, Types
<1>. QED BY <1>1, <1>2, LookUpKeeps

\* An answer reaches a call that waits: its own, or one whose id was given again.
LEMMA DeliverKeeps ==
  ASSUME IInv, NEW g \in Pool, Deliver(g)
  PROVE  IInv'
<1> DEFINE t == worker[g]
<1>1. /\ t.kind = "answer" /\ calls[t.to].at = "wait"
      /\ calls' = [calls EXCEPT ![t.to] = [id |-> @.id, at |-> "ended", got |-> t.of]]
      /\ worker' = [worker EXCEPT ![g] = Ready]
      /\ UNCHANGED <<seq, pending, asked, again, logins, arriving, queue>>
  BY DEF Deliver
<1>2. t \in Tasks
  BY DEF Tasks
<1>3. AnswerOK(t)
  BY <1>1, <1>2 DEF IInv, AnswersOK
<1> HIDE DEF t
<1>4. /\ t.of \in DOMAIN calls /\ t.to \in DOMAIN calls /\ t.of \notin asked
      /\ t.of = t.to \/ t.of + Modulus <= t.to
      /\ DOMAIN calls \subseteq Nat \ {None} /\ Modulus \in Nat \ {0}
  BY <1>3, CallsAre, RpcAssumption DEF IInv, AnswerOK, None
<1>5. /\ calls' \in Seq(CallOf) /\ Len(calls') = Len(calls) /\ DOMAIN calls' = DOMAIN calls
      /\ \A b \in DOMAIN calls : calls'[b].id = calls[b].id
      /\ \A b \in DOMAIN calls \ {t.to} : calls'[b] = calls[b]
      /\ calls'[t.to].at = "ended" /\ calls'[t.to].got = t.of
  BY <1>1, <1>4, DeliverTypes DEF IInv
<1>6. /\ worker' \in [Pool -> Task]
      /\ \A f \in Pool : worker'[f] = Ready \/ worker'[f] = worker[f]
  BY <1>1, WorkerTasks, TasksAre DEF IInv
<1>7. \A u \in Tasks' : u.kind = "answer" => u \in Tasks
  BY <1>1, <1>6 DEF Tasks, Ready, TaskOf
<1>8. Types' /\ Registered'
  BY <1>1, <1>5, <1>6 DEF IInv, Types, Registered
<1>9. IdsRotate' /\ IdsApart'
  BY <1>1, <1>5, IdsKept DEF IInv
<1>10. calls[t.to].got = None
  BY <1>1, <1>4 DEF IInv, GotOK
<1>11. AnswersOK' /\ AnswersDistinct'
  BY <1>1, <1>5, <1>7, <1>10, AnswersKept DEF IInv
<1>12. EndedOK'
  BY <1>1, <1>4, <1>5 DEF IInv, Types, EndedOK
<1>13. GotOK' /\ AnswersOwnCall'
  BY <1>4, <1>5 DEF IInv, GotOK, AnswersOwnCall
<1>. QED BY <1>8, <1>9, <1>11, <1>12, <1>13 DEF IInv

\* The other steps of goroutines.
LEMMA ScheduleKeeps ==
  ASSUME IInv, NEW t \in arriving, Schedule(t)
  PROVE  IInv'
<1>1. /\ t \in Task /\ arriving' \subseteq Task /\ arriving' \subseteq arriving
      /\ UNCHANGED <<seq, calls, pending, asked, again, logins>>
  BY DEF IInv, Types, Schedule
<1>2. t \in Tasks
  BY DEF Tasks
<1>3. queue \in Seq(Task) /\ worker \in [Pool -> Task] /\ logins \in 0..MaxLogins
  BY DEF IInv, Types
<1>4. CASE queue' = Append(queue, t) /\ worker' = worker
  <2>1. queue' \in Seq(Task) /\ \A i \in DOMAIN queue' : queue'[i] = t \/ \E j \in DOMAIN queue : queue'[i] = queue[j]
    BY <1>1, <1>3, <1>4, QueueTasks
  <2>2. Tasks' \subseteq Tasks
    BY <1>1, <1>2, <1>4, <2>1 DEF Tasks
  <2>. QED BY <1>1, <1>3, <1>4, <2>1, <2>2, QuietKeeps
<1>5. CASE queue' = queue /\ \E g \in Pool : worker' = [worker EXCEPT ![g] = t]
  <2>1. worker' \in [Pool -> Task] /\ \A f \in Pool : worker'[f] = t \/ worker'[f] = worker[f]
    BY <1>1, <1>5, WorkerTasks DEF IInv
  <2>2. Tasks' \subseteq Tasks
    BY <1>1, <1>2, <1>5, <2>1 DEF Tasks
  <2>. QED BY <1>1, <1>3, <1>5, <2>1, <2>2, QuietKeeps
<1>. QED BY <1>4, <1>5 DEF Schedule

LEMMA WorkKeeps ==
  ASSUME IInv, NEW g \in Pool, Work(g)
  PROVE  IInv'
<1>1. queue \in Seq(Task) /\ worker \in [Pool -> Task] /\ logins \in 0..MaxLogins /\ arriving \subseteq Task
  BY DEF IInv, Types
<1>2. CASE Take(g)
  <2>1. /\ queue # <<>> /\ queue' = Tail(queue) /\ worker' = [worker EXCEPT ![g] = Head(queue)]
        /\ UNCHANGED <<seq, calls, pending, asked, again, logins, arriving>>
    BY <1>2 DEF Take
  <2>2. /\ Tail(queue) \in Seq(Task) /\ Head(queue) \in Task
        /\ \E j \in DOMAIN queue : Head(queue) = queue[j]
        /\ \A i \in DOMAIN Tail(queue) : \E j \in DOMAIN queue : Tail(queue)[i] = queue[j]
    BY <1>1, <2>1, QueueTasks
  <2>3. /\ worker' \in [Pool -> Task]
        /\ \A f \in Pool : worker'[f] = Head(queue) \/ worker'[f] = worker[f]
    BY <2>1, <2>2, WorkerTasks DEF IInv
  <2>4. Tasks' \subseteq Tasks
    BY <2>1, <2>2, <2>3 DEF Tasks
  <2>. QED BY <1>1, <2>1, <2>2, <2>3, <2>4, QuietKeeps
<1>3. CASE Deliver(g)
  BY <1>3, DeliverKeeps
<1>4. CASE LoginCalls(g)
  <2>1. PICK written \in BOOLEAN : Send(written)
    BY <1>4 DEF LoginCalls
  <2>2. /\ worker' = [worker EXCEPT ![g].to = Len(calls')] /\ worker[g].kind = "login"
        /\ UNCHANGED <<again, logins, arriving, queue>>
    BY <1>4 DEF LoginCalls
  <2>3. Len(calls') \in Nat
    BY <2>1, SendAdds, CallsAre DEF IInv
  <2> DEFINE t == [worker[g] EXCEPT !.to = Len(calls')]
  <2>4. t \in Task /\ t.kind = "login"
    <3>1. worker[g] \in Task
      BY <1>1
    <3>. QED BY <2>2, <2>3, <3>1 DEF Task
  <2>5. worker' = [worker EXCEPT ![g] = t]
    BY <2>2
  <2> HIDE DEF t
  <2>6. worker' \in [Pool -> Task] /\ \A f \in Pool : worker'[f] = t \/ worker'[f] = worker[f]
    BY <2>4, <2>5, WorkerTasks DEF IInv
  <2>7. \A u \in Tasks' : u.kind = "answer" => u \in Tasks
    BY <2>2, <2>4, <2>6 DEF Tasks
  <2>. QED BY <2>1, <2>2, <2>6, <2>7, SendKeeps
<1>5. CASE LoginEnds(g)
  <2>1. /\ worker' = [worker EXCEPT ![g] = Ready]
        /\ UNCHANGED <<seq, calls, pending, asked, again, logins, arriving, queue>>
    BY <1>5 DEF LoginEnds
  <2>2. worker' \in [Pool -> Task] /\ \A f \in Pool : worker'[f] = Ready \/ worker'[f] = worker[f]
    BY <2>1, WorkerTasks, TasksAre DEF IInv
  <2>3. \A u \in Tasks' : u.kind = "answer" => u \in Tasks
    BY <2>1, <2>2 DEF Tasks, Ready, TaskOf
  <2>. QED BY <1>1, <2>1, <2>2, <2>3, QuietKeeps
<1>. QED BY <1>2, <1>3, <1>4, <1>5 DEF Work

-----------------------------------------------------------------------------
LEMMA InitIInv == Init => IInv
<1> SUFFICES ASSUME Init PROVE IInv
  OBVIOUS
<1>1. /\ seq = 0 /\ calls = <<>> /\ asked = {} /\ again = {} /\ logins = 0 /\ arriving = {} /\ queue = <<>>
      /\ pending = [i \in 0..(Modulus - 1) |-> None]
      /\ worker = [g \in Pool |-> IF g = 1 THEN Ready ELSE Unborn]
  BY DEF Init
<1>2. Types
  BY <1>1, TasksAre, RpcAssumption DEF Types, None
<1>3. DOMAIN calls = {}
  BY <1>1
<1>4. \A t \in Tasks : t.kind # "answer"
  BY <1>1 DEF Tasks, Ready, Unborn, TaskOf
<1>5. Registered /\ IdsRotate /\ IdsApart /\ EndedOK /\ GotOK /\ AnswersOwnCall
  BY <1>1, <1>3 DEF Registered, IdsRotate, IdsApart, EndedOK, GotOK, AnswersOwnCall
<1>6. AnswersOK /\ AnswersDistinct
  BY <1>4 DEF AnswersOK, AnswersDistinct
<1>. QED BY <1>2, <1>5, <1>6 DEF IInv

LEMMA NextIInv == IInv /\ [Next]_vars => IInv'
<1> SUFFICES ASSUME IInv, [Next]_vars PROVE IInv'
  OBVIOUS
<1>1. logins \in 0..MaxLogins /\ arriving \subseteq Task /\ queue \in Seq(Task) /\ worker \in [Pool -> Task]
  BY DEF IInv, Types
<1>2. CASE Call
  <2>1. PICK written \in BOOLEAN : Send(written)
    BY <1>2 DEF Call
  <2>2. UNCHANGED <<again, logins, arriving, queue, worker>>
    BY <1>2 DEF Call, pool
  <2>3. Tasks' = Tasks
    BY <2>2 DEF Tasks
  <2>. QED BY <1>1, <2>1, <2>2, <2>3, SendKeeps
<1>3. CASE ReceiveLogin
  <2>1. PICK t : t = Login(logins + 1)
    OBVIOUS
  <2>2. t \in Task /\ t.kind = "login"
    BY <1>1, <2>1, TasksAre, RpcAssumption DEF Login, TaskOf
  <2>3. /\ arriving' = arriving \union {t} /\ logins' \in 0..MaxLogins
        /\ UNCHANGED <<seq, calls, pending, asked, again, queue, worker>>
    BY <1>1, <1>3, <2>1, RpcAssumption DEF ReceiveLogin
  <2>4. Tasks' = Tasks \union {t}
    BY <2>3 DEF Tasks
  <2>. QED BY <1>1, <2>2, <2>3, <2>4, QuietKeeps
<1>4. ASSUME NEW c \in Calls, Expire(c) PROVE IInv'
  BY <1>4, TimeoutKeeps, ForgetKeeps DEF Expire
<1>5. ASSUME NEW d \in asked, Receive(d) PROVE IInv'
  BY <1>5, ReceiveKeeps
<1>9. ASSUME NEW d \in again, ReceiveAgain(d) PROVE IInv'
  BY <1>9, ReceiveAgainKeeps
<1>6. ASSUME NEW t \in arriving, Schedule(t) PROVE IInv'
  BY <1>6, ScheduleKeeps
<1>7. ASSUME NEW g \in Pool, Work(g) PROVE IInv'
  BY <1>7, WorkKeeps
<1>8. CASE UNCHANGED vars
  <2>1. UNCHANGED <<seq, calls, pending, asked, again, logins, arriving, queue, worker>>
    BY <1>8 DEF vars, pool
  <2>2. Tasks' = Tasks
    BY <2>1 DEF Tasks
  <2>. QED BY <1>1, <2>1, <2>2, QuietKeeps
<1>. QED BY <1>2, <1>3, <1>4, <1>5, <1>9, <1>6, <1>7, <1>8 DEF Next

\* For any pool, queue and modulus, calls, channels and tasks keep their types:
\* a channel is never registered under an id that is not its call's.
THEOREM TypeCorrect == Spec => []TypeOK
<1>1. IInv => TypeOK
  <2> SUFFICES ASSUME IInv PROVE TypeOK
    OBVIOUS
  <2>1. \A t \in Tasks : t \in Task
    BY DEF IInv, Types, Tasks
  <2>2. \A t \in Tasks : t.kind \in {"answer", "login", "ready", "unborn"}
    BY <2>1 DEF Task, Kinds
  <2>3. \A t \in Tasks : t.kind = "answer" => t.of \in DOMAIN calls /\ t.to \in DOMAIN calls
    BY DEF IInv, AnswersOK, AnswerOK
  <2>4. DOMAIN pending = 0..(Modulus - 1)
    BY DEF IInv, Types
  <2>. QED BY <2>2, <2>3, <2>4 DEF IInv, Types, Registered, TypeOK, CallOf
<1>. QED BY <1>1, InitIInv, NextIInv, PTL DEF Spec

\* A call never gets the answer to another one, unless Modulus calls have been
\* made in between: however late answers come and whatever is lost.
THEOREM OwnAnswers == Spec => []AnswersOwnCall
<1>1. IInv => AnswersOwnCall
  BY DEF IInv
<1>. QED BY <1>1, InitIInv, NextIInv, PTL DEF Spec

\* A goroutine of the pool can be lost only to an answer that was looked up
\* before its call had given up, and only one first answer for each call, or to a
\* second answer to one request, unless an id was given again.
THEOREM LateAnswersLose == Spec => []LostToLateAnswers
<1>1. IInv => LostToLateAnswers
  <2> SUFFICES ASSUME IInv, NEW t \in Tasks, t.kind = "answer", ~t.second, ~Reused(t)
               PROVE  /\ t.intime
                      /\ \A u \in Tasks :
                           u.kind = "answer" /\ u.to = t.to => u = t \/ u.second \/ Reused(u)
    BY DEF LostToLateAnswers
  <2>1. t.intime /\ t.of = t.to
    BY DEF IInv, AnswersOK, AnswerOK, Reused
  <2>2. ASSUME NEW u \in Tasks, u.kind = "answer", u.to = t.to, ~u.second, ~Reused(u)
        PROVE  u = t
    <3>1. u.of = u.to
      BY <2>2 DEF IInv, AnswersOK, AnswerOK, Reused
    <3>2. t \in Task /\ u \in Task
      BY DEF IInv, Types, Tasks
    <3>3. t.second = u.second
      BY <2>2, <3>2 DEF Task
    <3>. QED BY <2>1, <2>2, <3>1, <3>3 DEF IInv, AnswersDistinct
  <2>. QED BY <2>1, <2>2
<1>. QED BY <1>1, InitIInv, NextIInv, PTL DEF Spec

-----------------------------------------------------------------------------
\* The life cycles.

LifeTypes ==
  /\ LifeTypeOK
  /\ fmu \in Conns \union {Nobody}
  /\ victim \in [Conns -> Conns \union {Nobody}]
  /\ down \in BOOLEAN /\ crossed \in BOOLEAN

\* A role's worker is the last one made for it, by a registration that is done,
\* and it stays while a registration holds the factory's lock to stop it.  Only
\* a connection that has come is removed.
Owned ==
  /\ \A r \in Roles :
       /\ workers[r] # Nobody => workers[r] = latest[r]
       /\ latest[r] # Nobody => RoleOf[latest[r]] = r /\ reg[latest[r]] = "done"
  /\ \A c \in Conns : reg[c] \in {"stop", "send"} => workers[RoleOf[c]] # Nobody
  /\ \A c \in Conns : rem[c] # "none" => reg[c] # "none"

\* A registration waits for the worker to end.
BeingReplaced(w) == \E x \in Conns : reg[x] = "send" /\ workers[RoleOf[x]] = w

\* How far a connection's registration, its worker and its removal are, as long
\* as none of the races has happened.
InStep(c) ==
  /\ c \in clients <=> reg[c] \in {"announce", "stop", "send", "done"} /\ rem[c] # "gone"
  /\ reg[c] \in {"announce", "stop", "send"} => rem[c] \in {"none", "begin", "look"}
  /\ rem[c] \in {"stop", "send", "delete"} => victim[c] = c /\ reg[c] = "done"
  /\ reg[c] # "done" => run[c] = "none" /\ ~stopped[c]

\* The worker of a connection is its role's, or has been replaced after its
\* removal has stopped it.  Once it is stopped somebody waits for it to end.
WorkerInStep(c) ==
  /\ Running(c) => workers[RoleOf[c]] = c \/ rem[c] = "send"
  /\ Running(c) /\ stopped[c] => rem[c] = "send" \/ BeingReplaced(c)
  /\ Running(c) /\ rem[c] = "delete" => BeingReplaced(c)
  /\ workers[RoleOf[c]] = c =>
       (Running(c) \/ rem[c] = "delete") /\ rem[c] \notin {"lock", "gone"}
  /\ latest[RoleOf[c]] = c /\ workers[RoleOf[c]] = Nobody => rem[c] \in {"lock", "gone"}

LifeInv ==
  /\ LifeTypes /\ Owned
  /\ ~crossed => \A c \in Conns : InStep(c) /\ WorkerInStep(c)
  /\ PanicsExplained
-----------------------------------------------------------------------------
\* The types, one by one.
LEMMA TypesAre ==
  ASSUME LifeTypes
  PROVE  /\ clients \subseteq Conns
         /\ workers \in [Roles -> Conns \union {Nobody}]
         /\ latest \in [Roles -> Conns \union {Nobody}]
         /\ fmu \in Conns \union {Nobody}
         /\ \A c \in Conns : fmu = c <=> reg[c] \in {"stop", "send"}
         /\ run \in [Conns -> {"none", "top", "process", "call", "wait", "done", "gone"}]
         /\ stopped \in [Conns -> BOOLEAN]
         /\ reg \in [Conns -> {"none", "lock", "announce", "stop", "send", "done"}]
         /\ rem \in [Conns -> {"none", "begin", "look", "stop", "send", "delete", "lock", "gone"}]
         /\ victim \in [Conns -> Conns \union {Nobody}]
         /\ \A c \in Conns : rem[c] \in {"stop", "send", "delete"} => victim[c] \in Conns
         /\ down \in BOOLEAN /\ crossed \in BOOLEAN
         /\ RoleOf \in [Conns -> Roles] /\ Nobody \notin Conns
BY LifecycleAssumption DEF LifeTypes, LifeTypeOK

\* What does not change while neither roles' workers nor the registrations that
\* wait for one do.
LEMMA ReplacedKept ==
  ASSUME UNCHANGED workers, \A x \in Conns : reg'[x] = "send" <=> reg[x] = "send"
  PROVE  \A w : BeingReplaced(w)' <=> BeingReplaced(w)
BY DEF BeingReplaced

\* Nobody waits for a worker to end while the factory's lock is free.
LEMMA NoneReplaced ==
  ASSUME LifeTypes, fmu = Nobody
  PROVE  /\ \A x \in Conns : reg[x] \notin {"stop", "send"}
         /\ \A w : ~BeingReplaced(w)
BY TypesAre DEF BeingReplaced

\* A goroutine that goes on is the same for all that look at it.
LEMMA GoroutineKeeps ==
  ASSUME LifeInv, ~down, NEW c \in Conns, Goroutine(c)
  PROVE  LifeInv'
<1>1. /\ UNCHANGED <<clients, workers, fmu, latest, stopped, reg, rem, victim, down, crossed>>
      /\ \E l \in {"process", "call", "wait", "done"} : run' = [run EXCEPT ![c] = l]
      /\ run[c] \in {"top", "wait", "process", "call"}
  BY DEF Goroutine, Cycle, Process, To, factory
<1>2. LifeTypes'
  BY <1>1, TypesAre DEF LifeInv, LifeTypes, LifeTypeOK
<1>3. \A w \in Conns : /\ Running(w)' <=> Running(w)
                       /\ run'[w] = "none" <=> run[w] = "none"
  BY <1>1, TypesAre DEF LifeInv, Running
<1>4. \A w : BeingReplaced(w)' <=> BeingReplaced(w)
  BY <1>1, ReplacedKept
<1>5. Owned'
  BY <1>1 DEF LifeInv, Owned
<1>6. ASSUME ~crossed', NEW d \in Conns
      PROVE  InStep(d)' /\ WorkerInStep(d)'
  BY <1>1, <1>3, <1>4, <1>6 DEF LifeInv, InStep, WorkerInStep
<1>. QED BY <1>1, <1>2, <1>5, <1>6 DEF LifeInv, PanicsExplained

LEMMA LoginKeeps ==
  ASSUME LifeInv, ~down, NEW c \in Conns, LogIn(c)
  PROVE  LifeInv'
<1>1. /\ UNCHANGED <<clients, workers, fmu, latest, run, stopped, rem, victim, down, crossed>>
      /\ reg[c] = "none" /\ rem[c] = "none" /\ reg' = [reg EXCEPT ![c] = "lock"]
  BY DEF LogIn, Register, factory, goroutines
<1>2. LifeTypes'
  BY <1>1, TypesAre DEF LifeInv, LifeTypes, LifeTypeOK
<1>3. /\ \A x \in Conns : reg'[x] = IF x = c THEN "lock" ELSE reg[x]
      /\ \A w : BeingReplaced(w)' <=> BeingReplaced(w)
  BY <1>1, TypesAre, ReplacedKept DEF LifeInv
<1>4. Owned'
  BY <1>1, <1>3, TypesAre DEF LifeInv, Owned
<1>5. ASSUME ~crossed', NEW d \in Conns
      PROVE  InStep(d)' /\ WorkerInStep(d)'
  BY <1>1, <1>3, <1>5 DEF LifeInv, InStep, WorkerInStep, Running
<1>. QED BY <1>1, <1>2, <1>4, <1>5 DEF LifeInv, PanicsExplained

LEMMA InsertKeeps ==
  ASSUME LifeInv, ~down, NEW c \in Conns, Insert(c)
  PROVE  LifeInv'
<1>1. /\ UNCHANGED <<workers, fmu, latest, run, stopped, rem, victim, down>>
      /\ reg[c] = "lock" /\ reg' = [reg EXCEPT ![c] = "announce"]
      /\ clients' = clients \union {c}
      /\ crossed' = (crossed \/ rem[c] # "none")
  BY DEF Insert, Register, factory, goroutines
<1>2. LifeTypes'
  BY <1>1, TypesAre DEF LifeInv, LifeTypes, LifeTypeOK
<1>3. /\ \A x \in Conns : reg'[x] = IF x = c THEN "announce" ELSE reg[x]
      /\ \A w : BeingReplaced(w)' <=> BeingReplaced(w)
  BY <1>1, TypesAre, ReplacedKept DEF LifeInv
<1>4. Owned'
  BY <1>1, <1>3, TypesAre DEF LifeInv, Owned
<1>5. ASSUME ~crossed', NEW d \in Conns
      PROVE  InStep(d)' /\ WorkerInStep(d)'
  <2>1. ~crossed /\ rem[c] = "none" /\ InStep(d) /\ WorkerInStep(d)
    BY <1>1, <1>5 DEF LifeInv
  <2>2. InStep(d)'
    BY <1>1, <1>3, <2>1 DEF InStep
  <2>3. WorkerInStep(d)'
    BY <1>1, <1>3, <2>1 DEF WorkerInStep, Running
  <2>. QED BY <2>2, <2>3
<1>. QED BY <1>1, <1>2, <1>4, <1>5 DEF LifeInv, PanicsExplained

\* The previous worker, if there is one, was stopped by its removal, which waits
\* for it to end.
LEMMA InstallKeeps ==
  ASSUME LifeInv, ~down, NEW c \in Conns, Install(c)
  PROVE  LifeInv'
<1>1. /\ UNCHANGED <<clients, fmu, stopped, rem, victim, down, crossed>>
      /\ reg[c] = "announce" /\ reg' = [reg EXCEPT ![c] = "done"]
      /\ fmu = Nobody
      /\ workers[RoleOf[c]] # Nobody => stopped[workers[RoleOf[c]]]
      /\ workers' = [workers EXCEPT ![RoleOf[c]] = c]
      /\ latest' = [latest EXCEPT ![RoleOf[c]] = c]
      /\ run' = [run EXCEPT ![c] = "top"]
  BY DEF Install, HasWorker, Register
<1>2. LifeTypes'
  BY <1>1, TypesAre DEF LifeInv, LifeTypes, LifeTypeOK
<1>3. /\ \A x \in Conns : reg'[x] = IF x = c THEN "done" ELSE reg[x]
      /\ \A r \in Roles : /\ workers'[r] = IF r = RoleOf[c] THEN c ELSE workers[r]
                          /\ latest'[r] = IF r = RoleOf[c] THEN c ELSE latest[r]
      /\ \A x \in Conns : Running(x)' <=> x = c \/ Running(x)
      /\ \A x \in Conns : run'[x] = IF x = c THEN "top" ELSE run[x]
      /\ \A x \in Conns : RoleOf[x] \in Roles
  BY <1>1, TypesAre DEF LifeInv, Running
<1>4. \A w : ~BeingReplaced(w) /\ ~BeingReplaced(w)'
  BY <1>1, <1>2, NoneReplaced, TypesAre DEF LifeInv, BeingReplaced
<1>5. \A x \in Conns : reg[x] \notin {"stop", "send"}
  BY <1>1, NoneReplaced DEF LifeInv
<1>6. Owned'
  BY <1>1, <1>3, <1>5, TypesAre DEF LifeInv, Owned
<1>7. ASSUME ~crossed', NEW d \in Conns
      PROVE  InStep(d)' /\ WorkerInStep(d)'
  <2>1. InStep(c) /\ InStep(d) /\ WorkerInStep(d)
    BY <1>1, <1>7 DEF LifeInv
  <2>2. InStep(d)'
    BY <1>1, <1>3, <2>1 DEF InStep
  <2>3. WorkerInStep(c)'
    <3>1. rem'[c] \in {"none", "begin", "look"} /\ ~stopped'[c]
      BY <1>1, <2>1 DEF InStep
    <3>2. Running(c)' /\ workers'[RoleOf[c]] = c /\ c # Nobody
      BY <1>3, TypesAre DEF LifeInv
    <3>. QED BY <3>1, <3>2 DEF WorkerInStep
  <2>4. ASSUME d # c PROVE WorkerInStep(d)'
    <3>1. (Running(d)' <=> Running(d)) /\ RoleOf[d] \in Roles /\ d # Nobody
      BY <1>3, <2>4, TypesAre DEF LifeInv
    <3>2. CASE RoleOf[d] = RoleOf[c]
      <4>1. Running(d) => rem[d] = "send"
        BY <1>1, <1>4, <2>1, <3>1, <3>2 DEF WorkerInStep
      <4>2. workers'[RoleOf[d]] = c /\ latest'[RoleOf[d]] = c
        BY <1>3, <3>1, <3>2
      <4>. QED BY <1>1, <2>4, <3>1, <4>1, <4>2 DEF WorkerInStep
    <3>3. CASE RoleOf[d] # RoleOf[c]
      <4>1. workers'[RoleOf[d]] = workers[RoleOf[d]] /\ latest'[RoleOf[d]] = latest[RoleOf[d]]
        BY <1>3, <3>1, <3>3
      <4>. QED BY <1>1, <1>4, <2>1, <3>1, <4>1 DEF WorkerInStep
    <3>. QED BY <3>2, <3>3
  <2>. QED BY <2>2, <2>3, <2>4
<1>. QED BY <1>1, <1>2, <1>6, <1>7 DEF LifeInv, PanicsExplained

LEMMA ReplaceKeeps ==
  ASSUME LifeInv, ~down, NEW c \in Conns, Replace(c)
  PROVE  LifeInv'
<1>1. /\ UNCHANGED <<clients, workers, latest, run, stopped, rem, victim, down, crossed>>
      /\ reg[c] = "announce" /\ reg' = [reg EXCEPT ![c] = "stop"]
      /\ fmu = Nobody /\ fmu' = c /\ workers[RoleOf[c]] # Nobody
  BY DEF Replace, Register, goroutines
<1>2. \A x \in Conns : reg'[x] = IF x = c THEN "stop" ELSE reg[x]
  BY <1>1, TypesAre DEF LifeInv
<1>3. LifeTypes'
  BY <1>1, <1>2, TypesAre DEF LifeInv, LifeTypes, LifeTypeOK
<1>4. \A w : BeingReplaced(w)' <=> BeingReplaced(w)
  BY <1>1, <1>2, ReplacedKept
<1>5. Owned'
  BY <1>1, <1>2, TypesAre DEF LifeInv, Owned
<1>6. ASSUME ~crossed', NEW d \in Conns
      PROVE  InStep(d)' /\ WorkerInStep(d)'
  BY <1>1, <1>2, <1>4, <1>6 DEF LifeInv, InStep, WorkerInStep, Running
<1>. QED BY <1>1, <1>3, <1>5, <1>6 DEF LifeInv, PanicsExplained

LEMMA ReplaceMarksKeeps ==
  ASSUME LifeInv, ~down, NEW c \in Conns, ReplaceMarks(c)
  PROVE  LifeInv'
<1>1. PICK w : w = workers[RoleOf[c]]
  OBVIOUS
<1>2. /\ UNCHANGED <<clients, workers, fmu, latest, run, rem, victim, down>>
      /\ reg[c] = "stop" /\ reg' = [reg EXCEPT ![c] = "send"]
      /\ stopped' = [stopped EXCEPT ![w] = TRUE]
      /\ crossed' = (crossed \/ stopped[w])
  BY <1>1 DEF ReplaceMarks, Mark, Register, factory
<1>3. w \in Conns /\ RoleOf[w] = RoleOf[c] /\ reg[w] = "done"
  BY <1>1, <1>2, TypesAre DEF LifeInv, Owned
<1>4. /\ \A x \in Conns : reg'[x] = IF x = c THEN "send" ELSE reg[x]
      /\ \A x \in Conns : stopped'[x] = IF x = w THEN TRUE ELSE stopped[x]
  BY <1>2, TypesAre DEF LifeInv
<1>5. LifeTypes'
  BY <1>2, <1>4, TypesAre DEF LifeInv, LifeTypes, LifeTypeOK
<1>6. \A x : BeingReplaced(x) \/ x = w => BeingReplaced(x)'
  BY <1>1, <1>2, <1>4 DEF BeingReplaced
<1>7. Owned'
  BY <1>2, <1>4, TypesAre DEF LifeInv, Owned
<1>8. ASSUME ~crossed', NEW d \in Conns
      PROVE  InStep(d)' /\ WorkerInStep(d)'
  <2>1. InStep(d) /\ WorkerInStep(d)
    BY <1>2, <1>8 DEF LifeInv
  <2>2. InStep(d)'
    BY <1>2, <1>3, <1>4, <2>1 DEF InStep
  <2>3. WorkerInStep(d)'
    BY <1>2, <1>4, <1>6, <2>1 DEF WorkerInStep, Running
  <2>. QED BY <2>2, <2>3
<1>. QED BY <1>2, <1>5, <1>7, <1>8 DEF LifeInv, PanicsExplained

LEMMA ReplacedKeeps ==
  ASSUME LifeInv, ~down, NEW c \in Conns, Replaced(c)
  PROVE  LifeInv'
<1>1. PICK p : p = workers[RoleOf[c]]
  OBVIOUS
<1>2. /\ UNCHANGED <<clients, stopped, rem, victim, down, crossed>>
      /\ reg[c] = "send" /\ reg' = [reg EXCEPT ![c] = "done"]
      /\ fmu' = Nobody
      /\ run[p] \in {"wait", "done"}
      /\ run' = [run EXCEPT ![p] = "gone", ![c] = "top"]
      /\ workers' = [workers EXCEPT ![RoleOf[c]] = c]
      /\ latest' = [latest EXCEPT ![RoleOf[c]] = c]
  BY <1>1 DEF Replaced, HasWorker, Register
<1>3. p \in Conns /\ RoleOf[p] = RoleOf[c] /\ p # c /\ fmu = c
  BY <1>1, <1>2, TypesAre DEF LifeInv, Owned
<1>4. \A x \in Conns \ {c} : reg[x] \notin {"stop", "send"}
  BY <1>3, TypesAre DEF LifeInv
<1>5. /\ \A x \in Conns : reg'[x] = IF x = c THEN "done" ELSE reg[x]
      /\ \A r \in Roles : /\ workers'[r] = IF r = RoleOf[c] THEN c ELSE workers[r]
                          /\ latest'[r] = IF r = RoleOf[c] THEN c ELSE latest[r]
      /\ \A x \in Conns : run'[x] = IF x = c THEN "top" ELSE IF x = p THEN "gone" ELSE run[x]
      /\ \A x \in Conns : RoleOf[x] \in Roles
  BY <1>2, <1>3, TypesAre DEF LifeInv
<1>6. run' \in [Conns -> {"none", "top", "process", "call", "wait", "done", "gone"}]
  BY <1>2, TypesAre DEF LifeInv
<1>7. LifeTypes'
  BY <1>2, <1>3, <1>4, <1>5, <1>6, TypesAre DEF LifeInv, LifeTypes, LifeTypeOK
<1>8. \A x \in Conns : Running(x)' <=> x = c \/ (x # p /\ Running(x))
  BY <1>3, <1>5 DEF Running
<1>9. \A x : BeingReplaced(x) => x = p
  BY <1>1, <1>4 DEF BeingReplaced
<1>10. Owned'
  BY <1>2, <1>4, <1>5, TypesAre DEF LifeInv, Owned
<1>11. ASSUME ~crossed', NEW d \in Conns
       PROVE  InStep(d)' /\ WorkerInStep(d)'
  <2>1. InStep(c) /\ InStep(d) /\ WorkerInStep(d) /\ InStep(p)
    BY <1>2, <1>3, <1>11 DEF LifeInv
  <2>2. InStep(d)'
    BY <1>1, <1>2, <1>3, <1>5, <2>1, TypesAre DEF InStep, LifeInv, Owned
  <2>3. WorkerInStep(c)'
    <3>1. rem'[c] \in {"none", "begin", "look"} /\ ~stopped'[c]
      BY <1>2, <2>1 DEF InStep
    <3>2. Running(c)' /\ workers'[RoleOf[c]] = c /\ c # Nobody
      BY <1>5, <1>8, TypesAre DEF LifeInv
    <3>. QED BY <3>1, <3>2 DEF WorkerInStep
  <2>4. ASSUME d # c PROVE WorkerInStep(d)'
    <3>1. (Running(d)' <=> d # p /\ Running(d)) /\ RoleOf[d] \in Roles /\ d # Nobody
      BY <1>5, <1>8, <2>4, TypesAre DEF LifeInv
    <3>2. CASE RoleOf[d] = RoleOf[c]
      <4>1. Running(d)' => rem[d] = "send"
        BY <1>1, <2>1, <3>1, <3>2 DEF WorkerInStep
      <4>2. workers'[RoleOf[d]] = c /\ latest'[RoleOf[d]] = c
        BY <1>5, <3>1, <3>2
      <4>. QED BY <1>2, <2>4, <3>1, <4>1, <4>2 DEF WorkerInStep
    <3>3. CASE RoleOf[d] # RoleOf[c]
      <4>1. workers'[RoleOf[d]] = workers[RoleOf[d]] /\ latest'[RoleOf[d]] = latest[RoleOf[d]]
        BY <1>5, <3>1, <3>3
      <4>2. d # p /\ ~BeingReplaced(d)
        BY <1>3, <1>9, <3>3
      <4>. QED BY <1>2, <2>1, <3>1, <4>1, <4>2 DEF WorkerInStep
    <3>. QED BY <3>2, <3>3
  <2>. QED BY <2>2, <2>3, <2>4
<1>. QED BY <1>2, <1>7, <1>10, <1>11 DEF LifeInv, PanicsExplained

-----------------------------------------------------------------------------
\* A removal goes on, and nothing else changes: not into a stop, and past the
\* deletion only if its connection is not registered.
LEMMA RemoveKeeps ==
  ASSUME LifeInv, ~down, NEW c \in Conns, NEW l \in {"begin", "look", "lock"},
         UNCHANGED <<clients, workers, fmu, latest, run, stopped, reg, victim, down, crossed>>,
         rem' = [rem EXCEPT ![c] = l], reg[c] # "none",
         rem[c] \in {"none", "begin", "look"}, l = "lock" => c \notin clients
  PROVE  LifeInv'
<1>1. \A x \in Conns : rem'[x] = IF x = c THEN l ELSE rem[x]
  BY TypesAre DEF LifeInv
<1>2. LifeTypes'
  BY <1>1, TypesAre DEF LifeInv, LifeTypes, LifeTypeOK
<1>3. Owned'
  BY <1>1 DEF LifeInv, Owned
<1>4. ASSUME ~crossed', NEW d \in Conns
      PROVE  InStep(d)' /\ WorkerInStep(d)'
  <2>1. InStep(d) /\ WorkerInStep(d) /\ Owned
    BY <1>4 DEF LifeInv
  <2>2. InStep(d)'
    BY <1>1, <2>1 DEF InStep
  <2>3. \A w : BeingReplaced(w)' <=> BeingReplaced(w)
    BY ReplacedKept
  <2>4. workers[RoleOf[d]] = d => reg[d] = "done"
    BY <2>1, TypesAre DEF LifeInv, Owned
  <2>5. WorkerInStep(d)'
    BY <1>1, <2>1, <2>3, <2>4 DEF WorkerInStep, InStep, Running
  <2>. QED BY <2>2, <2>5
<1>. QED BY <1>2, <1>3, <1>4 DEF LifeInv, PanicsExplained

LEMMA EnterKeeps ==
  ASSUME LifeInv, ~down, NEW c \in Conns, Disconnect(c) \/ Enter(c) \/ NotRegistered(c)
  PROVE  LifeInv'
<1>1. UNCHANGED <<clients, workers, fmu, latest, run, stopped, reg, victim, down, crossed>>
  BY DEF Disconnect, Enter, NotRegistered, factory, goroutines
<1>2. CASE Disconnect(c)
  BY <1>1, <1>2, RemoveKeeps DEF Disconnect, Remove
<1>3. CASE Enter(c) /\ reg[c] # "none"
  BY <1>1, <1>3, RemoveKeeps DEF Enter, Remove
<1>4. CASE NotRegistered(c) /\ reg[c] # "none"
  BY <1>1, <1>4, RemoveKeeps DEF NotRegistered, Remove
<1>5. rem[c] # "none" => reg[c] # "none"
  BY DEF LifeInv, Owned
<1>. QED BY <1>2, <1>3, <1>4, <1>5 DEF Enter, NotRegistered

\* The removal finds its own connection's worker, and if it is stopped already
\* a registration waits for it to end, or it has ended.
LEMMA LookKeeps ==
  ASSUME LifeInv, ~down, NEW c \in Conns, Look(c)
  PROVE  LifeInv'
<1>1. PICK w : w = workers[RoleOf[c]]
  OBVIOUS
<1>2. /\ UNCHANGED <<clients, workers, fmu, latest, run, stopped, reg>>
      /\ rem[c] = "look" /\ c \in clients
      /\ crossed' = (crossed \/ reg[c] # "done" \/ w \notin {c, Nobody})
  BY <1>1 DEF Look, factory, goroutines
<1>3. \A x : BeingReplaced(x)' <=> BeingReplaced(x)
  BY <1>2, ReplacedKept
<1>4. w \in Conns \union {Nobody}
  BY <1>1, TypesAre DEF LifeInv
<1>5. CASE w = Nobody
  <2>1. down' /\ UNCHANGED <<rem, victim>>
    BY <1>1, <1>2, <1>5 DEF Look
  <2>2. LifeTypes'
    BY <1>2, <1>4, <2>1, TypesAre DEF LifeInv, LifeTypes, LifeTypeOK, Look
  <2>3. Owned'
    BY <1>2, <2>1 DEF LifeInv, Owned
  <2>4. ASSUME ~crossed', NEW d \in Conns
        PROVE  InStep(d)' /\ WorkerInStep(d)'
    BY <1>2, <1>3, <2>1, <2>4 DEF LifeInv, InStep, WorkerInStep, Running
  <2>5. ~crossed' => latest[RoleOf[c]] # c
    BY <1>1, <1>2, <1>5 DEF LifeInv, WorkerInStep
  <2>6. PanicsExplained'
    BY <1>2, <2>1, <2>5 DEF PanicsExplained
  <2>. QED BY <2>2, <2>3, <2>4, <2>6 DEF LifeInv
<1>6. CASE w # Nobody
  <2>1. PICK l \in {"stop", "delete"} :
          /\ rem' = [rem EXCEPT ![c] = l]
          /\ (l = "delete") <=> stopped[w]
          /\ victim' = [victim EXCEPT ![c] = w]
          /\ down' = down
    BY <1>1, <1>2, <1>6 DEF Look, Remove
  <2>2. /\ \A x \in Conns : rem'[x] = IF x = c THEN l ELSE rem[x]
        /\ \A x \in Conns : victim'[x] = IF x = c THEN w ELSE victim[x]
    BY <2>1, TypesAre DEF LifeInv
  <2>3. LifeTypes'
    BY <1>2, <1>4, <1>6, <2>1, <2>2, TypesAre DEF LifeInv, LifeTypes, LifeTypeOK
  <2>4. Owned'
    BY <1>2, <2>2 DEF LifeInv, Owned
  <2>5. ASSUME ~crossed', NEW d \in Conns
        PROVE  InStep(d)' /\ WorkerInStep(d)'
    <3>1. /\ InStep(d) /\ WorkerInStep(d) /\ WorkerInStep(c)
          /\ reg[c] = "done" /\ w = c
      BY <1>2, <1>6, <2>5 DEF LifeInv
    <3>2. InStep(d)'
      BY <1>2, <2>1, <2>2, <3>1 DEF InStep
    <3>3. WorkerInStep(d)'
      BY <1>1, <1>2, <1>3, <2>1, <2>2, <3>1 DEF WorkerInStep, Running
    <3>. QED BY <3>2, <3>3
  <2>. QED BY <2>1, <2>3, <2>4, <2>5 DEF LifeInv, PanicsExplained
<1>. QED BY <1>5, <1>6

LEMMA MarksKeeps ==
  ASSUME LifeInv, ~down, NEW c \in Conns, Marks(c)
  PROVE  LifeInv'
<1>1. PICK w : w = victim[c]
  OBVIOUS
<1>2. /\ UNCHANGED <<clients, workers, fmu, latest, run, reg, victim, down>>
      /\ rem[c] = "stop" /\ rem' = [rem EXCEPT ![c] = "send"]
      /\ stopped' = [stopped EXCEPT ![w] = TRUE]
      /\ crossed' = (crossed \/ stopped[w])
  BY <1>1 DEF Marks, Mark, Remove, factory
<1>3. w \in Conns
  BY <1>1, <1>2, TypesAre DEF LifeInv
<1>4. /\ \A x \in Conns : rem'[x] = IF x = c THEN "send" ELSE rem[x]
      /\ \A x \in Conns : stopped'[x] = IF x = w THEN TRUE ELSE stopped[x]
      /\ \A x : BeingReplaced(x)' <=> BeingReplaced(x)
  BY <1>2, TypesAre, ReplacedKept DEF LifeInv
<1>5. LifeTypes'
  BY <1>2, <1>3, <1>4, TypesAre DEF LifeInv, LifeTypes, LifeTypeOK
<1>6. Owned'
  BY <1>2, <1>4 DEF LifeInv, Owned
<1>7. ASSUME ~crossed', NEW d \in Conns
      PROVE  InStep(d)' /\ WorkerInStep(d)'
  <2>1. InStep(d) /\ WorkerInStep(d) /\ w = c /\ reg[c] = "done"
    BY <1>1, <1>2, <1>7 DEF LifeInv, InStep
  <2>2. InStep(d)'
    BY <1>1, <1>2, <1>4, <2>1 DEF InStep
  <2>3. WorkerInStep(d)'
    BY <1>2, <1>4, <2>1 DEF WorkerInStep, Running
  <2>. QED BY <2>2, <2>3
<1>. QED BY <1>2, <1>5, <1>6, <1>7 DEF LifeInv, PanicsExplained

LEMMA SentKeeps ==
  ASSUME LifeInv, ~down, NEW c \in Conns, Sent(c)
  PROVE  LifeInv'
<1>1. PICK w : w = victim[c]
  OBVIOUS
<1>2. /\ UNCHANGED <<clients, workers, fmu, latest, stopped, reg, victim, down, crossed>>
      /\ rem[c] = "send" /\ rem' = [rem EXCEPT ![c] = "delete"]
      /\ run[w] \in {"wait", "done"} /\ run' = [run EXCEPT ![w] = "gone"]
  BY <1>1 DEF Sent, Receives, Remove, factory
<1>3. w \in Conns
  BY <1>1, <1>2, TypesAre DEF LifeInv
<1>4. /\ \A x \in Conns : rem'[x] = IF x = c THEN "delete" ELSE rem[x]
      /\ \A x \in Conns : run'[x] = IF x = w THEN "gone" ELSE run[x]
      /\ \A x \in Conns : Running(x)' <=> x # w /\ Running(x)
      /\ \A x : BeingReplaced(x)' <=> BeingReplaced(x)
  BY <1>2, <1>3, TypesAre, ReplacedKept DEF LifeInv, Running
<1>5. LifeTypes'
  BY <1>2, <1>3, <1>4, TypesAre DEF LifeInv, LifeTypes, LifeTypeOK
<1>6. Owned'
  BY <1>2, <1>4 DEF LifeInv, Owned
<1>7. ASSUME ~crossed', NEW d \in Conns
      PROVE  InStep(d)' /\ WorkerInStep(d)'
  <2>1. InStep(d) /\ WorkerInStep(d) /\ w = c /\ reg[c] = "done"
    BY <1>1, <1>2, <1>7 DEF LifeInv, InStep
  <2>2. InStep(d)'
    BY <1>1, <1>2, <1>4, <2>1 DEF InStep
  <2>3. WorkerInStep(d)'
    BY <1>2, <1>4, <2>1 DEF WorkerInStep
  <2>. QED BY <2>2, <2>3
<1>. QED BY <1>2, <1>5, <1>6, <1>7 DEF LifeInv, PanicsExplained

\* Without the fourth race it is the worker that has ended that is deleted.
LEMMA DeleteKeeps ==
  ASSUME LifeInv, ~down, NEW c \in Conns, Delete(c)
  PROVE  LifeInv'
<1>1. /\ UNCHANGED <<clients, fmu, latest, run, stopped, reg, victim, down>>
      /\ rem[c] = "delete" /\ fmu = Nobody
      /\ rem' = [rem EXCEPT ![c] = "lock"]
      /\ workers' = [workers EXCEPT ![RoleOf[c]] = Nobody]
      /\ crossed' = (crossed \/ workers[RoleOf[c]] # victim[c])
  BY DEF Delete, Remove, goroutines
<1>2. /\ \A x \in Conns : rem'[x] = IF x = c THEN "lock" ELSE rem[x]
      /\ \A r \in Roles : workers'[r] = IF r = RoleOf[c] THEN Nobody ELSE workers[r]
      /\ \A x \in Conns : RoleOf[x] \in Roles /\ x # Nobody
  BY <1>1, TypesAre DEF LifeInv
<1>3. LifeTypes'
  BY <1>1, <1>2, TypesAre DEF LifeInv, LifeTypes, LifeTypeOK
<1>4. /\ \A x \in Conns : reg[x] \notin {"stop", "send"}
      /\ \A w : ~BeingReplaced(w)
  BY <1>1, NoneReplaced DEF LifeInv
<1>5. Owned'
  BY <1>1, <1>2, <1>4 DEF LifeInv, Owned
<1>6. ASSUME ~crossed', NEW d \in Conns
      PROVE  InStep(d)' /\ WorkerInStep(d)'
  <2>1. /\ InStep(d) /\ WorkerInStep(d) /\ InStep(c) /\ WorkerInStep(c)
        /\ workers[RoleOf[c]] = c /\ reg[c] = "done"
    BY <1>1, <1>6 DEF LifeInv, InStep
  <2>2. latest[RoleOf[c]] = c /\ ~Running(c)
    BY <1>1, <1>2, <1>4, <2>1 DEF LifeInv, Owned, WorkerInStep
  <2>3. InStep(d)'
    BY <1>1, <1>2, <2>1 DEF InStep
  <2>4. ASSUME RoleOf[d] = RoleOf[c] PROVE WorkerInStep(d)'
    <3>1. workers'[RoleOf[d]] = Nobody /\ d # Nobody
      BY <1>2, <2>4
    <3>2. Running(d) => d # c /\ rem'[d] = "send"
      BY <1>1, <1>2, <2>1, <2>2, <2>4 DEF WorkerInStep
    <3>3. latest'[RoleOf[d]] = d => rem'[d] = "lock"
      BY <1>1, <1>2, <2>2, <2>4
    <3>4. Running(d)' <=> Running(d)
      BY <1>1 DEF Running
    <3>. QED BY <3>1, <3>2, <3>3, <3>4 DEF WorkerInStep
  <2>5. ASSUME RoleOf[d] # RoleOf[c] PROVE WorkerInStep(d)'
    <3>1. workers'[RoleOf[d]] = workers[RoleOf[d]] /\ d # c /\ rem'[d] = rem[d]
      BY <1>2, <2>5
    <3>2. Running(d)' <=> Running(d)
      BY <1>1 DEF Running
    <3>. QED BY <1>1, <1>4, <2>1, <3>1, <3>2 DEF WorkerInStep
  <2>. QED BY <2>3, <2>4, <2>5
<1>. QED BY <1>1, <1>3, <1>5, <1>6 DEF LifeInv, PanicsExplained

LEMMA RemovedKeeps ==
  ASSUME LifeInv, ~down, NEW c \in Conns, Removed(c)
  PROVE  LifeInv'
<1>1. /\ UNCHANGED <<workers, fmu, latest, run, stopped, reg, victim, down, crossed>>
      /\ rem[c] = "lock" /\ rem' = [rem EXCEPT ![c] = "gone"]
      /\ clients' = clients \ {c}
  BY DEF Removed, Remove, factory, goroutines
<1>2. /\ \A x \in Conns : rem'[x] = IF x = c THEN "gone" ELSE rem[x]
      /\ \A x : BeingReplaced(x)' <=> BeingReplaced(x)
  BY <1>1, TypesAre, ReplacedKept DEF LifeInv
<1>3. LifeTypes'
  BY <1>1, <1>2, TypesAre DEF LifeInv, LifeTypes, LifeTypeOK
<1>4. Owned'
  BY <1>1, <1>2 DEF LifeInv, Owned
<1>5. ASSUME ~crossed', NEW d \in Conns
      PROVE  InStep(d)' /\ WorkerInStep(d)'
  <2>1. InStep(d) /\ WorkerInStep(d)
    BY <1>1, <1>5 DEF LifeInv
  <2>2. InStep(d)'
    BY <1>1, <1>2, <2>1 DEF InStep
  <2>3. WorkerInStep(d)'
    BY <1>1, <1>2, <2>1 DEF WorkerInStep, Running
  <2>. QED BY <2>2, <2>3
<1>. QED BY <1>1, <1>3, <1>4, <1>5 DEF LifeInv, PanicsExplained

-----------------------------------------------------------------------------
LEMMA InitLife ==
  ASSUME LifeInit
  PROVE  LifeInv
<1>1. LifeTypes
  BY LifecycleAssumption DEF LifeInit, LifeTypes, LifeTypeOK
<1>2. Owned
  BY LifecycleAssumption DEF LifeInit, Owned
<1>3. ASSUME NEW c \in Conns PROVE InStep(c) /\ WorkerInStep(c)
  BY LifecycleAssumption DEF LifeInit, InStep, WorkerInStep, Running
<1>. QED BY <1>1, <1>2, <1>3 DEF LifeInit, LifeInv, PanicsExplained

LEMMA NextLife ==
  ASSUME LifeInv, [LifeNext]_lifeVars
  PROVE  LifeInv'
<1>1. CASE LifeNext
  <2>1. ~down
    BY <1>1 DEF LifeNext, Going
  <2>2. PICK c \in Conns :
          LogIn(c) \/ Disconnect(c) \/ Registration(c) \/ Removal(c) \/ Goroutine(c)
    BY <1>1 DEF LifeNext
  <2>. QED BY <2>1, <2>2, LoginKeeps, InsertKeeps, InstallKeeps, ReplaceKeeps, ReplaceMarksKeeps,
           ReplacedKeeps, EnterKeeps, LookKeeps, MarksKeeps, SentKeeps, DeleteKeeps,
           RemovedKeeps, GoroutineKeeps DEF Registration, Removal
<1>2. CASE UNCHANGED lifeVars
  BY <1>2 DEF lifeVars, factory, goroutines, LifeInv, LifeTypes, LifeTypeOK, Owned, InStep,
              WorkerInStep, Running, BeingReplaced, PanicsExplained
<1>. QED BY <1>1, <1>2

\* The invariant of which the properties are parts or consequences.
LEMMA Invariant == LifeSpec => []LifeInv
<1>1. LifeInit => LifeInv
  BY InitLife
<1>2. LifeInv /\ [LifeNext]_lifeVars => LifeInv'
  BY NextLife
<1>. QED BY <1>1, <1>2, PTL DEF LifeSpec

\* All parts have their types, and the factory's lock is held exactly by a
\* registration that stops a worker (worker_factory.go, NewWorker).
THEOREM LifecycleTypes == LifeSpec => []LifeTypeOK
<1>1. LifeInv => LifeTypeOK
  BY DEF LifeInv, LifeTypes
<1>. QED BY <1>1, Invariant, PTL

\* When nobody comes or goes and none of the four races has happened, the last
\* client that logged in for a role has its worker while it is connected, the
\* role has none afterwards, and no other goroutine runs for the role.
THEOREM WorkersAgree == LifeSpec => []WorkersMatch
<1>1. ASSUME LifeInv, Quiet, ~crossed, ~down, NEW r \in Roles, NEW online,
             online = {c \in clients : RoleOf[c] = r}
      PROVE  /\ \A c \in online : rem[c] = "none"
             /\ workers[r] = IF latest[r] \in online THEN latest[r] ELSE Nobody
             /\ \A w \in Conns : RoleOf[w] = r =>
                  (Running(w) <=> w = workers[r]) /\ (Running(w) => ~stopped[w])
  <2>1. /\ clients \subseteq Conns /\ Nobody \notin Conns
        /\ workers[r] \in Conns \union {Nobody} /\ latest[r] \in Conns \union {Nobody}
    BY <1>1, TypesAre DEF LifeInv
  <2>2. \A c \in Conns : /\ InStep(c) /\ WorkerInStep(c)
                         /\ reg[c] \in {"none", "done"} /\ rem[c] \in {"none", "gone"}
                         /\ ~BeingReplaced(c)
    BY <1>1 DEF LifeInv, Quiet, BeingReplaced
  <2>3. \A c \in online : rem[c] = "none"
    BY <1>1, <2>1, <2>2 DEF InStep
  <2>4. CASE workers[r] = Nobody
    <3>1. latest[r] \notin online
      BY <1>1, <2>1, <2>2, <2>3, <2>4 DEF WorkerInStep
    <3>. QED BY <1>1, <2>1, <2>2, <2>3, <2>4, <3>1 DEF WorkerInStep
  <2>5. CASE workers[r] # Nobody
    <3>1. /\ workers[r] = latest[r] /\ latest[r] \in Conns
          /\ RoleOf[latest[r]] = r /\ reg[latest[r]] = "done"
      BY <1>1, <2>1, <2>5 DEF LifeInv, Owned
    <3>2. Running(latest[r]) /\ rem[latest[r]] # "gone"
      BY <2>2, <3>1 DEF WorkerInStep
    <3>3. latest[r] \in online
      BY <1>1, <2>2, <3>1, <3>2 DEF InStep
    <3>4. \A w \in Conns : RoleOf[w] = r =>
            (Running(w) => w = workers[r]) /\ (Running(w) => ~stopped[w])
      BY <2>2 DEF WorkerInStep
    <3>. QED BY <2>3, <3>1, <3>2, <3>3, <3>4
  <2>. QED BY <2>4, <2>5
<1>2. LifeInv => WorkersMatch
  BY <1>1 DEF WorkersMatch
<1>. QED BY <1>2, Invariant, PTL

\* A panic of the server (worker_factory.go, HandleClientDisconnected finds no
\* worker) comes after one of the four races, or is the removal of a client that
\* was not the last of its role to log in.
THEOREM PanicsAre == LifeSpec => []PanicsExplained
<1>1. LifeInv => PanicsExplained
  BY DEF LifeInv
<1>. QED BY <1>1, Invariant, PTL
=============================================================================
