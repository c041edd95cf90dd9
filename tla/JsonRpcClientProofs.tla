------------------------- MODULE JsonRpcClientProofs -------------------------
(***************************************************************************)
(* Proofs about JsonRpcClient for any set of calls.  The argument: ids are *)
(* fresh, so a pending entry names one request and one call; a call leaves *)
(* an id behind only after the server has refused it, so all but the last  *)
(* request of a call are refused and never executed.                       *)
(***************************************************************************)
EXTENDS JsonRpcClient, TLAPS

\* Ids are fresh: every id in use is below nextId, and names one request.
IdsAreFresh ==
  /\ \A p \in sent : p.id < nextId /\ p.id # 0
  /\ \A p, q \in sent : p.id = q.id => p = q
  /\ pending \subseteq sent
  /\ \A i \in executed \cup refused : \E p \in sent : p.id = i

\* The server keeps its word: what it executed it did not refuse, and its
\* answers say what it did.
ServerIsHonest ==
  /\ executed \cap refused = {}
  /\ \A a \in outbox : /\ a.kind = "result" => a.id \in executed
                       /\ a.kind = "overloaded" => a.id \in refused

\* A call that may try again has been refused.
RefusedBefore ==
  /\ \A p \in sent : p.id # idOf[p.call] => p.id \in refused
  /\ \A p \in sent : pc[p.call] \in {"overloaded", "backoff"} => p.id \in refused

\* The loop of request: only a safe read gets to a second request.
AttemptsAreCounted ==
  \A c \in Calls :
    /\ pc[c] = "idle" => attempt[c] = 0 /\ \A p \in sent : p.call # c
    /\ pc[c] \in {"waiting", "overloaded", "backoff"} => attempt[c] >= 1
    /\ pc[c] = "backoff" => attempt[c] < MaximumAttempts(c) /\ c \notin aborted
    /\ c \notin SafeReads => \A p \in sent : p.call = c => p.id = idOf[c]

IInv ==
  /\ TypeOK
  /\ IdsAreFresh
  /\ ServerIsHonest
  /\ PendingIsWhoWaits
  /\ RefusedBefore
  /\ AttemptsAreCounted
  /\ ResultIsOwn
  /\ AbortIsHeeded
  /\ NoneWaitsOnTheDead

USE DEF Settled, Answers, Request, Answer, MaxReadRetries

-----------------------------------------------------------------------------
LEMMA InitIsInductive == Init => IInv
  BY DEF Init, IInv, TypeOK, IdsAreFresh, ServerIsHonest, PendingIsWhoWaits,
         RefusedBefore, AttemptsAreCounted, ResultIsOwn, AbortIsHeeded, NoneWaitsOnTheDead

\* One turn of the loop, from a call that may take it.
LEMMA AttemptKeeps ==
  ASSUME IInv, NEW c \in Calls, Attempt(c),
         pc[c] \in {"idle", "backoff"}, c \notin aborted
  PROVE  IInv'
<1> DEFINE req == [id |-> nextId, call |-> c]
<1>0. attempt[c] + 1 \in 0..MaxReadRetries
  BY CallsAssumption DEF IInv, TypeOK, AttemptsAreCounted, MaximumAttempts
<1>1. TypeOK'
  BY <1>0 DEF IInv, TypeOK, Attempt, Goto
<1>2. \A p \in pending : p.call # c
  BY DEF IInv, PendingIsWhoWaits
<1>3. \A p \in sent : p.call = c => p.id \in refused
  BY DEF IInv, RefusedBefore, AttemptsAreCounted, TypeOK
<1>4. c \notin SafeReads => \A p \in sent : p.call # c
  BY CallsAssumption DEF IInv, AttemptsAreCounted, MaximumAttempts, TypeOK
<1>5. CASE c \in expired
  <2>1. IdsAreFresh' /\ ServerIsHonest'
    BY <1>5 DEF IInv, Attempt, Goto, IdsAreFresh, ServerIsHonest
  <2>2. PendingIsWhoWaits'
    BY <1>5, <1>2 DEF IInv, Attempt, Goto, PendingIsWhoWaits, TypeOK
  <2>3. RefusedBefore'
    BY <1>5 DEF IInv, Attempt, Goto, RefusedBefore, TypeOK
  <2>4. AttemptsAreCounted'
    BY <1>5, <1>1 DEF IInv, Attempt, Goto, AttemptsAreCounted, TypeOK, MaximumAttempts
  <2>5. ResultIsOwn' /\ AbortIsHeeded' /\ NoneWaitsOnTheDead'
    BY <1>5 DEF IInv, Attempt, Goto, ResultIsOwn, AbortIsHeeded, NoneWaitsOnTheDead, TypeOK
  <2> QED BY <1>1, <2>1, <2>2, <2>3, <2>4, <2>5 DEF IInv
<1>6. CASE c \notin expired /\ transport # "open"
  <2>1. IdsAreFresh' /\ ServerIsHonest'
    BY <1>6 DEF IInv, Attempt, Goto, IdsAreFresh, ServerIsHonest, TypeOK
  <2>2. PendingIsWhoWaits'
    BY <1>6, <1>2 DEF IInv, Attempt, Goto, PendingIsWhoWaits, TypeOK
  <2>3. RefusedBefore'
    BY <1>6, <1>3 DEF IInv, Attempt, Goto, RefusedBefore, TypeOK
  <2>4. AttemptsAreCounted'
    BY <1>6, <1>1, <1>4 DEF IInv, Attempt, Goto, AttemptsAreCounted, TypeOK, MaximumAttempts
  <2>5. ResultIsOwn' /\ AbortIsHeeded' /\ NoneWaitsOnTheDead'
    BY <1>6 DEF IInv, Attempt, Goto, ResultIsOwn, AbortIsHeeded, NoneWaitsOnTheDead, TypeOK
  <2> QED BY <1>1, <2>1, <2>2, <2>3, <2>4, <2>5 DEF IInv
<1>7. CASE c \notin expired /\ transport = "open"
  <2>0. /\ nextId' = nextId + 1
        /\ idOf' = [idOf EXCEPT ![c] = nextId]
        /\ pc' = [pc EXCEPT ![c] = "waiting"]
        /\ pending' = pending \cup {req}
        /\ sent' = sent \cup {req}
        /\ attempt' = [attempt EXCEPT ![c] = @ + 1]
        /\ UNCHANGED <<aborted, expired, answer, transport, executed, refused, outbox>>
    BY <1>7 DEF Attempt, Goto
  <2>r. req.id = nextId /\ req.call = c /\ req \in Request
    BY DEF IInv, TypeOK
  <2>1. IdsAreFresh'
    <3>1. \A p \in sent' : p.id < nextId' /\ p.id # 0
      BY <2>0, <2>r DEF IInv, IdsAreFresh, TypeOK
    <3>2. \A p, q \in sent' : p.id = q.id => p = q
      BY <2>0, <2>r DEF IInv, IdsAreFresh, TypeOK
    <3>3. pending' \subseteq sent'
      BY <2>0 DEF IInv, IdsAreFresh
    <3>4. \A i \in executed' \cup refused' : \E p \in sent' : p.id = i
      BY <2>0 DEF IInv, IdsAreFresh
    <3> QED BY <3>1, <3>2, <3>3, <3>4 DEF IdsAreFresh
  <2>2. ServerIsHonest'
    BY <2>0 DEF IInv, ServerIsHonest
  <2>3. PendingIsWhoWaits'
    BY <2>0, <2>r, <1>2 DEF IInv, PendingIsWhoWaits, TypeOK
  <2>4. RefusedBefore'
    BY <2>0, <2>r, <1>3 DEF IInv, RefusedBefore, TypeOK
  <2>5. AttemptsAreCounted'
    BY <2>0, <2>r, <1>1, <1>4 DEF IInv, AttemptsAreCounted, TypeOK, MaximumAttempts
  <2>6. ResultIsOwn'
    BY <2>0 DEF IInv, ResultIsOwn, TypeOK
  <2>7. AbortIsHeeded' /\ NoneWaitsOnTheDead'
    BY <2>0, <1>7 DEF IInv, AbortIsHeeded, NoneWaitsOnTheDead, TypeOK
  <2> QED BY <1>1, <2>1, <2>2, <2>3, <2>4, <2>5, <2>6, <2>7 DEF IInv
<1> QED BY <1>5, <1>6, <1>7 DEF IInv, TypeOK

\* A call leaves the states in which it waits or tries again, and nothing else
\* changes but the entry of the call in the map.
LEMMA EndingKeeps ==
  ASSUME IInv, NEW c \in Calls, NEW new \in {"rejected", "overloaded", "backoff"},
         pc[c] \in {"waiting", "overloaded", "backoff"},
         new = "overloaded" => \A p \in sent : p.call = c => p.id \in refused,
         new = "backoff" => /\ pc[c] = "overloaded"
                            /\ attempt[c] < MaximumAttempts(c)
                            /\ c \notin aborted,
         pc' = [pc EXCEPT ![c] = new],
         pending' = {p \in pending : p.call # c},
         \/ aborted' = aborted
         \/ new = "rejected" /\ aborted' = aborted \cup {c},
         UNCHANGED <<attempt, idOf, nextId, expired, answer, transport, sent,
                     executed, refused>>,
         outbox' \subseteq outbox
  PROVE  IInv'
<1>1. TypeOK'
  BY DEF IInv, TypeOK
<1>2. IdsAreFresh' /\ ServerIsHonest'
  BY DEF IInv, IdsAreFresh, ServerIsHonest
<1>3. PendingIsWhoWaits'
  BY DEF IInv, PendingIsWhoWaits, TypeOK
<1>4. RefusedBefore'
  BY DEF IInv, RefusedBefore, TypeOK
<1>5. AttemptsAreCounted'
  BY DEF IInv, AttemptsAreCounted, TypeOK, MaximumAttempts
<1>6. ResultIsOwn' /\ AbortIsHeeded' /\ NoneWaitsOnTheDead'
  BY DEF IInv, ResultIsOwn, AbortIsHeeded, NoneWaitsOnTheDead, TypeOK
<1> QED BY <1>1, <1>2, <1>3, <1>4, <1>5, <1>6 DEF IInv

LEMMA CallStepKeeps == ASSUME IInv, NEW c \in Calls, CallStep(c) PROVE IInv'
<1>1. CASE Call(c)
  <2>1. CASE c \notin aborted
    BY <1>1, <2>1, AttemptKeeps DEF Call
  <2>2. CASE c \in aborted
    <3>1. /\ pc' = [pc EXCEPT ![c] = "rejected"]
          /\ UNCHANGED <<attempt, idOf, nextId, pending, aborted, expired, answer,
                         transport, sent, executed, refused, outbox>>
          /\ pc[c] = "idle"
      BY <1>1, <2>2 DEF Call, Goto
    <3>2. TypeOK'
      BY <3>1 DEF IInv, TypeOK
    <3>3. IdsAreFresh' /\ ServerIsHonest'
      BY <3>1 DEF IInv, IdsAreFresh, ServerIsHonest
    <3>4. PendingIsWhoWaits' /\ RefusedBefore'
      BY <3>1 DEF IInv, PendingIsWhoWaits, RefusedBefore, TypeOK
    <3>5. AttemptsAreCounted'
      BY <3>1 DEF IInv, AttemptsAreCounted, TypeOK, MaximumAttempts
    <3>6. ResultIsOwn' /\ AbortIsHeeded' /\ NoneWaitsOnTheDead'
      BY <3>1 DEF IInv, ResultIsOwn, AbortIsHeeded, NoneWaitsOnTheDead, TypeOK
    <3> QED BY <3>2, <3>3, <3>4, <3>5, <3>6 DEF IInv
  <2> QED BY <2>1, <2>2
<1>2. CASE TimerFires(c)
  BY <1>2, EndingKeeps DEF TimerFires, Goto, Without
<1>3. CASE GiveUp(c)
  <2>1. pending = {p \in pending : p.call # c}
    BY <1>3 DEF GiveUp, IInv, PendingIsWhoWaits
  <2> QED BY <1>3, <2>1, EndingKeeps DEF GiveUp, Goto
<1>4. CASE Backoff(c)
  <2>1. pending = {p \in pending : p.call # c}
    BY <1>4 DEF Backoff, IInv, PendingIsWhoWaits
  <2> QED BY <1>4, <2>1, EndingKeeps DEF Backoff, Goto
<1>5. CASE Retry(c)
  <2>1. c \notin aborted
    BY <1>5 DEF Retry, IInv, AbortIsHeeded
  <2> QED BY <1>5, <2>1, AttemptKeeps DEF Retry
<1> QED BY <1>1, <1>2, <1>3, <1>4, <1>5 DEF CallStep

LEMMA AbortKeeps == ASSUME IInv, NEW c \in Calls, Abort(c) PROVE IInv'
<1>1. CASE pc[c] \in {"waiting", "backoff"}
  BY <1>1, EndingKeeps DEF Abort, Goto, Without
<1>2. CASE pc[c] \notin {"waiting", "backoff"}
  <2>1. /\ aborted' = aborted \cup {c}
        /\ UNCHANGED <<pc, attempt, idOf, nextId, pending, expired, answer,
                       transport, sent, executed, refused, outbox>>
    BY <1>2 DEF Abort
  <2>2. TypeOK' /\ IdsAreFresh' /\ ServerIsHonest' /\ PendingIsWhoWaits' /\ RefusedBefore'
    BY <2>1 DEF IInv, TypeOK, IdsAreFresh, ServerIsHonest, PendingIsWhoWaits, RefusedBefore
  <2>3. AttemptsAreCounted'
    BY <2>1, <1>2 DEF IInv, AttemptsAreCounted, MaximumAttempts
  <2>4. ResultIsOwn' /\ AbortIsHeeded' /\ NoneWaitsOnTheDead'
    BY <2>1, <1>2 DEF IInv, ResultIsOwn, AbortIsHeeded, NoneWaitsOnTheDead
  <2> QED BY <2>2, <2>3, <2>4 DEF IInv
<1> QED BY <1>1, <1>2

LEMMA ReadAnswerKeeps == ASSUME IInv, NEW a \in outbox, ReadAnswer(a) PROVE IInv'
<1>0. a \in Answer
  BY DEF IInv, TypeOK
<1>1. CASE ~\E p \in pending : p.id = a.id
  <2>1. /\ outbox' = outbox \ {a}
        /\ UNCHANGED <<pc, attempt, idOf, nextId, pending, aborted, expired, answer,
                       transport, sent, executed, refused>>
    BY <1>1 DEF ReadAnswer
  <2> QED
    BY <2>1 DEF IInv, TypeOK, IdsAreFresh, ServerIsHonest, PendingIsWhoWaits, RefusedBefore,
       AttemptsAreCounted, MaximumAttempts, ResultIsOwn, AbortIsHeeded, NoneWaitsOnTheDead
<1>2. CASE \E p \in pending : p.id = a.id
  <2>1. PICK p \in pending :
          /\ p.id = a.id
          /\ pending' = pending \ {p}
          /\ IF a.kind = "result"
             THEN /\ Goto(p.call, "resolved")
                  /\ answer' = [answer EXCEPT ![p.call] = a.id]
             ELSE /\ Goto(p.call, IF a.kind = "overloaded" THEN "overloaded" ELSE "rejected")
                  /\ UNCHANGED answer
    BY <1>2 DEF ReadAnswer
  <2>2. /\ p \in sent /\ p \in Request /\ p.call \in Calls
        /\ pc[p.call] = "waiting" /\ idOf[p.call] = p.id
    BY DEF IInv, TypeOK, IdsAreFresh, PendingIsWhoWaits
  <2>3. pending \ {p} = {q \in pending : q.call # p.call}
    BY <2>2 DEF IInv, TypeOK, IdsAreFresh, PendingIsWhoWaits
  <2>4. /\ outbox' = outbox \ {a}
        /\ UNCHANGED <<attempt, idOf, nextId, aborted, expired, transport, sent,
                       executed, refused>>
    BY DEF ReadAnswer
  <2>5. CASE a.kind = "overloaded"
    <3>1. \A q \in sent : q.call = p.call => q.id \in refused
      BY <2>1, <2>2, <2>5, <1>0 DEF IInv, ServerIsHonest, RefusedBefore
    <3> QED BY <2>1, <2>2, <2>3, <2>4, <2>5, <3>1, EndingKeeps DEF Goto
  <2>6. CASE a.kind = "error"
    BY <2>1, <2>2, <2>3, <2>4, <2>6, EndingKeeps DEF Goto
  <2>7. CASE a.kind = "result"
    <3>1. /\ pc' = [pc EXCEPT ![p.call] = "resolved"]
          /\ answer' = [answer EXCEPT ![p.call] = p.id]
          /\ p.id \in executed
      BY <2>1, <2>7 DEF Goto, IInv, ServerIsHonest
    <3>p. p = [id |-> p.id, call |-> p.call] /\ p.id \in Nat
      BY <2>2
    <3>2. TypeOK'
      BY <2>1, <2>2, <2>4, <3>1, <3>p DEF IInv, TypeOK
    <3>3. IdsAreFresh' /\ ServerIsHonest'
      BY <2>1, <2>4 DEF IInv, IdsAreFresh, ServerIsHonest
    <3>4. PendingIsWhoWaits'
      BY <2>1, <2>2, <2>3, <2>4, <3>1 DEF IInv, PendingIsWhoWaits, TypeOK
    <3>5. RefusedBefore'
      BY <2>2, <2>4, <3>1 DEF IInv, RefusedBefore, TypeOK
    <3>6. AttemptsAreCounted'
      BY <2>2, <2>4, <3>1 DEF IInv, AttemptsAreCounted, TypeOK, MaximumAttempts
    <3>7. ResultIsOwn'
      BY <2>2, <2>4, <3>1, <3>p DEF IInv, ResultIsOwn, TypeOK
    <3>8. AbortIsHeeded' /\ NoneWaitsOnTheDead'
      BY <2>2, <2>4, <3>1 DEF IInv, AbortIsHeeded, NoneWaitsOnTheDead, TypeOK
    <3> QED BY <3>2, <3>3, <3>4, <3>5, <3>6, <3>7, <3>8 DEF IInv
  <2> QED BY <1>0, <2>5, <2>6, <2>7
<1> QED BY <1>1, <1>2

LEMMA RejectAllKeeps ==
  ASSUME IInv, RejectAll, transport' \in {transport, "exited"}
  PROVE  IInv'
<1>1. \A d \in Calls : pc'[d] = IF pc[d] = "waiting" THEN "rejected" ELSE pc[d]
  BY DEF RejectAll, IInv, PendingIsWhoWaits
<1>2. TypeOK'
  BY DEF RejectAll, IInv, TypeOK
<1>3. IdsAreFresh' /\ ServerIsHonest'
  BY DEF RejectAll, IInv, IdsAreFresh, ServerIsHonest
<1>4. PendingIsWhoWaits'
  BY <1>1 DEF RejectAll, IInv, PendingIsWhoWaits, TypeOK
<1>5. RefusedBefore'
  BY <1>1 DEF RejectAll, IInv, RefusedBefore, TypeOK
<1>6. AttemptsAreCounted'
  BY <1>1 DEF RejectAll, IInv, AttemptsAreCounted, TypeOK, MaximumAttempts
<1>7. ResultIsOwn' /\ AbortIsHeeded' /\ NoneWaitsOnTheDead'
  BY <1>1 DEF RejectAll, IInv, ResultIsOwn, AbortIsHeeded, NoneWaitsOnTheDead, TypeOK
<1> QED BY <1>2, <1>3, <1>4, <1>5, <1>6, <1>7 DEF IInv

\* Everything else leaves the calls alone.
LEMMA ServerStepKeeps ==
  ASSUME IInv, NEW p \in sent,
         Execute(p) \/ Refuse(p) \/ \E kind \in Answers : Reply(p, kind)
  PROVE  IInv'
<1>0. p.id \in Nat
  BY DEF IInv, TypeOK
<1>1. CASE Execute(p)
  <2>1. TypeOK'
    BY <1>0, <1>1 DEF Execute, IInv, TypeOK
  <2>2. IdsAreFresh'
    BY <1>1 DEF Execute, IInv, IdsAreFresh
  <2>3. ServerIsHonest'
    BY <1>1 DEF Execute, IInv, ServerIsHonest
  <2>4. PendingIsWhoWaits' /\ RefusedBefore'
    BY <1>1 DEF Execute, IInv, PendingIsWhoWaits, RefusedBefore
  <2>5. AttemptsAreCounted'
    BY <1>1 DEF Execute, IInv, AttemptsAreCounted, MaximumAttempts
  <2>6. ResultIsOwn'
    BY <1>1 DEF Execute, IInv, ResultIsOwn
  <2>7. AbortIsHeeded' /\ NoneWaitsOnTheDead'
    BY <1>1 DEF Execute, IInv, AbortIsHeeded, NoneWaitsOnTheDead
  <2> QED BY <2>1, <2>2, <2>3, <2>4, <2>5, <2>6, <2>7 DEF IInv
<1>2. CASE Refuse(p)
  <2>1. TypeOK'
    BY <1>0, <1>2 DEF Refuse, IInv, TypeOK
  <2>2. IdsAreFresh'
    BY <1>2 DEF Refuse, IInv, IdsAreFresh
  <2>3. ServerIsHonest'
    BY <1>2 DEF Refuse, IInv, ServerIsHonest
  <2>4. PendingIsWhoWaits' /\ RefusedBefore'
    BY <1>2 DEF Refuse, IInv, PendingIsWhoWaits, RefusedBefore
  <2>5. AttemptsAreCounted'
    BY <1>2 DEF Refuse, IInv, AttemptsAreCounted, MaximumAttempts
  <2>6. ResultIsOwn'
    BY <1>2 DEF Refuse, IInv, ResultIsOwn
  <2>7. AbortIsHeeded' /\ NoneWaitsOnTheDead'
    BY <1>2 DEF Refuse, IInv, AbortIsHeeded, NoneWaitsOnTheDead
  <2> QED BY <2>1, <2>2, <2>3, <2>4, <2>5, <2>6, <2>7 DEF IInv
<1>3. ASSUME NEW kind \in Answers, Reply(p, kind) PROVE IInv'
  <2>1. TypeOK' /\ ServerIsHonest'
    BY <1>0, <1>3 DEF Reply, IInv, TypeOK, ServerIsHonest
  <2> QED
    BY <1>3, <2>1 DEF Reply, IInv, IdsAreFresh, PendingIsWhoWaits, RefusedBefore,
       AttemptsAreCounted, MaximumAttempts, ResultIsOwn, AbortIsHeeded, NoneWaitsOnTheDead
<1> QED BY <1>1, <1>2, <1>3

LEMMA QuietKeeps ==
  ASSUME IInv, (\E c \in Calls : DeadlinePasses(c)) \/ Close \/ UNCHANGED vars
  PROVE  IInv'
<1>1. /\ expired' \in SUBSET Calls
      /\ transport' \in {"open", "closing", "exited"}
      /\ transport' = "exited" => transport = "exited"
      /\ UNCHANGED <<pc, attempt, idOf, nextId, pending, aborted, answer, sent,
                     executed, refused, outbox>>
  BY DEF DeadlinePasses, Close, vars, IInv, TypeOK
<1> QED
  BY <1>1 DEF IInv, TypeOK, IdsAreFresh, ServerIsHonest, PendingIsWhoWaits, RefusedBefore,
     AttemptsAreCounted, MaximumAttempts, ResultIsOwn, AbortIsHeeded, NoneWaitsOnTheDead

\* The inductive invariant of the client, for any set of calls.
THEOREM Inductive == Spec => []IInv
<1>1. IInv /\ [Next]_vars => IInv'
  <2> SUFFICES ASSUME IInv, [Next]_vars PROVE IInv'
    OBVIOUS
  <2>1. ASSUME NEW c \in Calls, CallStep(c) PROVE IInv'
    BY <2>1, CallStepKeeps
  <2>2. ASSUME NEW c \in Calls, Abort(c) PROVE IInv'
    BY <2>2, AbortKeeps
  <2>3. ASSUME NEW a \in outbox, ReadAnswer(a) PROVE IInv'
    BY <2>3, ReadAnswerKeeps
  <2>4. CASE ServerExits \/ TransportError
    BY <2>4, RejectAllKeeps DEF ServerExits, TransportError
  <2>5. ASSUME NEW p \in sent,
               Execute(p) \/ Refuse(p) \/ \E kind \in Answers : Reply(p, kind)
        PROVE  IInv'
    BY <2>5, ServerStepKeeps
  <2>6. CASE (\E c \in Calls : DeadlinePasses(c)) \/ Close \/ UNCHANGED vars
    BY <2>6, QuietKeeps
  <2> QED BY <2>1, <2>2, <2>3, <2>4, <2>5, <2>6 DEF Next
<1> QED BY InitIsInductive, <1>1, PTL DEF Spec

\* The state of the client is well typed; a call never makes a fourth attempt.
THEOREM TypeCorrect == Spec => []TypeOK
<1>1. IInv => TypeOK
  BY DEF IInv
<1> QED BY Inductive, <1>1, PTL

\* The pending map holds exactly the calls that wait.
THEOREM PendingIsExact == Spec => []PendingIsWhoWaits
<1>1. IInv => PendingIsWhoWaits
  BY DEF IInv
<1> QED BY Inductive, <1>1, PTL

\* A call resolves only with the executed result of its own last request.
THEOREM ResultsAreOwn == Spec => []ResultIsOwn
<1>1. IInv => ResultIsOwn
  BY DEF IInv
<1> QED BY Inductive, <1>1, PTL

\* No two requests of a call are executed, and only a safe read writes two.
THEOREM NoReplay == Spec => []NothingIsReplayed
<1>1. IInv => NothingIsReplayed
  <2> SUFFICES ASSUME IInv, NEW c \in Calls, NEW p \in sent, NEW q \in sent,
                      p.call = c, q.call = c, p # q
               PROVE  c \in SafeReads /\ ~(p.id \in executed /\ q.id \in executed)
    BY DEF NothingIsReplayed
  <2>1. p.id # q.id
    BY DEF IInv, IdsAreFresh
  <2>2. p.id \in refused \/ q.id \in refused
    BY <2>1 DEF IInv, RefusedBefore
  <2>3. c \in SafeReads
    BY <2>1 DEF IInv, AttemptsAreCounted
  <2> QED BY <2>2, <2>3 DEF IInv, ServerIsHonest
<1> QED BY Inductive, <1>1, PTL

\* Aborted calls do not wait, and no call waits on a server that has exited.
THEOREM NobodyIsForgotten == Spec => [](AbortIsHeeded /\ NoneWaitsOnTheDead)
<1>1. IInv => AbortIsHeeded /\ NoneWaitsOnTheDead
  BY DEF IInv
<1> QED BY Inductive, <1>1, PTL
=============================================================================
