---------------------------- MODULE JsonRpcClient ----------------------------
(***************************************************************************)
(* JsonRpcClient.request of src/src/codex/json-rpc.ts over the stdio       *)
(* transport of src/src/codex/transport.ts.  Several calls share one       *)
(* connection and one map of pending requests.  A call writes a request    *)
(* under a fresh id and settles by its answer, its deadline, its abort     *)
(* signal, or the loss of the connection; a call of a method that only     *)
(* reads is tried again, under another id, when the server is overloaded.  *)
(*                                                                         *)
(* Answers are unordered and may be duplicated or late.  Malformed answers *)
(* are errors like any other.  Time is the fact that a deadline has        *)
(* passed; whether a backoff would reach it is a choice.                   *)
(***************************************************************************)
EXTENDS Naturals, FiniteSets

CONSTANTS
  Calls,        \* calls of request
  MaxUnread,    \* answers that can be on their way at once
  SafeReads     \* those whose method is in RETRY_SAFE_READ_METHODS

ASSUME CallsAssumption ==
  IsFiniteSet(Calls) /\ SafeReads \subseteq Calls /\ MaxUnread \in Nat

MaxReadRetries == 3    \* MAX_READ_RETRIES

VARIABLES
  pc,          \* where each call stands
  attempt,     \* its attempt in the loop of request
  idOf,        \* the id of its last attempt, 0 before the first
  nextId,      \* #nextId
  pending,     \* #pending: which call waits on which id
  aborted,     \* calls whose signal has aborted
  expired,     \* calls whose deadline has passed
  answer,      \* the id a resolved call took its result from
  transport,   \* the child process and its stdin
  sent,        \* all requests written
  executed,    \* ids the server has executed
  refused,     \* ids it has refused as overloaded
  outbox       \* answers on their way to the client

vars == <<pc, attempt, idOf, nextId, pending, aborted, expired, answer,
          transport, sent, executed, refused, outbox>>

-----------------------------------------------------------------------------
Settled == {"resolved", "rejected"}
Answers == {"result", "error", "overloaded"}

Request == [id : Nat, call : Calls]
Answer  == [id : Nat, kind : Answers]

TypeOK ==
  /\ pc \in [Calls -> {"idle", "waiting", "overloaded", "backoff"} \cup Settled]
  /\ attempt \in [Calls -> 0..MaxReadRetries]
  /\ idOf \in [Calls -> Nat]
  /\ nextId \in Nat \ {0}
  /\ pending \in SUBSET Request
  /\ aborted \in SUBSET Calls
  /\ expired \in SUBSET Calls
  /\ answer \in [Calls -> Nat]
  /\ transport \in {"open", "closing", "exited"}
  /\ sent \in SUBSET Request
  /\ executed \in SUBSET Nat
  /\ refused \in SUBSET Nat
  /\ outbox \in SUBSET Answer

Init ==
  /\ pc = [c \in Calls |-> "idle"]
  /\ attempt = [c \in Calls |-> 0]
  /\ idOf = [c \in Calls |-> 0]
  /\ nextId = 1
  /\ pending = {}
  /\ aborted = {}
  /\ expired = {}
  /\ answer = [c \in Calls |-> 0]
  /\ transport = "open"
  /\ sent = {}
  /\ executed = {}
  /\ refused = {}
  /\ outbox = {}

\* Faulty: every method is tried again.
MaximumAttemptsOfAny(c) == MaxReadRetries

MaximumAttempts(c) == IF c \in SafeReads THEN MaxReadRetries ELSE 1

Goto(c, where) == pc' = [pc EXCEPT ![c] = where]

\* #cleanupPending
Without(c) == {p \in pending : p.call # c}

\* One turn of the loop: #requestOnce unless the deadline has passed.  The id is
\* used up even when the signal has aborted or the transport cannot be written.
Attempt(c) ==
  /\ attempt' = [attempt EXCEPT ![c] = @ + 1]
  /\ IF c \in expired
     THEN Goto(c, "rejected") /\ UNCHANGED <<idOf, nextId, pending, sent>>
     ELSE /\ nextId' = nextId + 1
          /\ idOf' = [idOf EXCEPT ![c] = nextId]
          /\ IF c \in aborted \/ transport # "open"
             THEN Goto(c, "rejected") /\ UNCHANGED <<pending, sent>>
             ELSE /\ Goto(c, "waiting")
                  /\ pending' = pending \cup {[id |-> nextId, call |-> c]}
                  /\ sent' = sent \cup {[id |-> nextId, call |-> c]}
  /\ UNCHANGED <<aborted, expired, answer, transport, executed, refused, outbox>>

-----------------------------------------------------------------------------
(* Steps of a call *)

Call(c) ==
  /\ pc[c] = "idle"
  /\ IF c \in aborted
     THEN /\ Goto(c, "rejected")
          /\ UNCHANGED <<attempt, idOf, nextId, pending, aborted, expired, answer,
                         transport, sent, executed, refused, outbox>>
     ELSE Attempt(c)

\* Faulty: the timer rejects and leaves the entry in the map.
TimerFiresOnly(c) ==
  /\ pc[c] = "waiting"
  /\ c \in expired
  /\ Goto(c, "rejected")
  /\ UNCHANGED <<attempt, idOf, nextId, pending, aborted, expired, answer, transport,
                 sent, executed, refused, outbox>>

\* Faulty: a retry has no timer.
TimerOfFirstAttempt(c) ==
  /\ pc[c] = "waiting"
  /\ c \in expired
  /\ attempt[c] = 1
  /\ Goto(c, "rejected")
  /\ pending' = Without(c)
  /\ UNCHANGED <<attempt, idOf, nextId, aborted, expired, answer, transport, sent,
                 executed, refused, outbox>>

\* The timer of the attempt: it was set to what was left of the deadline.
TimerFires(c) ==
  /\ pc[c] = "waiting"
  /\ c \in expired
  /\ Goto(c, "rejected")
  /\ pending' = Without(c)
  /\ UNCHANGED <<attempt, idOf, nextId, aborted, expired, answer, transport, sent,
                 executed, refused, outbox>>

\* The catch block after an answer of -32001: no attempt or too little time is
\* left, or the signal has aborted.
GiveUp(c) ==
  /\ pc[c] = "overloaded"
  /\ Goto(c, "rejected")
  /\ UNCHANGED <<attempt, idOf, nextId, pending, aborted, expired, answer, transport,
                 sent, executed, refused, outbox>>

Backoff(c) ==
  /\ pc[c] = "overloaded"
  /\ attempt[c] < MaximumAttempts(c)
  /\ c \notin expired
  /\ c \notin aborted
  /\ Goto(c, "backoff")
  /\ UNCHANGED <<attempt, idOf, nextId, pending, aborted, expired, answer, transport,
                 sent, executed, refused, outbox>>

Retry(c) ==
  /\ pc[c] = "backoff"
  /\ Attempt(c)

-----------------------------------------------------------------------------
(* Callbacks *)

\* The signal aborts: a waiting or sleeping call is rejected at once.
Abort(c) ==
  /\ c \notin aborted
  /\ pc[c] \notin Settled
  /\ aborted' = aborted \cup {c}
  /\ IF pc[c] \in {"waiting", "backoff"}
     THEN Goto(c, "rejected") /\ pending' = Without(c)
     ELSE UNCHANGED <<pc, pending>>
  /\ UNCHANGED <<attempt, idOf, nextId, expired, answer, transport, sent, executed, refused, outbox>>

DeadlinePasses(c) ==
  /\ c \notin expired
  /\ pc[c] \notin Settled \cup {"idle"}
  /\ expired' = expired \cup {c}
  /\ UNCHANGED <<pc, attempt, idOf, nextId, pending, aborted, answer, transport, sent,
                 executed, refused, outbox>>

\* Faulty: an answer is taken to be for any request that waits.
ReadAnswerOfAny(a) ==
  /\ a \in outbox
  /\ outbox' = outbox \ {a}
  /\ IF pending # {}
     THEN \E p \in pending :
            /\ pending' = pending \ {p}
            /\ IF a.kind = "result"
               THEN /\ Goto(p.call, "resolved")
                    /\ answer' = [answer EXCEPT ![p.call] = a.id]
               ELSE /\ Goto(p.call, IF a.kind = "overloaded" THEN "overloaded" ELSE "rejected")
                    /\ UNCHANGED answer
     ELSE UNCHANGED <<pc, pending, answer>>
  /\ UNCHANGED <<attempt, idOf, nextId, aborted, expired, transport, sent, executed, refused>>

\* #handleResponse: only an id in the map settles anything, and only its call.
ReadAnswer(a) ==
  /\ a \in outbox
  /\ outbox' = outbox \ {a}
  /\ IF \E p \in pending : p.id = a.id
     THEN \E p \in pending :
            /\ p.id = a.id
            /\ pending' = pending \ {p}
            /\ IF a.kind = "result"
               THEN /\ Goto(p.call, "resolved")
                    /\ answer' = [answer EXCEPT ![p.call] = a.id]
               ELSE /\ Goto(p.call, IF a.kind = "overloaded" THEN "overloaded" ELSE "rejected")
                    /\ UNCHANGED answer
     ELSE UNCHANGED <<pc, pending, answer>>
  /\ UNCHANGED <<attempt, idOf, nextId, aborted, expired, transport, sent, executed,
                 refused>>

\* #rejectAll
RejectAll ==
  /\ pc' = [c \in Calls |-> IF \E p \in pending : p.call = c THEN "rejected" ELSE pc[c]]
  /\ pending' = {}
  /\ UNCHANGED <<attempt, idOf, nextId, aborted, expired, answer, sent, executed, refused, outbox>>

ServerExits ==
  /\ transport # "exited"
  /\ transport' = "exited"
  /\ RejectAll

\* A failed write or an oversized frame: the transport reports an error and may
\* live on.
TransportError ==
  /\ transport # "exited"
  /\ RejectAll
  /\ UNCHANGED transport

\* close ends stdin; what is pending waits for the exit or its own timer.
Close ==
  /\ transport = "open"
  /\ transport' = "closing"
  /\ UNCHANGED <<pc, attempt, idOf, nextId, pending, aborted, expired, answer, sent,
                 executed, refused, outbox>>

-----------------------------------------------------------------------------
(* The App Server *)

\* It executes a request at most once or refuses it as overloaded, and answers
\* in any order, more than once, or not at all.
Execute(p) ==
  /\ transport # "exited"
  /\ p.id \notin executed \cup refused
  /\ executed' = executed \cup {p.id}
  /\ UNCHANGED <<pc, attempt, idOf, nextId, pending, aborted, expired, answer,
                 transport, sent, refused, outbox>>

Refuse(p) ==
  /\ transport # "exited"
  /\ p.id \notin executed \cup refused
  /\ refused' = refused \cup {p.id}
  /\ UNCHANGED <<pc, attempt, idOf, nextId, pending, aborted, expired, answer,
                 transport, sent, executed, outbox>>

Reply(p, kind) ==
  /\ transport # "exited"
  /\ kind = "result" => p.id \in executed
  /\ kind = "overloaded" => p.id \in refused
  /\ Cardinality(outbox) < MaxUnread
  /\ outbox' = outbox \cup {[id |-> p.id, kind |-> kind]}
  /\ UNCHANGED <<pc, attempt, idOf, nextId, pending, aborted, expired, answer,
                 transport, sent, executed, refused>>

-----------------------------------------------------------------------------
CallStep(c) == Call(c) \/ TimerFires(c) \/ GiveUp(c) \/ Backoff(c) \/ Retry(c)

Next ==
  \/ \E c \in Calls : CallStep(c) \/ Abort(c) \/ DeadlinePasses(c)
  \/ \E a \in outbox : ReadAnswer(a)
  \/ ServerExits
  \/ TransportError
  \/ Close
  \/ \E p \in sent : Execute(p) \/ Refuse(p) \/ \E kind \in Answers : Reply(p, kind)

Spec == Init /\ [][Next]_vars

\* Timers and continuations run; the server may do nothing.
FairSpec == Spec /\ \A c \in Calls : WF_vars(CallStep(c)) /\ WF_vars(DeadlinePasses(c))

-----------------------------------------------------------------------------
(* Safety *)

\* The map of pending requests is exactly who waits: one entry for each waiting
\* call, under the id of its last attempt, and none for a call that settled by
\* timeout, abort, error or exit (#cleanupPending on every path).
PendingIsWhoWaits ==
  /\ \A p \in pending : pc[p.call] = "waiting" /\ idOf[p.call] = p.id
  /\ \A c \in Calls : pc[c] = "waiting" => [id |-> idOf[c], call |-> c] \in pending

\* A call resolves only with the result of its own last request, which the
\* server executed: late and duplicated answers of other ids are ignored.
ResultIsOwn ==
  \A c \in Calls : pc[c] = "resolved" =>
    /\ answer[c] = idOf[c]
    /\ [id |-> answer[c], call |-> c] \in sent
    /\ answer[c] \in executed

\* Nothing is replayed: the server executes at most one request of a call, and a
\* call that is not a safe read writes only one.
NothingIsReplayed ==
  \A c \in Calls : \A p, q \in sent :
    p.call = c /\ q.call = c /\ p # q =>
      c \in SafeReads /\ ~(p.id \in executed /\ q.id \in executed)

\* An aborted call neither waits nor sleeps, not even across a retry.
AbortIsHeeded ==
  \A c \in aborted : pc[c] \notin {"waiting", "backoff"}

\* Once the exit is known no call waits for an answer, those included that were
\* made during or after close.
NoneWaitsOnTheDead == transport = "exited" => \A c \in Calls : pc[c] # "waiting"

\* Every call settles, whatever the server does.
CallsSettle == \A c \in Calls : (pc[c] # "idle") ~> (pc[c] \in Settled)
=============================================================================
