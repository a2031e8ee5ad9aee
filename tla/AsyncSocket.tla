---------------------------- MODULE AsyncSocket ----------------------------
(***************************************************************************)
(* The sockets of the local adapters (async_socket/__init__.py): a socket  *)
(* of this host, whose blocking calls run in threads ("plain"), or the     *)
(* tunnel to another process, which answers in the order of the calls and  *)
(* through the reception ("tunnel").                                       *)
(*                                                                         *)
(* The calls share one event and one result, under a lock; the reception   *)
(* is a task of its own. A socket object is opened once, used and closed.  *)
(***************************************************************************)
EXTENDS Naturals

CONSTANTS MaxCalls  \* bound: the calls made on the socket

ASSUME SocketAssumption == MaxCalls \in Nat

Call == 1 .. MaxCalls
None == 0

\* The calls that end without taking their answer: no answer in time, the caller gave
\* up, or the tunnel broke while they were written.
GivenUp == {"timeout", "cancelled", "broken"}

\* What async_socket_recv and the reader of the tunnel give: data, the end of the
\* stream, or an error, which a readable socket without data counts as.
Read == {"data", "eof", "stuck", "error"}

VARIABLES
  socket,     \* AsyncSocket or AsyncTunnelSocket
  phase,      \* "new", "opening", "opened", "starting", "started", "failed", "closed",
              \* or "interrupted": closed while async_start_recv was awaited
  starter,    \* the call that starts the reception of the tunnel
  reception,  \* _recv_task: "none", "created", "reading" or "ended"
  functional, \* _functional_recv_started
  errors,     \* the calls of the error callback
  early,      \* auxiliary: the reception ended before it was functional
  pc,         \* each call: "new", "waiting" (for the lock), "writing" (to the tunnel),
              \* "sent", or how it ended
  got,        \* the call whose answer each call returned
  clean,      \* auxiliary: no answer was due when the call took the lock
  answers,    \* the calls whose answer is due
  event,      \* _cmd_event
  res         \* _cmd_res or _cmd_exc: the call it answers

life       == <<socket, phase, starter>>
recep      == <<reception, functional, errors, early>>
calls      == <<pc, got, clean, answers>>
slot       == <<event, res>>
socketVars == <<life, recep, calls, slot>>

Ended == {"answered", "raised"} \cup GivenUp

SocketTypeOK ==
  /\ socket \in {"plain", "tunnel"}
  /\ phase \in {"new", "opening", "opened", "starting", "started", "failed", "closed",
                "interrupted"}
  /\ starter \in Call \cup {None}
  /\ reception \in {"none", "created", "reading", "ended"}
  /\ functional \in BOOLEAN
  /\ errors \in Nat
  /\ early \in BOOLEAN
  /\ pc \in [Call -> {"new", "waiting", "writing", "sent"} \cup Ended]
  /\ got \in [Call -> Call \cup {None}]
  /\ clean \in [Call -> BOOLEAN]
  /\ answers \subseteq Call
  /\ event \in BOOLEAN
  /\ res \in Call \cup {None}

SocketInit ==
  /\ socket \in {"plain", "tunnel"}
  /\ phase = "new"
  /\ starter = None
  /\ reception = "none"
  /\ functional = FALSE
  /\ errors = 0
  /\ early = FALSE
  /\ pc = [c \in Call |-> "new"]
  /\ got = [c \in Call |-> None]
  /\ clean = [c \in Call |-> FALSE]
  /\ answers = {}
  /\ event = FALSE
  /\ res = None

-----------------------------------------------------------------------------
(***************************************************************************)
(* The calls: _async_call_base.                                            *)
(***************************************************************************)

Asked(c) == pc[c] = "new" /\ \A b \in 1 .. (c - 1) : pc[b] # "new"

\* A call joins those that wait for the lock.
Ask(c) ==
  /\ phase \notin {"new", "opening"} /\ Asked(c)
  /\ pc' = [pc EXCEPT ![c] = "waiting"]
  /\ UNCHANGED <<life, recep, got, clean, answers, slot>>

\* The call that holds the lock.
Holds(c) == pc[c] \in {"writing", "sent"}
LockFree == \A b \in Call : ~Holds(b)

IsClosed == phase \in {"closed", "interrupted"}

\* Where _async_call leaves a call: the tunnel makes it wait when it has too much to
\* write (drain). Once closed, the plain socket is gone and raises, the tunnel sends
\* nothing.
AfterCall ==
  IF socket = "plain" THEN (IF IsClosed THEN {"raised"} ELSE {"sent"})
  ELSE IF IsClosed THEN {"sent"} ELSE {"sent", "writing"}

\* The lock is taken in the order of the calls; the event and the result of the call
\* before are cleared, and the call is sent.
BeginKeepEvent(c) ==
  /\ pc[c] = "waiting" /\ LockFree /\ \A b \in 1 .. (c - 1) : pc[b] # "waiting"
  /\ clean' = [clean EXCEPT ![c] = (answers = {})]
  /\ \E next \in AfterCall : pc' = [pc EXCEPT ![c] = next]
  /\ answers' = IF IsClosed THEN answers ELSE answers \cup {c}
  /\ UNCHANGED <<life, recep, got, slot>>
Begin(c) ==
  /\ pc[c] = "waiting" /\ LockFree /\ \A b \in 1 .. (c - 1) : pc[b] # "waiting"
  /\ event' = FALSE
  /\ res' = None
  /\ clean' = [clean EXCEPT ![c] = (answers = {})]
  /\ \E next \in AfterCall : pc' = [pc EXCEPT ![c] = next]
  /\ answers' = IF IsClosed THEN answers ELSE answers \cup {c}
  /\ UNCHANGED <<life, recep, got>>

\* The tunnel has written enough, or is broken and raises.
Written(c) ==
  /\ pc[c] = "writing"
  /\ \E next \in {"sent", "broken"} : pc' = [pc EXCEPT ![c] = next]
  /\ UNCHANGED <<life, recep, got, clean, answers, slot>>

\* _base_call_result or _base_call_exception: the answers of the threads come in any
\* order, those of the tunnel in the order of the calls, while its reception reads.
Answer(c) ==
  /\ c \in answers
  /\ socket = "tunnel" => reception = "reading" /\ \A b \in answers : c <= b
  /\ answers' = answers \ {c}
  /\ event' = TRUE
  /\ res' = c
  /\ UNCHANGED <<life, recep, pc, got, clean>>

\* The call that holds the lock wakes up: it returns, or raises, what the slot holds.
Return(c) ==
  /\ pc[c] = "sent" /\ event
  /\ pc' = [pc EXCEPT ![c] = "answered"]
  /\ got' = [got EXCEPT ![c] = res]
  /\ UNCHANGED <<life, recep, clean, answers, slot>>

\* No answer in one second, which is counted from the end of the writing.
TimeoutOfOthers(c) ==
  /\ pc[c] = "sent" /\ ~event /\ c # starter
  /\ pc' = [pc EXCEPT ![c] = "timeout"]
  /\ UNCHANGED <<life, recep, got, clean, answers, slot>>
Timeout(c) ==
  /\ pc[c] = "sent" /\ ~event
  /\ pc' = [pc EXCEPT ![c] = "timeout"]
  /\ UNCHANGED <<life, recep, got, clean, answers, slot>>

\* The one who called gives up (MAX_ADV_WAIT), waiting for the lock, the tunnel or the
\* answer.
Cancel(c) ==
  /\ pc[c] = "waiting" \/ Holds(c)
  /\ pc' = [pc EXCEPT ![c] = "cancelled"]
  /\ UNCHANGED <<life, recep, got, clean, answers, slot>>

-----------------------------------------------------------------------------
(***************************************************************************)
(* The opening, the reception and the closing.                             *)
(***************************************************************************)

\* The tunnel reads its answers as soon as it is connected, the plain socket only
\* once it is asked to start.
OpenSocket ==
  /\ phase = "new"
  /\ \/ socket = "plain" /\ phase' = "opened" /\ UNCHANGED reception
     \/ socket = "tunnel" /\ phase' = "opening" /\ reception' = "created"
  /\ UNCHANGED <<socket, starter, functional, errors, early, calls, slot>>

\* The task of _async_base_receive starts: _ready_recv_event.
ReceptionBegins ==
  /\ reception = "created"
  /\ reception' = "reading"
  /\ phase' = IF phase = "opening" THEN "opened" ELSE phase
  /\ UNCHANGED <<socket, starter, functional, errors, early, calls, slot>>

\* async_start_recv: a task for the plain socket, a call for the tunnel.
StartRecv ==
  /\ phase = "opened"
  /\ phase' = "starting"
  /\ \/ /\ socket = "plain"
        /\ reception' = "created"
        /\ UNCHANGED <<starter, pc>>
     \/ /\ socket = "tunnel"
        /\ \E c \in Call : /\ Asked(c)
                           /\ starter' = c
                           /\ pc' = [pc EXCEPT ![c] = "waiting"]
        /\ UNCHANGED reception
  /\ UNCHANGED <<socket, functional, errors, early, got, clean, answers, slot>>

\* The end of async_start_recv, which does not see that the socket was closed.
Started ==
  /\ phase \in {"starting", "interrupted"}
  /\ \/ socket = "plain" /\ reception # "created"
     \/ socket = "tunnel" /\ pc[starter] = "answered"
  /\ phase' = IF phase = "starting" THEN "started" ELSE "closed"
  /\ functional' = TRUE
  /\ UNCHANGED <<socket, starter, reception, errors, early, calls, slot>>

StartFails ==
  /\ phase \in {"starting", "interrupted"}
  /\ socket = "tunnel" /\ pc[starter] \in {"raised"} \cup GivenUp
  /\ phase' = IF phase = "starting" THEN "failed" ELSE "closed"
  /\ UNCHANGED <<socket, starter, recep, calls, slot>>

\* The reception ends on anything but data, and calls the error callback when it is
\* functional.
EndReceptionFlagKept(r) ==
  /\ reception = "reading" /\ r # "data"
  /\ reception' = "ended"
  /\ errors' = errors
  /\ early' = (early \/ ~functional)
  /\ UNCHANGED <<life, functional, calls, slot>>
EndReception(r) ==
  /\ reception = "reading" /\ r # "data"
  /\ reception' = "ended"
  /\ errors' = IF functional THEN errors + 1 ELSE errors
  /\ early' = (early \/ ~functional)
  /\ functional' = FALSE
  /\ UNCHANGED <<life, calls, slot>>

\* Something awaits the end of async_start_recv. A plain socket closed before its
\* reception begins cancels it, and async_start_recv times out.
Starting ==
  \/ phase = "interrupted"
  \/ phase = "starting" /\ (socket = "tunnel" \/ reception # "created")

\* close: the flag falls first, so that the end of the reception is not an error.
CloseSocketOnly ==
  /\ phase' = "closed"
  /\ UNCHANGED <<socket, starter, recep, calls, slot>>
CloseSocket ==
  /\ phase' = IF Starting THEN "interrupted" ELSE "closed"
  /\ functional' = FALSE
  /\ reception' = IF reception \in {"created", "reading"} THEN "ended" ELSE reception
  /\ UNCHANGED <<socket, starter, errors, early, calls, slot>>

SocketNext ==
  \/ \E c \in Call : \/ Ask(c) \/ Begin(c) \/ Written(c) \/ Answer(c)
                     \/ Return(c) \/ Timeout(c) \/ Cancel(c)
  \/ OpenSocket \/ ReceptionBegins \/ StartRecv \/ Started \/ StartFails \/ CloseSocket
  \/ \E r \in Read : EndReception(r)

\* The event loop runs what is ready, the timer of a call ends, and the other process
\* reads what the tunnel writes, or hangs up: nothing bounds drain() otherwise.
SocketFairness ==
  /\ \A c \in Call : /\ WF_socketVars(Begin(c)) /\ WF_socketVars(Written(c))
                     /\ WF_socketVars(Return(c)) /\ WF_socketVars(Timeout(c))
  /\ WF_socketVars(ReceptionBegins) /\ WF_socketVars(Started) /\ WF_socketVars(StartFails)

SocketSpec == SocketInit /\ [][SocketNext]_socketVars /\ SocketFairness

-----------------------------------------------------------------------------
\* A call returns the answer of another one only if that one had given up, or had
\* itself returned the answer of another: an answer that comes late is taken for the
\* one that is expected (async_socket/__init__.py:125, 139), and only then.
WrongAnswerOnlyAfterGivenUp ==
  \A c \in Call : pc[c] = "answered" /\ got[c] # c =>
     /\ got[c] \in 1 .. (c - 1)
     /\ pc[got[c]] \in GivenUp \/ (pc[got[c]] = "answered" /\ got[got[c]] # got[c])

\* The calls come back in step: one that takes the lock when no answer is due never
\* returns the answer of another.
CleanCallOwnAnswer == \A c \in Call : clean[c] /\ pc[c] = "answered" => got[c] = c

\* Which answer a call may return: its own, but after calls that gave up while theirs
\* were due.
AnswersOwned == WrongAnswerOnlyAfterGivenUp /\ CleanCallOwnAnswer

\* The end of the reception of a socket in use is reported once, unless it comes
\* before async_start_recv has returned; a closed socket reports nothing.
EndReported ==
  /\ errors <= 1
  /\ phase = "started" /\ reception = "ended" /\ ~early => errors = 1

CloseIsSilent == [][errors' # errors => phase = "started"]_socketVars

\* Every call ends, as long as the process at the other end of the tunnel reads what it
\* is sent: the lock is always released.
CallsEnd == \A c \in Call : pc[c] = "waiting" ~> pc[c] \in Ended
=============================================================================
