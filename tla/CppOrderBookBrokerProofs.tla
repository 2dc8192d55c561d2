---------------------- MODULE CppOrderBookBrokerProofs ----------------------
(***************************************************************************)
(* The broker that talks to the order book server: its sockets, its maps   *)
(* and what it reports.                                                    *)
(*                                                                         *)
(* Sockets.  A step is one of a few shapes of what it does to the calls    *)
(* and the sockets (Shapes), and SocketInv has one lemma per shape.        *)
(* Undisturbed is what two threads that share self.socket without a lock   *)
(* cannot do to each other.                                                *)
(*                                                                         *)
(* Reports.  MapsOK: while an order is in the maps its client has been     *)
(* told nothing final, but in the call that is about to take it out; and   *)
(* no two orders of the maps are of one client.  So a confirmation, which  *)
(* is of an order in the maps, never follows a final one.  CallersOK and   *)
(* MessagesOK say what the calls are about and what travels.               *)
(*                                                                         *)
(* Shares.  Backed: for an order of the maps, what its client was told of, *)
(* what is in the answers on the wire and what is in the answer at hand    *)
(* add up to no more than was executed.  The server executes before it     *)
(* answers, an answer is received once, and its fills are reported to the  *)
(* clients of their ids, which OwnersOK and KnownOK keep the owners the    *)
(* book knows.                                                             *)
(*                                                                         *)
(* Fates, while the client does not start over (MaxRestarts = 0).  FateOK: *)
(* an id is added to the book once, so an order that was requested and is  *)
(* neither in the book nor on its way stays out.  Tallied: the book kept   *)
(* accounts of what rests, so what was reported as filled was executed.    *)
(* Traffic: what a call can receive is about its own order, so a final     *)
(* verdict is the book's on that order.  Together they give                *)
(* FinishedIsGone.                                                         *)
(*                                                                         *)
(* Agreement, where no request fails (Calm).  InTurn: client and server    *)
(* take turns.  Mirrored: the maps are the book but for what an answer is  *)
(* about to settle.  Exact: what was reported and what the answer at hand  *)
(* owes is what was executed.  Decided: the book confirms every cancel.    *)
(* Only a call that waits for its own lock (Stuck) leaves this for good.   *)
(***************************************************************************)
EXTENDS CppOrderBookBroker, OrderBookServerProofs

-----------------------------------------------------------------------------
(* Calls *)

\* Where a thread is in its call.
Places ==
  {"idle", "check", "checked", "start", "started", "open", "connect", "recheck", "rechecked",
   "send", "recv", "wait", "error", "close", "forget", "failed", "answer", "cleanup",
   "stop", "stopping", "shut", "dead"}

\* A call whose request, answer and id are among these values.
CallOf(Seen) ==
  [op : Seen, id : Seen, request : Seen, at : Places, on : Sockets \cup {Null}, answer : Seen]

\* Every thread is in a call, whatever went over the wire, and holds a socket
\* while it waits in recv_json.
Calls ==
  /\ \E Seen : call \in [Threads -> CallOf(Seen)]
  /\ \A t \in Threads : call[t].at = "wait" <=> call[t].on # Null

\* A set of values can be enlarged.
LEMMA MoreSeen ==
  ASSUME NEW Seen, NEW More, NEW c \in CallOf(Seen)
  PROVE  c \in CallOf(Seen \cup More)
BY DEF CallOf

\* One thread changes its call to another one.
LEMMA CallChanges ==
  ASSUME Calls, NEW t \in Threads, NEW c, NEW Seen, c \in CallOf(Seen),
         c.at = "wait" <=> c.on # Null,
         call' = [call EXCEPT ![t] = c]
  PROVE  /\ Calls'
         /\ call'[t] = c
         /\ \A u \in Threads \ {t} : call'[u] = call[u]
<1>1. PICK Old : call \in [Threads -> CallOf(Old)]
  BY DEF Calls
<1>2. c \in CallOf(Old \cup Seen)
  BY DEF CallOf
<1>3. \A u \in Threads : call[u] \in CallOf(Old \cup Seen)
  BY <1>1, MoreSeen
<1>4. call' \in [Threads -> CallOf(Old \cup Seen)]
  BY <1>1, <1>2, <1>3
<1>5. call'[t] = c /\ \A u \in Threads \ {t} : call'[u] = call[u]
  BY <1>1
<1> QED
  BY <1>4, <1>5 DEF Calls

\* A thread goes on to another place of its call.
LEMMA GotoCall ==
  ASSUME Calls, NEW t \in Threads, NEW at \in Places \ {"wait"}, call[t].at # "wait", Goto(t, at)
  PROVE  /\ Calls'
         /\ call'[t].at = at /\ call'[t].on = Null
         /\ call'[t].op = call[t].op /\ call'[t].id = call[t].id
         /\ call'[t].request = call[t].request /\ call'[t].answer = call[t].answer
         /\ \A u \in Threads \ {t} : call'[u] = call[u]
<1>1. PICK Old : call \in [Threads -> CallOf(Old)]
  BY DEF Calls
<1> DEFINE c == [call[t] EXCEPT !.at = at]
<1>2. call' = [call EXCEPT ![t] = c]
  BY <1>1 DEF Goto
<1>3. call[t] \in CallOf(Old)
  BY <1>1
<1>4. /\ c \in CallOf(Old) /\ c.at = at /\ c.on = call[t].on /\ c.op = call[t].op
      /\ c.id = call[t].id /\ c.request = call[t].request /\ c.answer = call[t].answer
  BY <1>3 DEF CallOf
<1> HIDE DEF c
<1>5. c.on = Null
  BY <1>4 DEF Calls
<1> QED
  BY <1>2, <1>4, <1>5, CallChanges

\* A thread blocks on a socket.
LEMMA WaitCall ==
  ASSUME Calls, NEW t \in Threads, NEW s \in Sockets,
         call' = [call EXCEPT ![t].at = "wait", ![t].on = s]
  PROVE  /\ Calls'
         /\ call'[t].at = "wait" /\ call'[t].on = s
         /\ call'[t].op = call[t].op /\ call'[t].id = call[t].id
         /\ call'[t].request = call[t].request /\ call'[t].answer = call[t].answer
         /\ \A u \in Threads \ {t} : call'[u] = call[u]
<1>1. PICK Old : call \in [Threads -> CallOf(Old)]
  BY DEF Calls
<1> DEFINE c == [call[t] EXCEPT !.at = "wait", !.on = s]
<1>2. call' = [call EXCEPT ![t] = c]
  BY <1>1
<1>3. call[t] \in CallOf(Old)
  BY <1>1
<1>4. /\ c \in CallOf(Old) /\ c.at = "wait" /\ c.on = s /\ c.op = call[t].op
      /\ c.id = call[t].id /\ c.request = call[t].request /\ c.answer = call[t].answer
  BY <1>3 DEF CallOf, Places
<1> HIDE DEF c
<1>5. c.on # Null
  BY <1>4, BrokerAssumption
<1> QED
  BY <1>2, <1>4, <1>5, CallChanges

\* A request ends with its answer.
LEMMA AnswerCall ==
  ASSUME Calls, NEW t \in Threads, NEW answer,
         call' = [call EXCEPT ![t].at = "answer", ![t].on = Null, ![t].answer = answer]
  PROVE  /\ Calls'
         /\ call'[t].at = "answer" /\ call'[t].on = Null
         /\ call'[t].op = call[t].op /\ call'[t].id = call[t].id
         /\ call'[t].request = call[t].request /\ call'[t].answer = answer
         /\ \A u \in Threads \ {t} : call'[u] = call[u]
<1>1. PICK Old : call \in [Threads -> CallOf(Old)]
  BY DEF Calls
<1> DEFINE c == [call[t] EXCEPT !.at = "answer", !.on = Null, !.answer = answer]
<1>2. call' = [call EXCEPT ![t] = c]
  BY <1>1
<1>3. call[t] \in CallOf(Old)
  BY <1>1
<1>4. /\ c \in CallOf(Old \cup {answer}) /\ c.at = "answer" /\ c.on = Null /\ c.op = call[t].op
      /\ c.id = call[t].id /\ c.request = call[t].request /\ c.answer = answer
  BY <1>3 DEF CallOf, Places
<1> HIDE DEF c
<1> QED
  BY <1>2, <1>4, CallChanges

\* A wait ends without an answer.
LEMMA BreakCall ==
  ASSUME Calls, NEW t \in Threads, NEW at \in Places \ {"wait"},
         call' = [call EXCEPT ![t].at = at, ![t].on = Null]
  PROVE  /\ Calls'
         /\ call'[t].at = at /\ call'[t].on = Null
         /\ call'[t].op = call[t].op /\ call'[t].id = call[t].id
         /\ call'[t].request = call[t].request /\ call'[t].answer = call[t].answer
         /\ \A u \in Threads \ {t} : call'[u] = call[u]
<1>1. PICK Old : call \in [Threads -> CallOf(Old)]
  BY DEF Calls
<1> DEFINE c == [call[t] EXCEPT !.at = at, !.on = Null]
<1>2. call' = [call EXCEPT ![t] = c]
  BY <1>1
<1>3. call[t] \in CallOf(Old)
  BY <1>1
<1>4. /\ c \in CallOf(Old) /\ c.at = at /\ c.on = Null /\ c.op = call[t].op
      /\ c.id = call[t].id /\ c.request = call[t].request /\ c.answer = call[t].answer
  BY <1>3 DEF CallOf
<1> HIDE DEF c
<1> QED
  BY <1>2, <1>4, CallChanges

\* A call returns.
LEMMA ReturnCall ==
  ASSUME Calls, NEW t \in Threads, Return(t)
  PROVE  /\ Calls'
         /\ call'[t] = NoCall
         /\ \A u \in Threads \ {t} : call'[u] = call[u]
<1>1. NoCall \in CallOf({Null}) /\ NoCall.at = "idle" /\ NoCall.on = Null
  BY DEF NoCall, CallOf, Places
<1> QED
  BY <1>1, CallChanges DEF Return

\* A call begins.
LEMMA BeginCall ==
  ASSUME Calls, NEW t \in Threads, NEW op, NEW id, NEW request, Begin(t, op, id, request)
  PROVE  /\ Calls'
         /\ call'[t].at = (IF op = "stop" THEN "stop" ELSE "check")
         /\ call'[t].on = Null /\ call'[t].answer = Null
         /\ call'[t].op = op /\ call'[t].id = id /\ call'[t].request = request
         /\ \A u \in Threads \ {t} : call'[u] = call[u]
<1> DEFINE at == IF op = "stop" THEN "stop" ELSE "check"
           c == [op |-> op, id |-> id, request |-> request, at |-> at, on |-> Null, answer |-> Null]
<1>1. /\ c \in CallOf({op, id, request, Null}) /\ c.at = at /\ at # "wait"
      /\ c.on = Null /\ c.answer = Null
      /\ c.op = op /\ c.id = id /\ c.request = request
  BY DEF CallOf, Places
<1>2. call' = [call EXCEPT ![t] = c]
  BY DEF Begin
<1> HIDE DEF c
<1> QED
  BY <1>1, <1>2, CallChanges

-----------------------------------------------------------------------------
(* Sockets *)

\* A socket that is open is self.socket, or a thread is blocked on it.
SocketsOK ==
  /\ socket \in Sockets \cup {Null}
  /\ state \in [Sockets -> {"closed", "ready", "awaiting"}]
  /\ \A s \in Sockets : state[s] # "closed" => s = socket \/ \E t \in Threads : call[t].on = s

\* From these places a thread assigns self.socket without closing it first.
Replacing == {"start", "started", "open", "forget"}

\* Only self.socket is shared, and the other thread cannot make a socket ready
\* again that is replaced, or may be, while a thread is blocked on it.
Undisturbed ==
  /\ \A t, u \in Threads : t # u /\ call[t].on # Null /\ call[t].on = call[u].on
                             => call[t].on = socket
  /\ \A t \in Threads : call[t].on \notin {Null, socket} => state[call[t].on] # "ready"
  /\ \A t, u \in Threads : call[t].on # Null /\ call[u].at \in Replacing
                             => state[call[t].on] # "ready"

\* The inductive invariant of the sockets.
SocketInv == Calls /\ SocketsOK /\ Undisturbed

-----------------------------------------------------------------------------
(* What a step may do to the calls and the sockets *)

\* The calls of the other threads stay as they are.
Others(t) == \A u \in Threads \ {t} : call'[u] = call[u]

\* The thread goes on and touches no socket.
Moves(t) ==
  /\ Others(t) /\ call[t].on = Null /\ call'[t].on = Null /\ UNCHANGED sockets
  /\ call'[t].at \in Replacing =>
       call[t].at \in Replacing \/ socket = Null \/ state[socket] = "closed"

\* It sends on the socket.
Sends(t) ==
  /\ Others(t) /\ call[t].on = Null /\ call'[t].on = Null /\ call'[t].at \notin Replacing
  /\ socket # Null /\ socket' = socket /\ state' = [state EXCEPT ![socket] = "awaiting"]

\* It blocks in recv_json.
Waits(t) ==
  /\ Others(t) /\ call[t].on = Null /\ call'[t].on = socket /\ call'[t].at = "wait"
  /\ socket # Null /\ state[socket] = "awaiting" /\ UNCHANGED sockets

\* It closes self.socket.
Closes(t) ==
  /\ Others(t) /\ call[t].on = Null /\ call'[t].on = Null
  /\ socket # Null /\ socket' = socket /\ state' = [state EXCEPT ![socket] = "closed"]

\* It leaves recv_json.
Leaves(t) ==
  /\ Others(t) /\ call[t].on # Null /\ call'[t].on = Null /\ call'[t].at \notin Replacing
  /\ socket' = socket
  /\ \E then \in {"closed", "ready", "awaiting"} :
       /\ state[call[t].on] # "awaiting" => then = state[call[t].on]
       /\ Release(t, then)

\* It assigns self.socket: a new socket, or None.
Assigns(t) ==
  /\ Others(t) /\ call[t].at \in Replacing /\ call'[t].at \notin Replacing
  /\ call[t].on = Null /\ call'[t].on = Null
  /\ \E s \in Sockets \cup {Null} :
       /\ s # Null => state[s] = "closed" /\ ~Held(s, t)
       /\ SetSocket(t, s)

\* The process starts anew.
Renews ==
  /\ call' = [t \in Threads |-> NoCall]
  /\ socket' \in Sockets /\ state' = Opened(socket')

\* Nothing happens on the client's side.
Rests == UNCHANGED <<sockets, call>>

\* There is at most one other thread.
LEMMA OneOther ==
  ASSUME NEW t \in Threads, NEW u \in Threads \ {t}, NEW v \in Threads \ {t} PROVE u = v
BY BrokerAssumption

\* A thread holds a socket or none, and is nowhere else while it does.
LEMMA HeldSockets ==
  ASSUME Calls, NEW t \in Threads
  PROVE  /\ call[t].on \in Sockets \cup {Null} /\ call[t].at \in Places
         /\ call[t].on # Null => call[t].at \notin Replacing
BY DEF Calls, CallOf, Replacing

\* A step that touches no socket keeps the invariant.
LEMMA MovesKeepSockets ==
  ASSUME SocketInv, Calls', NEW t \in Threads, Moves(t) PROVE SocketInv'
<1>1. SocketsOK'
  BY BrokerAssumption DEF SocketInv, SocketsOK, Moves, Others, sockets
<1>2. Undisturbed'
  BY HeldSockets DEF SocketInv, SocketsOK, Undisturbed, Moves, Others, sockets
<1> QED
  BY <1>1, <1>2 DEF SocketInv

\* A request sent on self.socket keeps it.
LEMMA SendsKeepSockets ==
  ASSUME SocketInv, Calls', NEW t \in Threads, Sends(t) PROVE SocketInv'
<1>1. SocketsOK'
  BY DEF SocketInv, SocketsOK, Sends, Others
<1>2. Undisturbed'
  BY HeldSockets DEF SocketInv, SocketsOK, Undisturbed, Sends, Others
<1> QED
  BY <1>1, <1>2 DEF SocketInv

\* Blocking on self.socket keeps it.
LEMMA WaitsKeepSockets ==
  ASSUME SocketInv, Calls', NEW t \in Threads, Waits(t) PROVE SocketInv'
<1>1. SocketsOK'
  <2>1. UNCHANGED <<socket, state>> /\ socket # Null
    BY DEF Waits, sockets
  <2>2. \A s \in Sockets, u \in Threads : call[u].on = s => s = socket \/ call'[u].on = s
    BY BrokerAssumption DEF Waits, Others
  <2> QED
    BY <2>1, <2>2 DEF SocketInv, SocketsOK
<1>2. call'[t].at \notin Replacing
  BY DEF Waits, Replacing
<1>3. Undisturbed'
  <2>1. \A u, v \in Threads : u # v /\ call'[u].on # Null /\ call'[u].on = call'[v].on
                              => call'[u].on = socket'
    BY DEF SocketInv, Undisturbed, Waits, Others, sockets
  <2>2. \A u \in Threads : call'[u].on \notin {Null, socket'} => state'[call'[u].on] # "ready"
    BY DEF SocketInv, Undisturbed, Waits, Others, sockets
  <2>3. \A u, v \in Threads : call'[u].on # Null /\ call'[v].at \in Replacing
                              => state'[call'[u].on] # "ready"
    BY <1>2 DEF SocketInv, Undisturbed, Waits, Others, sockets
  <2> QED
    BY <2>1, <2>2, <2>3 DEF Undisturbed
<1> QED
  BY <1>1, <1>3 DEF SocketInv

\* Closing self.socket keeps it, although a thread may be blocked on it.
LEMMA ClosesKeepSockets ==
  ASSUME SocketInv, Calls', NEW t \in Threads, Closes(t) PROVE SocketInv'
<1>1. SocketsOK'
  BY DEF SocketInv, SocketsOK, Closes, Others
<1>2. Undisturbed'
  BY HeldSockets, OneOther DEF SocketInv, SocketsOK, Undisturbed, Closes, Others
<1> QED
  BY <1>1, <1>2 DEF SocketInv

\* Leaving recv_json keeps it: the socket is closed if it is no longer self.socket.
LEMMA LeavesKeepSockets ==
  ASSUME SocketInv, Calls', NEW t \in Threads, Leaves(t) PROVE SocketInv'
<1>1. SocketsOK'
  BY HeldSockets DEF SocketInv, SocketsOK, Undisturbed, Leaves, Others, Release, Held
<1>2. \A s \in Sockets \ {call[t].on} : state'[s] = state[s]
  BY DEF SocketInv, SocketsOK, Leaves, Release
<1>3. Undisturbed'
  <2>1. \A u \in Threads \ {t} : call'[u].on = call[u].on /\ call'[u].at = call[u].at
    BY DEF Leaves, Others
  <2>2. call'[t].on = Null /\ call'[t].at \notin Replacing /\ socket' = socket /\ call[t].on # Null
    BY DEF Leaves
  <2>3. ASSUME NEW u \in Threads, call'[u].on \notin {Null, socket}
        PROVE  state'[call'[u].on] # "ready"
    <3>1. u # t
      BY <2>2, <2>3
    <3>2. call'[u].on = call[u].on /\ call[u].on \in Sockets
      BY <2>1, <2>3, <3>1, HeldSockets DEF SocketInv
    <3>3. call[u].on # Null /\ call[u].on = call[t].on => call[u].on = socket
      BY <3>1 DEF SocketInv, Undisturbed
    <3>4. call[u].on # call[t].on
      BY <2>3, <3>2, <3>3
    <3> QED
      BY <1>2, <2>3, <3>2, <3>4 DEF SocketInv, Undisturbed
  <2>4. ASSUME NEW u \in Threads, NEW v \in Threads, u # v
        PROVE  call'[u].on = Null \/ (call'[v].on = Null /\ call'[v].at \notin Replacing)
    <3>1. u = t \/ v = t
      BY <2>4, OneOther
    <3> QED
      BY <2>2, <3>1
  <2>5. \A u \in Threads : call'[u].on # Null => call'[u].at \notin Replacing
    BY DEF Calls, Replacing
  <2> QED
    BY <2>2, <2>3, <2>4, <2>5 DEF Undisturbed
<1> QED
  BY <1>1, <1>3 DEF SocketInv

\* Assigning self.socket keeps it, whatever the other thread has assigned before.
LEMMA AssignsKeepSockets ==
  ASSUME SocketInv, Calls', NEW t \in Threads, Assigns(t) PROVE SocketInv'
<1>0. PICK s \in Sockets \cup {Null} :
        /\ s # Null => state[s] = "closed" /\ ~Held(s, t)
        /\ SetSocket(t, s)
  BY DEF Assigns
<1>1. SocketsOK'
  BY <1>0, HeldSockets, BrokerAssumption DEF SocketInv, SocketsOK, Assigns, Others, Held, SetSocket
<1>2. Undisturbed'
  BY <1>0, HeldSockets, OneOther, BrokerAssumption
     DEF SocketInv, SocketsOK, Undisturbed, Assigns, Others, Held, SetSocket
<1> QED
  BY <1>1, <1>2 DEF SocketInv

\* A new client process has one open socket.
LEMMA RenewsKeepSockets ==
  ASSUME SocketInv, Calls', Renews PROVE SocketInv'
<1>1. \A t \in Threads : call'[t].on = Null
  BY DEF Renews, NoCall
<1> QED
  BY <1>1 DEF SocketInv, SocketsOK, Undisturbed, Renews, Opened

\* The answer ends the wait, if there was one.
LEMMA AnswerGiven ==
  ASSUME Calls, NEW t \in Threads, NEW answer, GiveAnswer(t, answer)
  PROVE  /\ Calls' /\ Others(t)
         /\ call'[t].at = "answer" /\ call'[t].on = Null
         /\ call'[t].op = call[t].op /\ call'[t].id = call[t].id
         /\ call'[t].request = call[t].request /\ call'[t].answer = answer
BY AnswerCall, Zenon DEF GiveAnswer, Others

\* A thread goes on in its call,
LEMMA GoesTo ==
  ASSUME Calls, NEW t \in Threads, NEW at \in Places \ {"wait"}, call[t].at # "wait", Goto(t, at)
  PROVE  /\ Calls' /\ Others(t)
         /\ call[t].on = Null
         /\ call'[t].at = at /\ call'[t].on = Null
         /\ call'[t].op = call[t].op /\ call'[t].id = call[t].id
         /\ call'[t].request = call[t].request /\ call'[t].answer = call[t].answer
BY GotoCall DEF Others, Calls

\* or returns.
LEMMA Returns ==
  ASSUME Calls, NEW t \in Threads, call[t].at # "wait", Return(t)
  PROVE  /\ Calls' /\ Others(t) /\ call'[t] = NoCall
         /\ call[t].on = Null /\ call'[t].on = Null /\ call'[t].at = "idle"
BY ReturnCall DEF Others, Calls, NoCall

\* The places before a request is sent.
Opening == {"check", "checked", "start", "started", "open", "connect", "recheck", "rechecked"}

\* A thread looks at self.socket, and goes on or raises an exception.
Looks(t) ==
  \/ Check(t) \/ Start(t) \/ Connect(t) \/ Recheck(t)
  \/ SendOutOfTurn(t) \/ RecvOutOfTurn(t) \/ SocketError(t) \/ Raise(t)
  \/ Stopping(t) \/ ShutFails(t)

\* The steps of a request or of stop, up to what they return,
Requests(t) ==
  \/ Looks(t) \/ Open(t) \/ Send(t) \/ NoSocket(t)
  \/ Recv(t) \/ Receive(t) \/ ReceiveBroken(t) \/ Timeout(t)
  \/ CloseSocket(t) \/ Forget(t) \/ ReturnNone(t)

\* and what the calls of the broker do with it.
Answers(t) ==
  \/ SubmitFailed(t) \/ SubmitAnswered(t) \/ CancelFailed(t) \/ CancelAnswered(t)
  \/ InfoReturned(t) \/ Cleanup(t)

\* There are no other steps.
LEMMA StepIs ==
  ASSUME NEW t, Step(t) PROVE (Requests(t) \/ Answers(t)) /\ UNCHANGED stopped
BY Zenon DEF Step, Requests, Answers, Looks

\* Where a look leads: to nothing but another place of the call.
LEMMA LookGoes ==
  ASSUME NEW t, Looks(t)
  PROVE  /\ UNCHANGED <<bookVars, wire, maps, sockets, budget, history>>
         /\ \E at \in Places : Goto(t, at) /\ (at = "dead" => socket = Null \/ state[socket] = "closed") /\
              \/ /\ call[t].at \in Opening \ {"open"}
                 /\ at \in (Opening \ {"check"}) \cup {"send", "close", "failed", "dead"}
                 /\ at \in Replacing =>
                      call[t].at \in Replacing \/ socket = Null \/ state[socket] = "closed"
              \/ call[t].at \in {"send", "recv"} /\ at = "error"
              \/ call[t].at = "error" /\ at \in {"failed", "close"}
              \/ call[t].at = "close" /\ at \in {"failed", "dead"}
              \/ /\ call[t].at \in {"stop", "stopping", "shut"}
                 /\ at \in {"stopping", "shut", "forget", "failed", "dead"}
                 /\ at = "forget" => socket = Null \/ state[socket] = "closed"
                 /\ at = "failed" => socket = Null
<1>1. CASE Check(t)
  BY <1>1 DEF Check, IsNone, IsClosed, At, Opening, Places, Replacing
<1>2. CASE Start(t)
  BY <1>2 DEF Start, IsNone, IsClosed, At, Opening, Places, Replacing
<1>3. CASE Connect(t)
  BY <1>3 DEF Connect, IsClosed, At, Opening, Places, Replacing
<1>4. CASE Recheck(t)
  BY <1>4 DEF Recheck, IsNone, IsClosed, At, Opening, Places, Replacing
<1>5. CASE SendOutOfTurn(t) \/ RecvOutOfTurn(t)
  BY <1>5 DEF SendOutOfTurn, RecvOutOfTurn, At, Places
<1>6. CASE SocketError(t)
  BY <1>6 DEF SocketError, IsNone, At, Places
<1>7. CASE Raise(t)
  <2> DEFINE at == IF call[t].op \in {"submit", "cancel"} THEN "dead" ELSE "failed"
  <2>1. /\ at \in {"failed", "dead"} /\ {"failed", "dead"} \subseteq Places
        /\ at \notin Replacing
    BY DEF Places, Replacing
  <2>2. Goto(t, at) /\ call[t].at \in {"checked", "started", "connect", "rechecked", "close", "stopping"}
    BY <1>7 DEF Raise, At
  <2>3. /\ UNCHANGED <<bookVars, wire, maps, sockets, budget, history>>
        /\ socket = Null \/ (At(t, "connect") /\ state[socket] = "closed")
    BY <1>7 DEF Raise
  <2> HIDE DEF at
  <2> QED
    BY <2>1, <2>2, <2>3 DEF Opening, At
<1>8. CASE Stopping(t)
  BY <1>8 DEF Stopping, IsNone, IsClosed, At, Places
<1>9. CASE ShutFails(t)
  BY <1>9 DEF ShutFails, At, Places
<1> QED
  BY <1>1, <1>2, <1>3, <1>4, <1>5, <1>6, <1>7, <1>8, <1>9, Zenon DEF Looks

\* What a look changes, and does not.
LEMMA LookMoves ==
  ASSUME Calls, NEW t \in Threads, Looks(t)
  PROVE  /\ Calls' /\ Moves(t)
         /\ call'[t].op = call[t].op /\ call'[t].id = call[t].id
         /\ call'[t].request = call[t].request /\ call'[t].answer = call[t].answer
         /\ UNCHANGED <<bookVars, wire, maps, sockets, budget, history>>
         /\ call[t].at \notin {"idle", "open", "wait", "forget", "failed", "answer", "cleanup", "dead"}
         /\ call'[t].at \notin {"idle", "check", "recv", "wait", "answer", "cleanup", "stop"}
         /\ call'[t].at \in Opening \cup {"send"} => call[t].at \in Opening
         /\ At(t, "dead")' => socket = Null \/ state[socket] = "closed"
         /\ \/ call[t].at \notin {"stop", "stopping", "shut"}
            \/ /\ call'[t].at \in {"stopping", "shut", "forget", "failed", "dead"}
               /\ At(t, "failed")' => socket = Null
<1>1. PICK at \in Places : Goto(t, at) /\ (at = "dead" => socket = Null \/ state[socket] = "closed") /\
        \/ /\ call[t].at \in Opening \ {"open"}
           /\ at \in (Opening \ {"check"}) \cup {"send", "close", "failed", "dead"}
           /\ at \in Replacing =>
                call[t].at \in Replacing \/ socket = Null \/ state[socket] = "closed"
        \/ call[t].at \in {"send", "recv"} /\ at = "error"
        \/ call[t].at = "error" /\ at \in {"failed", "close"}
        \/ call[t].at = "close" /\ at \in {"failed", "dead"}
        \/ /\ call[t].at \in {"stop", "stopping", "shut"}
           /\ at \in {"stopping", "shut", "forget", "failed", "dead"}
           /\ at = "forget" => socket = Null \/ state[socket] = "closed"
           /\ at = "failed" => socket = Null
  BY LookGoes
<1>2. UNCHANGED <<bookVars, wire, maps, sockets, budget, history>>
  BY LookGoes
<1>3. /\ at # "wait" /\ at \notin {"idle", "check", "recv", "wait", "answer", "cleanup", "stop"}
      /\ call[t].at \notin {"idle", "open", "wait", "forget", "failed", "answer", "cleanup", "dead"}
      /\ at \in Opening \cup {"send"} => call[t].at \in Opening
      /\ at \in Replacing => call[t].at \in Replacing \/ socket = Null \/ state[socket] = "closed"
      /\ at = "dead" => socket = Null \/ state[socket] = "closed"
      /\ \/ call[t].at \notin {"stop", "stopping", "shut"}
         \/ at \in {"stopping", "shut", "forget", "failed", "dead"} /\ (at = "failed" => socket = Null)
  BY <1>1 DEF Opening, Replacing
<1>4. /\ Calls' /\ Others(t)
      /\ call[t].on = Null
      /\ call'[t].at = at /\ call'[t].on = Null
      /\ call'[t].op = call[t].op /\ call'[t].id = call[t].id
      /\ call'[t].request = call[t].request /\ call'[t].answer = call[t].answer
  BY <1>1, <1>3, GoesTo
<1> QED
  BY <1>2, <1>3, <1>4 DEF Moves, At

\* A wait that ends without an answer.
LEMMA WaitBreaks ==
  ASSUME Calls, NEW t \in Threads, ReceiveBroken(t)
  PROVE  /\ Calls' /\ Others(t)
         /\ call[t].at = "wait" /\ call[t].on # Null
         /\ call'[t].at \in {"error", "failed"} /\ call'[t].on = Null
         /\ call'[t].op = call[t].op /\ call'[t].id = call[t].id
         /\ call'[t].request = call[t].request /\ call'[t].answer = call[t].answer
<1>1. PICK at \in {"error", "failed"} : call' = [call EXCEPT ![t].at = at, ![t].on = Null]
  BY DEF ReceiveBroken
<1>2. at \in Places \ {"wait"}
  BY DEF Places
<1> QED
  BY <1>1, <1>2, BreakCall, Zenon DEF Others, ReceiveBroken, At, Calls

\* The steps of a request.
LEMMA RequestShapes ==
  ASSUME Calls, SocketsOK, NEW t \in Threads, Requests(t)
  PROVE  /\ Calls'
         /\ Moves(t) \/ Sends(t) \/ Waits(t) \/ Closes(t) \/ Leaves(t) \/ Assigns(t)
<1>0. /\ call[t].at = "wait" <=> call[t].on # Null
      /\ {"connect", "recv", "forget", "failed"} \subseteq Places \ {"wait"}
  BY DEF Calls, Places
<1>1. CASE Looks(t)
  BY <1>1, LookMoves
<1>2. CASE Open(t)
  <2>1. call[t].at = "open" /\ Goto(t, "connect")
    BY <1>2 DEF Open, At
  <2>2. /\ Calls' /\ Others(t) /\ call[t].on = Null /\ call'[t].on = Null
        /\ call'[t].at = "connect"
    BY <1>0, <2>1, GoesTo
  <2> QED
    BY <1>2, <2>1, <2>2 DEF Open, Assigns, Replacing
<1>3. CASE Send(t)
  BY <1>0, <1>3, GoesTo DEF Send, At, Sends, Replacing
<1>4. CASE NoSocket(t) \/ ReturnNone(t)
  <2>1. call[t].at # "wait" /\ GiveAnswer(t, Null) /\ UNCHANGED sockets
    BY <1>4 DEF NoSocket, ReturnNone, At
  <2> QED
    BY <1>0, <2>1, AnswerGiven DEF Moves, Replacing
<1>5. CASE Recv(t)
  <2>1. socket \in Sockets
    BY <1>5 DEF Recv, SocketsOK
  <2> QED
    BY <1>0, <1>5, <2>1, WaitCall DEF Recv, At, Waits, Others, sockets
<1>6. CASE Receive(t)
  BY <1>0, <1>6, AnswerGiven DEF Receive, At, Leaves, Replacing
<1>7. CASE ReceiveBroken(t)
  <2>1. Release(t, state[call[t].on]) /\ UNCHANGED socket
    BY <1>7 DEF ReceiveBroken
  <2>2. call[t].on \in Sockets
    BY <1>7, WaitBreaks, HeldSockets
  <2> QED
    BY <1>7, <2>1, <2>2, WaitBreaks DEF Leaves, Replacing, SocketsOK
<1>8. CASE Timeout(t)
  BY <1>0, <1>8, AnswerCall DEF Timeout, At, Leaves, Others, Replacing
<1>9. CASE CloseSocket(t)
  <2>1. call[t].at # "wait" /\ Goto(t, "forget")
    BY <1>9 DEF CloseSocket, At
  <2>2. Calls' /\ Others(t) /\ call[t].on = Null /\ call'[t].on = Null
    BY <1>0, <2>1, GoesTo
  <2> QED
    BY <1>9, <2>2 DEF CloseSocket, Closes
<1>10. CASE Forget(t)
  <2>1. call[t].at = "forget" /\ Goto(t, "failed")
    BY <1>10 DEF Forget, At
  <2>2. /\ Calls' /\ Others(t) /\ call[t].on = Null /\ call'[t].on = Null
        /\ call'[t].at = "failed"
    BY <1>0, <2>1, GoesTo
  <2>3. SetSocket(t, Null)
    BY <1>10 DEF Forget
  <2> QED
    BY <2>1, <2>2, <2>3 DEF Assigns, Replacing
<1> QED
  BY <1>1, <1>2, <1>3, <1>4, <1>5, <1>6, <1>7, <1>8, <1>9, <1>10, Zenon DEF Requests

\* What is done with the answer is no affair of the sockets or the server.
LEMMA AnswersLeave ==
  ASSUME NEW t, Answers(t) \/ Stopped(t)
  PROVE  /\ UNCHANGED <<resting, older, reply, wire, sockets, budget, executed, owner, failures>>
         /\ At(t, "answer") \/ At(t, "cleanup")
         /\ Goto(t, "cleanup") \/ Return(t)
<1>1. UNCHANGED <<bookVars, wire, sockets, budget, executed, owner, failures>>
  BY Zenon DEF Answers, SubmitFailed, SubmitAnswered, CancelFailed, CancelAnswered, InfoReturned,
               Cleanup, Stopped, history
<1>2. /\ At(t, "answer") \/ At(t, "cleanup")
      /\ Goto(t, "cleanup") \/ Return(t)
  BY Zenon DEF Answers, SubmitFailed, SubmitAnswered, CancelFailed, CancelAnswered, InfoReturned,
               Cleanup, Stopped
<1> QED
  BY <1>1, <1>2 DEF bookVars

\* It ends the call, or leads to its end.
LEMMA AnswerShapes ==
  ASSUME Calls, NEW t \in Threads, Answers(t) \/ Stopped(t)
  PROVE  Calls' /\ Moves(t)
<1>1. call[t].at # "wait" /\ UNCHANGED sockets
  BY AnswersLeave DEF At
<1>2. Goto(t, "cleanup") \/ Return(t)
  BY AnswersLeave
<1>3. "cleanup" \in Places \ {"wait"} /\ {"cleanup", "idle"} \cap Replacing = {}
  BY DEF Places, Replacing
<1> QED
  BY <1>1, <1>2, <1>3, GoesTo, Returns DEF Moves

\* A call begins.
LEMMA CallingShapes ==
  ASSUME Calls, Calling
  PROVE  Calls' /\ (Moves("pm") \/ (\E t \in Threads : Moves(t)) \/ Rests)
<1>1. ASSUME NEW t \in Threads, MayCall(t), NEW op, op # "stop", NEW id, NEW request,
             Begin(t, op, id, request), UNCHANGED sockets
      PROVE  Calls' /\ Moves(t)
  <2>1. call[t].on = Null
    BY <1>1 DEF MayCall, Idle, Calls
  <2>2. "check" \notin Replacing
    BY DEF Replacing
  <2> QED
    BY <1>1, <2>1, <2>2, BeginCall DEF Moves, Others
<1>2. "pm" \in Threads
  BY BrokerAssumption
<1>3. CASE \E c \in Clients, type \in OrderTypes, side \in Book!Sides, price \in Prices,
              quantity \in Quantities : Submit(c, type, side, price, quantity)
  BY <1>1, <1>2, <1>3 DEF Submit
<1>4. CASE \E c \in Clients : SubmitUnpriced(c)
  BY <1>4 DEF SubmitUnpriced, Rests, Calls
<1>5. CASE \E id \in OrderIds : Cancel(id)
  BY <1>1, <1>2, <1>5 DEF Cancel
<1>6. CASE "api" \in Threads /\ GetMarketDataSnapshot
  BY <1>1, <1>6 DEF GetMarketDataSnapshot
<1> QED
  BY <1>3, <1>4, <1>5, <1>6 DEF Calling

\* A stop begins.
LEMMA StopShape ==
  ASSUME Calls, NEW t \in Threads, Stop(t)
  PROVE  /\ Calls' /\ Moves(t) /\ call'[t].at = "stop" /\ call'[t].op = "stop"
         /\ call'[t].request = Null /\ call'[t].id = Null /\ call'[t].answer = Null
<1>1. call[t].on = Null /\ UNCHANGED sockets
  BY DEF Stop, Idle, Calls
<1>2. "stop" \notin Replacing
  BY DEF Replacing
<1> QED
  BY <1>1, <1>2, BeginCall DEF Stop, Moves, Others

\* A restart of the client begins anew.
LEMMA RenewShape ==
  ASSUME ClientRestarts PROVE Calls' /\ Renews
<1>1. NoCall \in CallOf({Null}) /\ NoCall.at = "idle" /\ NoCall.on = Null
  BY DEF NoCall, CallOf, Places
<1>2. call' = [t \in Threads |-> NoCall]
  BY DEF ClientRestarts
<1>3. call' \in [Threads -> CallOf({Null})]
  BY <1>1, <1>2
<1>4. \A t \in Threads : call'[t].at = "wait" <=> call'[t].on # Null
  BY <1>1, <1>2
<1> QED
  BY <1>2, <1>3, <1>4 DEF Calls, ClientRestarts, Renews

\* Every step has one of these shapes.
LEMMA Shapes ==
  ASSUME Calls, SocketsOK, [Next]_vars
  PROVE  /\ Calls'
         /\ \/ \E t \in Threads :
                 Moves(t) \/ Sends(t) \/ Waits(t) \/ Closes(t) \/ Leaves(t) \/ Assigns(t)
            \/ Renews \/ Rests
<1>1. CASE Calling
  BY <1>1, CallingShapes, BrokerAssumption
<1>2. ASSUME NEW t \in Threads, Step(t) \/ Stopped(t)
      PROVE  /\ Calls'
             /\ Moves(t) \/ Sends(t) \/ Waits(t) \/ Closes(t) \/ Leaves(t) \/ Assigns(t)
  BY <1>2, StepIs, RequestShapes, AnswerShapes
<1>3. ASSUME NEW t \in Threads, Stop(t) PROVE Calls' /\ Moves(t)
  BY <1>3, StopShape
<1>4. CASE ClientRestarts
  BY <1>4, RenewShape
<1>5. CASE ServerRestarts \/ (\E s \in Sockets : ServeRequest(s) \/ Linger(s)) \/ UNCHANGED vars
  <2>1. Rests
    BY <1>5, Zenon DEF ServerRestarts, ServeRequest, Linger, vars, Rests
  <2> QED
    BY <2>1 DEF Rests, Calls
<1> QED
  BY <1>1, <1>2, <1>3, <1>4, <1>5 DEF Next

\* Every step keeps the invariant.
LEMMA NextKeepsSockets ==
  ASSUME SocketInv, [Next]_vars PROVE SocketInv'
<1>1. CASE Rests
  BY <1>1 DEF Rests, sockets, SocketInv, Calls, SocketsOK, Undisturbed, At
<1>2. Calls' /\ SocketsOK
  BY Shapes DEF SocketInv
<1> QED
  BY <1>1, <1>2, Shapes, MovesKeepSockets, SendsKeepSockets, WaitsKeepSockets, ClosesKeepSockets,
     LeavesKeepSockets, AssignsKeepSockets, RenewsKeepSockets DEF SocketInv

\* It holds initially.
LEMMA SocketsInit == Init => SocketInv
<1> SUFFICES ASSUME Init PROVE SocketInv
  OBVIOUS
<1>1. NoCall \in CallOf({Null}) /\ NoCall.at = "idle" /\ NoCall.on = Null
  BY DEF NoCall, CallOf, Places
<1>2. call = [t \in Threads |-> NoCall] /\ socket \in Sockets /\ state = Opened(socket)
  BY DEF Init
<1>3. call \in [Threads -> CallOf({Null})] /\ \A t \in Threads : call[t].on = Null
  BY <1>1, <1>2
<1>4. Calls
  BY <1>1, <1>2, <1>3 DEF Calls
<1> QED
  BY <1>2, <1>3, <1>4 DEF SocketInv, SocketsOK, Undisturbed, Opened

\* Where a stop gets to.
StopPlaces == {"stop", "stopping", "shut", "forget", "failed", "answer", "dead"}

\* A thread that may still take away self.socket: it has neither stopped the
\* broker nor died.
Due(t) ==
  /\ t \notin stopped /\ ~At(t, "dead")
  /\ call[t].op = "stop" => call[t].at \notin {"failed", "answer"}

\* While there is a self.socket such a thread is left; where that socket is
\* closed already, one is about to forget it.
Closing ==
  /\ \A t \in stopped : t \in Threads /\ Idle(t)
  /\ \A t \in Threads : call[t].op = "stop" => call[t].at \in StopPlaces
  /\ socket # Null /\ state[socket] = "closed" => \E t \in Threads : At(t, "forget")
  /\ socket # Null => \E t \in Threads : Due(t)

\* A call that begins keeps it.
LEMMA CallingKeepsClosing ==
  ASSUME SocketInv, Closing, Calling, UNCHANGED stopped PROVE Closing'
<1>1. ASSUME NEW t \in Threads, MayCall(t), t \notin stopped, NEW op, op # "stop", NEW id, NEW request,
             Begin(t, op, id, request), UNCHANGED sockets
      PROVE  Closing'
  <2>1. /\ call'[t].at = "check" /\ call'[t].op # "stop" /\ Idle(t)
        /\ \A u \in Threads \ {t} : call'[u] = call[u]
    BY <1>1, BeginCall DEF SocketInv, MayCall
  <2>2. \A u \in Threads : (At(u, "forget") => At(u, "forget")') /\ (Due(u) => Due(u)')
    BY <2>1 DEF At, Idle, Due
  <2> QED
    BY <1>1, <2>1, <2>2 DEF Closing, At, Idle, sockets
<1>2. "pm" \in Threads
  BY BrokerAssumption
<1>3. CASE \E c \in Clients, type \in OrderTypes, side \in Book!Sides, price \in Prices,
              quantity \in Quantities : Submit(c, type, side, price, quantity)
  BY <1>1, <1>2, <1>3 DEF Submit, MayCall
<1>4. CASE \E c \in Clients : SubmitUnpriced(c)
  BY <1>4 DEF SubmitUnpriced, Closing, Idle, At, Due, sockets
<1>5. CASE \E id \in OrderIds : Cancel(id)
  BY <1>1, <1>2, <1>5 DEF Cancel, MayCall
<1>6. CASE "api" \in Threads /\ GetMarketDataSnapshot
  BY <1>1, <1>6 DEF GetMarketDataSnapshot, MayCall
<1> QED
  BY <1>3, <1>4, <1>5, <1>6 DEF Calling

\* So does a step of a request or of stop.
LEMMA RequestKeepsClosing ==
  ASSUME SocketInv, Closing, NEW t \in Threads, Requests(t), UNCHANGED stopped
  PROVE  Closing'
<1>0. /\ Calls /\ SocketsOK
      /\ call[t].at = "wait" <=> call[t].on # Null
      /\ {"connect", "recv", "forget", "failed"} \subseteq Places \ {"wait"}
      /\ t \in stopped => call[t].at = "idle"
  BY DEF SocketInv, Calls, Places, Closing, Idle
<1>1. ASSUME \A u \in Threads \ {t} : call'[u] = call[u], call[t].at # "idle",
             call'[t].op = call[t].op,
             call[t].op = "stop" => call'[t].at \in StopPlaces,
             \/ socket' = Null
             \/ /\ socket' = socket /\ (At(t, "forget") => At(t, "forget")')
                /\ state'[socket] # "closed" \/ state[socket] = "closed" \/ At(t, "forget")'
                /\ \/ ~At(t, "dead")' /\ (call[t].op = "stop" => call'[t].at \notin {"failed", "answer"})
                   \/ ~Due(t)
                   \/ At(t, "dead")' /\ state[socket] = "closed" /\ ~At(t, "forget")
             \/ /\ socket' # Null /\ state'[socket'] # "closed" /\ call[t].op # "stop"
                /\ ~At(t, "dead")'
      PROVE  Closing'
  <2>1. /\ \A u \in stopped : u \in Threads /\ Idle(u)'
        /\ t \notin stopped /\ stopped' = stopped
    BY <1>0, <1>1 DEF Closing, Idle
  <2>2. \A u \in Threads \ {t} : (At(u, "forget") => At(u, "forget")') /\ (Due(u) => Due(u)')
    BY <1>1, <2>1 DEF At, Due
  <2>3. \A u \in Threads : call'[u].op = "stop" =>
          call'[u].at \in StopPlaces
    BY <1>1 DEF Closing
  <2>4. CASE socket' = Null
    BY <2>1, <2>3, <2>4 DEF Closing
  <2>5. CASE /\ socket' = socket /\ socket # Null /\ (At(t, "forget") => At(t, "forget")')
             /\ state'[socket] # "closed" \/ state[socket] = "closed" \/ At(t, "forget")'
             /\ \/ ~At(t, "dead")' /\ (call[t].op = "stop" => call'[t].at \notin {"failed", "answer"})
                \/ ~Due(t)
                \/ At(t, "dead")' /\ state[socket] = "closed" /\ ~At(t, "forget")
    <3>1. state'[socket] = "closed" => \E u \in Threads : At(u, "forget")'
      BY <2>2, <2>5 DEF Closing
    <3>2. ASSUME NEW u \in Threads, At(u, "forget") PROVE Due(u)
      BY <3>2 DEF Due, At, Closing, Idle
    <3>3. \E u \in Threads : Due(u)'
      <4>1. CASE ~At(t, "dead")' /\ (call[t].op = "stop" => call'[t].at \notin {"failed", "answer"})
        BY <1>1, <2>1, <4>1 DEF Due, At
      <4>2. CASE ~Due(t)
        BY <2>2, <2>5, <4>2 DEF Closing
      <4>3. CASE At(t, "dead")' /\ state[socket] = "closed" /\ ~At(t, "forget")
        BY <2>2, <2>5, <3>2, <4>3 DEF Closing
      <4> QED
        BY <2>5, <4>1, <4>2, <4>3
    <3> QED
      BY <2>1, <2>3, <2>5, <3>1, <3>3 DEF Closing
  <2>6. CASE /\ socket' # Null /\ state'[socket'] # "closed" /\ call[t].op # "stop"
             /\ ~At(t, "dead")'
    <3>1. Due(t)'
      BY <1>1, <2>1, <2>6 DEF Due
    <3> QED
      BY <2>1, <2>3, <2>6, <3>1 DEF Closing
  <2> QED
    BY <1>1, <2>4, <2>5, <2>6
<1>2. call[t].op = "stop" => call[t].at \in StopPlaces
  BY DEF Closing
<1>3. CASE Looks(t)
  <2>1. /\ Calls' /\ Moves(t)
        /\ call'[t].op = call[t].op
        /\ call[t].at \notin {"idle", "open", "wait", "forget", "failed", "answer", "cleanup", "dead"}
        /\ At(t, "dead")' => socket = Null \/ state[socket] = "closed"
        /\ \/ call[t].at \notin {"stop", "stopping", "shut"}
           \/ /\ call'[t].at \in {"stopping", "shut", "forget", "failed", "dead"}
              /\ At(t, "failed")' => socket = Null
    BY <1>0, <1>3, LookMoves
  <2>2. call'[t].at # "answer" \/ call[t].op # "stop"
    BY <1>2, <2>1 DEF StopPlaces
  <2>3. /\ \A u \in Threads \ {t} : call'[u] = call[u]
        /\ UNCHANGED <<socket, state>>
    BY <2>1 DEF Moves, Others, sockets
  <2> QED
    BY <1>1, <1>2, <2>1, <2>2, <2>3 DEF At, StopPlaces
<1>4. CASE Open(t)
  <2>1. /\ call[t].at = "open" /\ Goto(t, "connect")
        /\ \E s \in Sockets : socket' = s /\ state'[s] = "ready"
    BY <1>4 DEF Open, At, SetSocket
  <2> QED
    BY <1>0, <1>1, <1>2, <2>1, GoesTo, BrokerAssumption DEF At, Others, StopPlaces
<1>5. CASE Send(t)
  <2>1. /\ call[t].at = "send" /\ Goto(t, "recv")
        /\ socket' = socket /\ state'[socket] # "closed"
    BY <1>0, <1>5 DEF Send, At, SocketsOK
  <2> QED
    BY <1>0, <1>1, <1>2, <2>1, GoesTo DEF At, Others, StopPlaces
<1>6. CASE NoSocket(t)
  <2>1. call[t].at \in {"send", "recv"} /\ GiveAnswer(t, Null) /\ UNCHANGED sockets /\ socket = Null
    BY <1>6 DEF NoSocket, At
  <2> QED
    BY <1>0, <1>1, <1>2, <2>1, AnswerGiven DEF Others, sockets, StopPlaces
<1>7. CASE ReturnNone(t)
  <2>1. call[t].at = "failed" /\ GiveAnswer(t, Null) /\ UNCHANGED sockets
    BY <1>7 DEF ReturnNone, At
  <2>2. call[t].op = "stop" => ~Due(t)
    BY <2>1 DEF Due
  <2> QED
    BY <1>0, <1>1, <2>1, <2>2, AnswerGiven DEF Others, sockets, At, StopPlaces
<1>8. CASE Recv(t)
  <2>1. call[t].at = "recv" /\ socket \in Sockets /\ UNCHANGED <<socket, state>>
    BY <1>0, <1>8 DEF Recv, SocketsOK, At, sockets
  <2>2. /\ call'[t].at = "wait" /\ call'[t].op = call[t].op
        /\ \A u \in Threads \ {t} : call'[u] = call[u]
    BY <1>0, <1>8, <2>1, WaitCall DEF Recv
  <2> QED
    BY <1>1, <1>2, <2>1, <2>2 DEF At, StopPlaces
<1>9. CASE Receive(t) \/ ReceiveBroken(t) \/ Timeout(t)
  <2>1. call[t].at = "wait" /\ socket' = socket
    BY <1>9 DEF Receive, ReceiveBroken, Timeout, At
  <2>2. /\ \A u \in Threads \ {t} : call'[u] = call[u]
        /\ call'[t].op = call[t].op /\ call'[t].at \in {"answer", "error", "failed"}
    <3>1. CASE Receive(t)
      BY <1>0, <3>1, AnswerGiven DEF Receive, Others
    <3>2. CASE ReceiveBroken(t)
      BY <1>0, <3>2, WaitBreaks DEF Others
    <3>3. CASE Timeout(t)
      BY <1>0, <3>3, AnswerCall DEF Timeout
    <3> QED
      BY <1>9, <3>1, <3>2, <3>3
  <2>3. socket = Null \/ state'[socket] # "closed" \/ state[socket] = "closed"
    <3>1. PICK then : Release(t, then) /\ (state[call[t].on] # "closed" => then # "closed")
      BY <1>9 DEF Receive, ReceiveBroken, Timeout
    <3> QED
      BY <1>0, <3>1 DEF Release, SocketsOK
  <2> QED
    BY <1>1, <1>2, <2>1, <2>2, <2>3 DEF At, StopPlaces
<1>10. CASE CloseSocket(t)
  <2>1. call[t].at \in {"close", "shut"} /\ Goto(t, "forget") /\ socket' = socket
    BY <1>10 DEF CloseSocket, At
  <2> QED
    BY <1>0, <1>1, <2>1, GoesTo DEF At, Others, StopPlaces
<1>11. CASE Forget(t)
  <2>1. call[t].at = "forget" /\ Goto(t, "failed") /\ socket' = Null
    BY <1>11 DEF Forget, At, SetSocket
  <2> QED
    BY <1>0, <1>1, <2>1, GoesTo DEF Others, StopPlaces
<1> QED
  BY <1>3, <1>4, <1>5, <1>6, <1>7, <1>8, <1>9, <1>10, <1>11, Zenon DEF Requests

\* Every step keeps what is known of stopped threads.
LEMMA NextKeepsClosing ==
  ASSUME SocketInv, Closing, [Next]_vars PROVE Closing'
<1>1. CASE Calling /\ UNCHANGED stopped
  BY <1>1, CallingKeepsClosing
<1>2. ASSUME NEW t \in Threads, Step(t) PROVE Closing'
  <2>1. CASE Requests(t)
    BY <1>2, <2>1, StepIs, RequestKeepsClosing
  <2>2. CASE Answers(t)
    <3>1. /\ call[t].at \in {"answer", "cleanup"} /\ call[t].op # "stop" /\ UNCHANGED <<socket, state, stopped>>
          /\ Goto(t, "cleanup") \/ Return(t)
      BY <1>2, <2>2, StepIs
         DEF Answers, SubmitFailed, SubmitAnswered, CancelFailed, CancelAnswered, InfoReturned,
             Cleanup, At, sockets, Closing, StopPlaces
    <3>2. "cleanup" \in Places \ {"wait"} /\ Calls
      BY DEF Places, SocketInv
    <3>3. \A u \in Threads \ {t} : call'[u] = call[u]
      BY <3>1, <3>2, GoesTo, Returns DEF Others
    <3>4. \/ call'[t].at = "cleanup" /\ call'[t].op = call[t].op
          \/ call'[t].at = "idle" /\ call'[t].op = Null
      BY <3>1, <3>2, GoesTo, Returns DEF NoCall
    <3>5. \A u \in Threads : (At(u, "forget") => At(u, "forget")') /\ (Due(u) => Due(u)')
      BY <3>1, <3>3, <3>4 DEF At, Due
    <3> QED
      BY <3>1, <3>3, <3>4, <3>5, NullAssumption DEF Closing, At, Idle
  <2> QED
    BY <1>2, <2>1, <2>2, StepIs
<1>3. ASSUME NEW t \in Threads, Stop(t) PROVE Closing'
  <2>1. Calls' /\ Moves(t) /\ call'[t].at = "stop" /\ call'[t].op = "stop"
    BY <1>3, StopShape DEF SocketInv
  <2>2. Idle(t) /\ t \notin stopped /\ stopped' = stopped
    BY <1>3 DEF Stop
  <2>3. \A u \in Threads \ {t} : call'[u] = call[u]
    BY <2>1 DEF Moves, Others
  <2>4. \A u \in Threads : (At(u, "forget") => At(u, "forget")') /\ (Due(u) => Due(u)')
    BY <2>1, <2>2, <2>3 DEF At, Due, Idle
  <2> QED
    BY <2>1, <2>2, <2>3, <2>4 DEF Closing, Moves, At, Idle, sockets, StopPlaces
<1>4. ASSUME NEW t \in Threads, Stopped(t) PROVE Closing'
  <2>1. /\ At(t, "answer") /\ call[t].op = "stop" /\ Return(t)
        /\ stopped' = stopped \cup {t} /\ UNCHANGED <<socket, state>>
    BY <1>4 DEF Stopped, sockets
  <2>2. Others(t) /\ call'[t] = NoCall
    BY <2>1, Returns DEF At, SocketInv
  <2>3. \A u \in Threads : (At(u, "forget") => At(u, "forget")') /\ (Due(u) => Due(u)')
    BY <2>1, <2>2 DEF At, Due, Others
  <2> QED
    BY <2>1, <2>2, <2>3, NullAssumption DEF Closing, Others, NoCall, Idle, At
<1>5. CASE ClientRestarts
  <2>1. stopped' = {} /\ Calls' /\ call' = [t \in Threads |-> NoCall]
        /\ \E s \in Sockets : socket' = s /\ state'[s] = "ready"
    BY <1>5, RenewShape DEF ClientRestarts, Opened
  <2> QED
    BY <2>1, BrokerAssumption, NullAssumption DEF Closing, NoCall, Due, At
<1>6. CASE ServerRestarts \/ (\E s \in Sockets : ServeRequest(s) \/ Linger(s)) \/ UNCHANGED vars
  <2>1. UNCHANGED <<socket, state, call, stopped>>
    BY <1>6, Zenon DEF ServerRestarts, ServeRequest, Linger, vars, sockets
  <2> QED
    BY <2>1 DEF Closing, Idle, At, Due
<1> QED
  BY <1>1, <1>2, <1>3, <1>4, <1>5, <1>6 DEF Next

\* It holds initially.
LEMMA ClosingInit == Init => Closing
BY BrokerAssumption, NullAssumption DEF Init, Closing, NoCall, Due, At, Opened

\* Once each thread has stopped the broker, or died, no socket is open: whatever
\* call was under way in the manager's thread while the API stopped the broker,
\* and whichever thread opened a socket of its own meanwhile
\* (cpp_ob_broker.py:60-80).
THEOREM ShutdownAlwaysClosesSocket == Spec => []ShutdownClosesSocket
<1>1. Init => SocketInv /\ Closing
  BY SocketsInit, ClosingInit
<1>2. SocketInv /\ Closing /\ [Next]_vars => (SocketInv /\ Closing)'
  BY NextKeepsSockets, NextKeepsClosing
<1>3. SocketInv /\ Closing => ShutdownClosesSocket
  <2> SUFFICES ASSUME SocketInv, Closing, \A t \in Threads : t \in stopped \/ At(t, "dead")
               PROVE  socket = Null /\ \A s \in Sockets : state[s] = "closed"
    BY DEF ShutdownClosesSocket
  <2>1. socket = Null /\ \A t \in Threads : call[t].on = Null
    BY DEF SocketInv, Closing, Idle, Calls, Due, At
  <2> QED
    BY <2>1, BrokerAssumption DEF SocketInv, SocketsOK
<1> QED
  BY <1>1, <1>2, <1>3, PTL DEF Spec

-----------------------------------------------------------------------------
(* What a timeout costs *)

\* The socket waits for an answer that no call of the manager's thread expects:
\* the next request will fail.
Pending ==
  socket # Null /\ state[socket] = "awaiting" /\ call["pm"].at \notin {"recv", "wait"}

\* A failure that is still to be counted, or to come.
Debt ==
  \/ Pending
  \/ call["pm"].at \in {"error", "close", "forget", "failed"} /\ call["pm"].op # "stop"

\* While the manager's thread is the only one, nobody closes or replaces the
\* socket of its call, and a failed call is paid for by a timeout.
Alone ==
  /\ call["pm"].at \in {"checked", "started", "connect", "recheck", "rechecked", "send"} =>
       socket # Null
  /\ call["pm"].at \in {"connect", "recheck", "rechecked", "send"} => state[socket] # "closed"
  /\ At("pm", "recv") \/ At("pm", "wait") => socket # Null /\ state[socket] = "awaiting"
  /\ At("pm", "wait") => call["pm"].on = socket
  /\ At("pm", "failed") => socket = Null
  /\ call["pm"].at \in {"stop", "stopping", "shut"} => call["pm"].op = "stop"
  /\ failures \in [calls : Nat, timeouts : Nat]
  /\ failures.calls + (IF Debt THEN 1 ELSE 0) <= 2 * failures.timeouts

\* A request that fails is counted, a stop is none.
LEMMA FailureCounted ==
  ASSUME failures \in [calls : Nat, timeouts : Nat], NEW t, NEW answer, GiveAnswer(t, answer)
  PROVE  /\ failures' \in [calls : Nat, timeouts : Nat]
         /\ failures'.calls =
              failures.calls + (IF answer = Null /\ call[t].op # "stop" THEN 1 ELSE 0)
         /\ failures'.timeouts = failures.timeouts
<1> DEFINE n == IF answer = Null /\ call[t].op # "stop" THEN 1 ELSE 0
<1>1. failures' = [failures EXCEPT !.calls = @ + n]
  BY DEF GiveAnswer
<1>2. failures.calls \in Nat /\ failures.timeouts \in Nat
  OBVIOUS
<1>3. n \in {0, 1}
  OBVIOUS
<1> HIDE DEF n
<1>4. failures.calls + n \in Nat
  BY <1>2, <1>3
<1> QED
  BY <1>1, <1>2, <1>4 DEF n

\* Where a thread that is alone looks at its socket.
LEMMA LookAlone ==
  ASSUME SocketInv, Closing, Alone, Looks("pm"), "pm" \in Threads
  PROVE  /\ LET at == call'["pm"].at
                from == call["pm"].at
            IN
             \/ from \in {"check", "start", "checked", "started"} /\ at \in {"start", "open"}
             \/ from \in {"check", "start"} /\ at \in {"checked", "started"} /\ socket # Null
             \/ /\ from \in {"checked", "started", "connect", "recheck", "rechecked"}
                /\ at \in {"send", "recheck", "rechecked"} /\ socket # Null /\ state[socket] # "closed"
             \/ Debt /\ at \in {"error", "failed", "close", "dead"}
             \/ /\ from \in {"stop", "stopping", "shut"} /\ call["pm"].op = "stop"
                /\ at \in {"stopping", "shut", "forget", "failed", "dead"}
         /\ call'["pm"].at = "failed" => socket = Null
<1> DEFINE t == "pm"
<1>0. call[t].at \notin {"wait"}
  BY LookMoves DEF SocketInv
<1>1. \A at \in Places \ {"wait"} : Goto(t, at) => call'[t].at = at
  BY <1>0, GoesTo DEF SocketInv
<1>2. {"start", "checked", "open", "started", "recheck", "rechecked", "close", "send", "failed", "error",
       "forget", "dead", "stopping", "shut"} \subseteq Places \ {"wait"}
  BY DEF Places
<1>3. CASE Check(t)
  BY <1>1, <1>2, <1>3 DEF Check, IsNone, IsClosed, At
<1>4. CASE Start(t)
  BY <1>1, <1>2, <1>4 DEF Start, IsNone, IsClosed, At
<1>5. CASE Connect(t)
  BY <1>1, <1>2, <1>5 DEF Connect, IsClosed, At, Alone
<1>6. CASE Recheck(t)
  BY <1>1, <1>2, <1>6 DEF Recheck, IsNone, IsClosed, At, Alone
<1>7. CASE SendOutOfTurn(t)
  BY <1>1, <1>2, <1>7 DEF SendOutOfTurn, At, Alone, Debt, Pending, SocketInv, SocketsOK
<1>8. CASE RecvOutOfTurn(t)
  BY <1>8 DEF RecvOutOfTurn, Alone
<1>9. CASE SocketError(t)
  BY <1>1, <1>2, <1>9 DEF SocketError, IsNone, At, Debt, Alone, Closing, StopPlaces
<1>10. CASE Raise(t)
  <2>1. call[t].at \in {"close", "stopping"}
    BY <1>10 DEF Raise, At, Alone
  <2>2. (Goto(t, "failed") \/ Goto(t, "dead")) /\ socket = Null
    BY <1>10, <2>1 DEF Raise, At
  <2>3. call'[t].at \in {"failed", "dead"}
    BY <1>1, <1>2, <2>2
  <2> QED
    BY <2>1, <2>2, <2>3 DEF Debt, Alone, Closing, StopPlaces
<1>11. CASE Stopping(t)
  BY <1>1, <1>2, <1>11 DEF Stopping, IsNone, IsClosed, At, Alone
<1>12. CASE ShutFails(t)
  BY <1>1, <1>2, <1>12 DEF ShutFails, At, Alone
<1> QED
  BY <1>3, <1>4, <1>5, <1>6, <1>7, <1>8, <1>9, <1>10, <1>11, <1>12, Zenon DEF Looks

\* The steps of a request, one by one.
LEMMA RequestKeepsAlone ==
  ASSUME SocketInv, Closing, Alone, Threads = {"pm"}, NEW t \in Threads, Requests(t)
  PROVE  Alone'
<1>0. /\ t = "pm" /\ Calls /\ SocketsOK
      /\ call[t].at = "wait" <=> call[t].on # Null
      /\ {"connect", "recv", "forget", "failed"} \subseteq Places \ {"wait"}
      /\ failures.calls \in Nat /\ failures.timeouts \in Nat
      /\ ~Held(socket, t)
  BY DEF SocketInv, Calls, Places, Alone, Held
<1>1. CASE Looks(t)
  <2>1. UNCHANGED <<socket, state, failures>> /\ call'[t].op = call[t].op /\ call[t].at \notin {"wait"}
    BY <1>0, <1>1, LookMoves DEF history, sockets
  <2>2. /\ call'["pm"].at = "failed" => socket = Null
        /\ LET at == call'["pm"].at
               from == call["pm"].at
           IN
            \/ from \in {"check", "start", "checked", "started"} /\ at \in {"start", "open"}
            \/ from \in {"check", "start"} /\ at \in {"checked", "started"} /\ socket # Null
            \/ /\ from \in {"checked", "started", "connect", "recheck", "rechecked"}
               /\ at \in {"send", "recheck", "rechecked"} /\ socket # Null /\ state[socket] # "closed"
            \/ Debt /\ at \in {"error", "failed", "close", "dead"}
            \/ /\ from \in {"stop", "stopping", "shut"} /\ call["pm"].op = "stop"
                /\ at \in {"stopping", "shut", "forget", "failed", "dead"}
    BY <1>0, <1>1, LookAlone
  <2>3. Debt' => Debt
    <3>1. CASE At(t, "recv")
      BY <1>0, <2>2, <3>1 DEF Debt, Alone, At
    <3>2. CASE ~At(t, "recv")
      BY <1>0, <2>1, <2>2, <3>2 DEF Debt, Pending, At
    <3> QED
      BY <3>1, <3>2
  <2> QED
    BY <1>0, <2>1, <2>2, <2>3 DEF Alone, At
<1>2. CASE Open(t)
  <2>1. call'[t].at = "connect" /\ UNCHANGED failures
    BY <1>0, <1>2, GoesTo DEF Open, At, history
  <2>2. socket' \in Sockets /\ state'[socket'] = "ready"
    BY <1>0, <1>2 DEF Open, SetSocket
  <2> QED
    BY <1>0, <2>1, <2>2, BrokerAssumption DEF Alone, At, Pending, Debt
<1>3. CASE Send(t)
  <2>1. call'[t].at = "recv" /\ UNCHANGED <<socket, failures>> /\ state[socket] = "ready"
    BY <1>0, <1>3, GoesTo DEF Send, At, history
  <2>2. socket # Null /\ state'[socket] = "awaiting"
    BY <1>0, <1>3 DEF Send, SocketsOK
  <2> QED
    BY <1>0, <2>1, <2>2 DEF Alone, At, Pending, Debt
<1>4. CASE NoSocket(t)
  BY <1>0, <1>4 DEF NoSocket, Alone, At
<1>5. CASE Recv(t)
  <2>1. socket \in Sockets /\ UNCHANGED <<sockets, failures>> /\ state[socket] = "awaiting"
    BY <1>0, <1>5 DEF Recv, SocketsOK, history
  <2>2. call'[t].at = "wait" /\ call'[t].on = socket
    BY <1>0, <1>5, <2>1, WaitCall DEF Recv
  <2>3. At(t, "recv")
    BY <1>5 DEF Recv
  <2> QED
    BY <1>0, <2>1, <2>2, <2>3 DEF Alone, At, Pending, Debt, sockets
<1>6. CASE Receive(t)
  <2>1. /\ GiveAnswer(t, wire[socket]) /\ wire[socket] # Null /\ socket' = socket
        /\ state' = [state EXCEPT ![socket] = "ready"] /\ socket \in Sockets
    BY <1>0, <1>6 DEF Receive, Answered, Release, Alone, SocketsOK
  <2>2. call'[t].at = "answer" /\ state'[socket] = "ready"
    BY <1>0, <2>1, AnswerGiven DEF SocketsOK
  <2>3. failures.calls <= 2 * failures.timeouts
    BY <1>0 DEF Alone
  <2> QED
    BY <1>0, <2>1, <2>2, <2>3, FailureCounted DEF Alone, At, Pending, Debt
<1>7. CASE ReceiveBroken(t)
  BY <1>0, <1>7 DEF ReceiveBroken, Alone
<1>8. CASE Timeout(t)
  <2>1. /\ failures' = [calls |-> failures.calls + 1, timeouts |-> failures.timeouts + 1]
        /\ socket' = socket /\ At(t, "wait")
    BY <1>8 DEF Timeout
  <2>2. call'[t].at = "answer"
    BY <1>0, <1>8, AnswerCall DEF Timeout
  <2>3. failures.calls <= 2 * failures.timeouts
    BY <1>0 DEF Alone
  <2>4. failures' \in [calls : Nat, timeouts : Nat] /\ failures'.calls + 1 <= 2 * failures'.timeouts
    BY <1>0, <2>1, <2>3
  <2> QED
    BY <1>0, <2>1, <2>2, <2>4 DEF Alone, At, Pending, Debt
<1>9. CASE CloseSocket(t)
  <2>1. /\ call'[t].at = "forget" /\ call'[t].op = call[t].op /\ UNCHANGED <<socket, failures>>
        /\ call[t].at \in {"close", "shut"}
    BY <1>0, <1>9, GoesTo DEF CloseSocket, At, history
  <2>2. state'[socket] = "closed"
    BY <1>0, <1>9 DEF CloseSocket, SocketsOK
  <2>3. Debt' => Debt
    BY <1>0, <2>1, <2>2 DEF Debt, Pending, Alone
  <2> QED
    BY <1>0, <2>1, <2>2, <2>3 DEF Alone, At
<1>10. CASE Forget(t)
  <2>1. /\ call'[t].at = "failed" /\ call'[t].op = call[t].op /\ UNCHANGED failures
        /\ call[t].at = "forget"
    BY <1>0, <1>10, GoesTo DEF Forget, At, history
  <2>2. socket' = Null
    BY <1>10 DEF Forget, SetSocket
  <2>3. Debt' => Debt
    BY <1>0, <2>1, <2>2 DEF Debt, Pending
  <2> QED
    BY <1>0, <2>1, <2>2, <2>3 DEF Alone, At
<1>11. CASE ReturnNone(t)
  <2>1. /\ GiveAnswer(t, Null) /\ call'[t].at = "answer" /\ call'[t].op = call[t].op
        /\ call[t].at = "failed" /\ UNCHANGED <<socket, state>>
    BY <1>0, <1>11, AnswerGiven DEF ReturnNone, At, sockets
  <2>2. CASE call[t].op # "stop"
    <3>1. Debt /\ socket = Null
      BY <1>0, <2>1, <2>2 DEF Debt, Alone, At
    <3> QED
      BY <1>0, <2>1, <2>2, <3>1, FailureCounted DEF Alone, At, Pending, Debt
  <2>3. CASE call[t].op = "stop"
    BY <1>0, <2>1, <2>3, FailureCounted DEF Alone, At, Pending, Debt
  <2> QED
    BY <2>2, <2>3
<1> QED
  BY <1>1, <1>2, <1>3, <1>4, <1>5, <1>6, <1>7, <1>8, <1>9, <1>10, <1>11, Zenon DEF Requests

\* What is done with an answer leaves the socket alone.
LEMMA QuietKeepsAlone ==
  ASSUME Alone, UNCHANGED <<sockets, failures>>, Threads = {"pm"},
         call' = call \/ (/\ call["pm"].at \notin {"recv", "wait"}
                          /\ call'["pm"].at \in {"idle", "check", "cleanup", "stop"}
                          /\ At("pm", "stop")' => call'["pm"].op = "stop")
  PROVE  Alone'
<1>1. CASE call' = call
  BY <1>1 DEF Alone, At, Pending, Debt, sockets
<1>2. CASE call' # call
  <2>1. Debt' => Debt
    BY <1>2 DEF Debt, Pending, sockets
  <2> QED
    BY <1>2, <2>1 DEF Alone, At, sockets
<1> QED
  BY <1>1, <1>2

\* Every step keeps what is known of a thread that is alone.
LEMMA NextKeepsAlone ==
  ASSUME SocketInv, Closing, Alone, Threads = {"pm"}, [Next]_vars PROVE Alone'
<1>0. Calls /\ "pm" \in Threads /\ {"cleanup"} \subseteq Places \ {"wait"}
  BY DEF SocketInv, Places
<1>1. CASE Calling
  <2>1. UNCHANGED <<sockets, failures>>
    BY <1>1 DEF Calling, Submit, SubmitUnpriced, Cancel, GetMarketDataSnapshot, history
  <2>2. call' = call \/ (Idle("pm") /\ \E op, id, request : op # "stop" /\ Begin("pm", op, id, request))
    BY <1>1 DEF Calling, Submit, SubmitUnpriced, Cancel, GetMarketDataSnapshot, MayCall
  <2>3. call' = call \/ (call["pm"].at = "idle" /\ call'["pm"].at = "check")
    BY <1>0, <2>2, BeginCall DEF Idle
  <2> QED
    BY <2>1, <2>3, QuietKeepsAlone DEF At
<1>2. ASSUME NEW t \in Threads, Step(t) PROVE Alone'
  <2>1. CASE Requests(t)
    BY <2>1, RequestKeepsAlone
  <2>2. CASE Answers(t)
    <3>1. UNCHANGED <<sockets, failures>> /\ (At(t, "answer") \/ At(t, "cleanup"))
      BY <2>2, Zenon DEF Answers, SubmitFailed, SubmitAnswered, CancelFailed, CancelAnswered, InfoReturned,
                  Cleanup, history
    <3>2. Goto(t, "cleanup") \/ Return(t)
      BY <2>2, Zenon DEF Answers, SubmitFailed, SubmitAnswered, CancelFailed, CancelAnswered,
                         InfoReturned, Cleanup
    <3>3. t = "pm" /\ call'[t].at \in {"idle", "cleanup"}
      BY <1>0, <3>1, <3>2, GoesTo, Returns DEF At
    <3> QED
      BY <3>1, <3>3, QuietKeepsAlone DEF At
  <2> QED
    BY <1>2, <2>1, <2>2, StepIs
<1>3. ASSUME NEW t \in Threads, Stop(t) PROVE Alone'
  <2>1. UNCHANGED <<sockets, failures>> /\ At(t, "idle") /\ t = "pm"
    BY <1>3 DEF Stop, Idle, At, history
  <2> QED
    BY <1>0, <1>3, <2>1, StopShape, QuietKeepsAlone DEF At
<1>4. ASSUME NEW t \in Threads, Stopped(t) PROVE Alone'
  <2>1. UNCHANGED <<sockets, failures>> /\ At(t, "answer") /\ t = "pm" /\ Return(t)
    BY <1>4 DEF Stopped, history
  <2>2. call'[t].at = "idle"
    BY <1>0, <2>1, Returns DEF At
  <2> QED
    BY <2>1, <2>2, QuietKeepsAlone DEF At
<1>5. CASE ClientRestarts
  <2>1. /\ call'["pm"].at = "idle" /\ socket' \in Sockets /\ state'[socket'] = "ready"
        /\ failures' = failures
    BY <1>0, <1>5 DEF ClientRestarts, NoCall, Opened, history
  <2>2. failures.calls \in Nat /\ failures.timeouts \in Nat
    BY DEF Alone
  <2> QED
    BY <2>1, <2>2 DEF Alone, At, Pending, Debt
<1>6. CASE ServerRestarts \/ (\E s \in Sockets : ServeRequest(s) \/ Linger(s)) \/ UNCHANGED vars
  BY <1>6, QuietKeepsAlone, Zenon
     DEF ServerRestarts, ServeRequest, Linger, vars, sockets, history
<1> QED
  BY <1>1, <1>2, <1>3, <1>4, <1>5, <1>6 DEF Next

\* Where the manager's thread is the only user of the socket, a receive that
\* times out costs its own call and at most the next one, through restarts of
\* either process and answers that come late (cpp_ob_broker.py:90-97).
THEOREM FailuresAlwaysBounded ==
  ASSUME Threads = {"pm"} PROVE Spec => []FailuresBounded
<1>1. Init => SocketInv /\ Closing /\ Alone
  <2> SUFFICES ASSUME Init PROVE Alone
    BY SocketsInit, ClosingInit
  <2>1. call["pm"].at = "idle" /\ state[socket] = "ready"
    BY DEF Init, NoCall, Opened
  <2> QED
    BY <2>1 DEF Init, Alone, At, Pending, Debt
<1>2. SocketInv /\ Closing /\ Alone /\ [Next]_vars => (SocketInv /\ Closing /\ Alone)'
  BY NextKeepsSockets, NextKeepsClosing, NextKeepsAlone
<1>3. Alone => FailuresBounded
  BY DEF Alone, FailuresBounded
<1> QED
  BY <1>1, <1>2, <1>3, PTL DEF Spec

-----------------------------------------------------------------------------
(* What is known of the orders, the reports and the messages *)

\* An order of the maps, and a confirmation, whose parts are among these values.
OrderOf(Seen) == [client : Seen, quantity : Nat, filled_quantity : Nat, status : Seen]
ReportOf(Seen) == [status : Seen, filled_quantity : Seen]

\* Every order of the maps is that of a client of its own.
Tracked(orders, reports) ==
  /\ \E Seen : orders \in [DOMAIN orders -> OrderOf(Seen)]
  /\ \E Seen : reports \in [DOMAIN reports -> Seq(ReportOf(Seen))]
  /\ \A id \in DOMAIN orders : orders[id].client \in DOMAIN reports
  /\ \A i, j \in DOMAIN orders : orders[i].client = orders[j].client => i = j

\* Every order of the maps has something left.
Unfilled(orders) == \A id \in DOMAIN orders : orders[id].filled_quantity < orders[id].quantity

\* The client was told that its order is over.
Finished(reports, c) == \E n \in DOMAIN reports[c] : reports[c][n].status \in Terminal

\* No confirmation follows a terminal one.
FinalLast(reports) ==
  \A c \in DOMAIN reports : \A n \in DOMAIN reports[c] :
    reports[c][n].status \in Terminal => n = Len(reports[c])

\* The ids given out so far, and an order that is over leaves the maps before
\* the call returns.
MapsOK ==
  /\ Tracked(details, told) /\ Unfilled(details)
  /\ FinalLast(told)
  /\ broker_order_id_counter \in Nat /\ DOMAIN details \subseteq 1 .. broker_order_id_counter
  /\ \A id \in DOMAIN details :
       Finished(told, details[id].client) => At("pm", "cleanup") /\ call["pm"].id = id

\* The call of the manager's thread is about an order of the maps, the API's is
\* about none, and a stop makes no request.
CallersOK ==
  /\ ~Idle("pm") /\ call["pm"].op # "stop" =>
       /\ call["pm"].op \in {"submit", "cancel"}
       /\ call["pm"].id \in DOMAIN details
       /\ details[call["pm"].id].client = call["pm"].request.client
  /\ \A t \in Threads \ {"pm"} : ~Idle(t) => call[t].op \in {"info", "stop"}
  /\ \A t \in Threads : ~Idle(t) /\ call[t].op # "stop" => RequestOK(call[t].request)
  /\ \A t \in Threads : call[t].op = "stop" => call[t].at \in StopPlaces
  /\ \A t \in Threads : At(t, "cleanup") => t = "pm"

\* The book, and what can be on the wire or in a call.
MessagesOK ==
  /\ wire = [s \in Sockets |-> wire[s]]
  /\ BookOK
  /\ \A s \in Sockets : Requested(s) => RequestOK(wire[s])
  /\ \A s \in Sockets : Answered(s) => FillsOK(wire[s])
  /\ \A t \in Threads : call[t].answer # Null => FillsOK(call[t].answer)

\* The inductive invariant of the reports.
ReportInv == Calls /\ MapsOK /\ CallersOK /\ MessagesOK

-----------------------------------------------------------------------------
(* Confirmations and fills *)

\* A confirmation is added to those of a client whose order was not over.
LEMMA TellKeeps ==
  ASSUME NEW orders, NEW reports, Tracked(orders, reports), FinalLast(reports),
         NEW c \in DOMAIN reports, ~Finished(reports, c),
         NEW status, NEW quantity
  PROVE  LET after == Tell(reports, c, Confirmation(status, quantity))
         IN  /\ Tracked(orders, after) /\ FinalLast(after)
             /\ DOMAIN after = DOMAIN reports
             /\ \A d \in DOMAIN reports \ {c} : Finished(after, d) <=> Finished(reports, d)
             /\ Finished(after, c) <=> status \in Terminal
<1> DEFINE conf == Confirmation(status, quantity)
           after == Tell(reports, c, conf)
<1>1. PICK Seen : reports \in [DOMAIN reports -> Seq(ReportOf(Seen))]
  BY DEF Tracked
<1> DEFINE More == Seen \cup {status, quantity}
<1>2. conf \in ReportOf(More) /\ conf.status = status
  BY DEF Confirmation, ReportOf
<1>3. \A d \in DOMAIN reports : reports[d] \in Seq(ReportOf(More))
  <2> SUFFICES ASSUME NEW d \in DOMAIN reports PROVE reports[d] \in Seq(ReportOf(More))
    OBVIOUS
  <2>1. reports[d] \in Seq(ReportOf(Seen))
    BY <1>1
  <2>2. ReportOf(Seen) \subseteq ReportOf(More)
    BY DEF ReportOf
  <2> HIDE DEF More
  <2> QED
    BY <2>1, <2>2, SeqDef
<1>4. /\ DOMAIN after = DOMAIN reports
      /\ \A d \in DOMAIN reports \ {c} : after[d] = reports[d]
      /\ after[c] = Append(reports[c], conf)
      /\ after = [d \in DOMAIN reports |-> after[d]]
  BY <1>1 DEF Tell
<1> HIDE DEF conf, after, More
<1>5. reports[c] \in Seq(ReportOf(More))
  BY <1>3
<1>6. /\ after[c] \in Seq(ReportOf(More))
      /\ Len(after[c]) = Len(reports[c]) + 1 /\ Len(reports[c]) \in Nat
      /\ DOMAIN after[c] = 1 .. (Len(reports[c]) + 1)
      /\ DOMAIN reports[c] = 1 .. Len(reports[c])
      /\ \A n \in DOMAIN reports[c] : after[c][n] = reports[c][n]
      /\ after[c][Len(reports[c]) + 1] = conf
  BY <1>2, <1>4, <1>5
<1>7. Tracked(orders, after)
  <2>1. after \in [DOMAIN after -> Seq(ReportOf(More))]
    BY <1>3, <1>4, <1>6
  <2> QED
    BY <1>4, <2>1 DEF Tracked
<1>8. FinalLast(after)
  <2> SUFFICES ASSUME NEW d \in DOMAIN reports, NEW n \in DOMAIN after[d],
                      after[d][n].status \in Terminal
               PROVE  n = Len(after[d])
    BY <1>4 DEF FinalLast
  <2>1. CASE d # c
    BY <1>4, <2>1 DEF FinalLast
  <2>2. CASE d = c
    <3>1. n \in DOMAIN reports[c] => FALSE
      BY <1>6, <2>2 DEF Finished
    <3> QED
      BY <1>6, <2>2, <3>1
  <2> QED
    BY <2>1, <2>2
<1>9. Finished(after, c) <=> status \in Terminal
  <2>1. ASSUME status \in Terminal PROVE Finished(after, c)
    <3>1. Len(reports[c]) + 1 \in DOMAIN after[c]
      BY <1>6
    <3> QED
      BY <1>2, <1>6, <2>1, <3>1 DEF Finished
  <2>2. ASSUME NEW n \in DOMAIN after[c], after[c][n].status \in Terminal PROVE status \in Terminal
    <3>1. n \notin DOMAIN reports[c]
      BY <1>6, <2>2 DEF Finished
    <3> QED
      BY <1>2, <1>6, <2>2, <3>1
  <2> QED
    BY <2>1, <2>2 DEF Finished
<1>10. \A d \in DOMAIN reports \ {c} : Finished(after, d) <=> Finished(reports, d)
  BY <1>4 DEF Finished
<1> QED
  BY <1>4, <1>7, <1>8, <1>9, <1>10 DEF after, conf

\* The maps change, but not the clients of the orders that stay in them.
LEMMA TrackedFewer ==
  ASSUME NEW orders, NEW reports, NEW fewer, Tracked(orders, reports),
         DOMAIN fewer \subseteq DOMAIN orders,
         \E Seen : fewer \in [DOMAIN fewer -> OrderOf(Seen)],
         \A id \in DOMAIN fewer : fewer[id].client = orders[id].client
  PROVE  Tracked(fewer, reports)
BY DEF Tracked

\* A part of an order other than its client is changed.
LEMMA OrderChanges ==
  ASSUME NEW orders, NEW reports, Tracked(orders, reports), NEW id \in DOMAIN orders,
         NEW changed, NEW More, changed \in OrderOf(More), changed.client = orders[id].client,
         NEW after, after = [orders EXCEPT ![id] = changed]
  PROVE  /\ Tracked(after, reports)
         /\ DOMAIN after = DOMAIN orders
         /\ \A i \in DOMAIN orders : after[i].client = orders[i].client
         /\ after[id] = changed
<1>1. PICK Seen : orders \in [DOMAIN orders -> OrderOf(Seen)]
  BY DEF Tracked
<1>2. /\ DOMAIN after = DOMAIN orders
      /\ \A i \in DOMAIN orders : i # id => after[i] = orders[i]
      /\ after[id] = changed
      /\ after = [i \in DOMAIN orders |-> after[i]]
  BY <1>1
<1>3. after \in [DOMAIN after -> OrderOf(Seen \cup More)]
  <2>1. OrderOf(Seen) \subseteq OrderOf(Seen \cup More) /\ OrderOf(More) \subseteq OrderOf(Seen \cup More)
    BY DEF OrderOf
  <2> QED
    BY <1>1, <1>2, <2>1
<1>4. \A i \in DOMAIN orders : after[i].client = orders[i].client
  BY <1>2
<1> QED
  BY <1>2, <1>3, <1>4, TrackedFewer

\* The status of an order is changed.
LEMMA StatusChanges ==
  ASSUME NEW orders, NEW reports, Tracked(orders, reports), NEW id \in DOMAIN orders, NEW status,
         NEW after, after = [orders EXCEPT ![id].status = status]
  PROVE  /\ Tracked(after, reports)
         /\ DOMAIN after = DOMAIN orders
         /\ \A i \in DOMAIN orders : after[i].client = orders[i].client
         /\ Unfilled(orders) => Unfilled(after)
<1>1. PICK Seen : orders \in [DOMAIN orders -> OrderOf(Seen)]
  BY DEF Tracked
<1> DEFINE changed == [orders[id] EXCEPT !.status = status]
           More == Seen \cup {status}
<1>2. after = [orders EXCEPT ![id] = changed]
  BY <1>1
<1>3. orders[id] \in OrderOf(Seen)
  BY <1>1
<1>4. /\ changed \in OrderOf(More) /\ changed.client = orders[id].client
      /\ changed.quantity = orders[id].quantity
      /\ changed.filled_quantity = orders[id].filled_quantity
  BY <1>3 DEF OrderOf
<1> HIDE DEF changed, More
<1>6. Unfilled(orders) => Unfilled([orders EXCEPT ![id] = changed])
  BY <1>1, <1>4 DEF Unfilled
<1>5. /\ Tracked([orders EXCEPT ![id] = changed], reports)
      /\ DOMAIN [orders EXCEPT ![id] = changed] = DOMAIN orders
      /\ \A i \in DOMAIN orders : [orders EXCEPT ![id] = changed][i].client = orders[i].client
  BY <1>4, OrderChanges
<1> QED
  BY <1>2, <1>5, <1>6

\* The maps forget an order.
LEMMA CleanUpKeeps ==
  ASSUME NEW orders, NEW reports, Tracked(orders, reports), NEW id
  PROVE  /\ Tracked(CleanedUp(orders, id), reports)
         /\ DOMAIN CleanedUp(orders, id) = DOMAIN orders \ {id}
         /\ \A i \in DOMAIN orders \ {id} : CleanedUp(orders, id)[i] = orders[i]
<1> DEFINE after == CleanedUp(orders, id)
<1>1. after = [i \in DOMAIN orders \ {id} |-> orders[i]]
  BY DEF CleanedUp, Restrict
<1>2. PICK Seen : orders \in [DOMAIN orders -> OrderOf(Seen)]
  BY DEF Tracked
<1> HIDE DEF after
<1>3. /\ DOMAIN after = DOMAIN orders \ {id}
      /\ \A i \in DOMAIN orders \ {id} : after[i] = orders[i]
      /\ after \in [DOMAIN after -> OrderOf(Seen)]
  BY <1>1, <1>2
<1>4. Tracked(after, reports)
  BY <1>3, TrackedFewer
<1> QED
  BY <1>3, <1>4 DEF after

\* What is left while the fills of an answer are applied, from the maps and
\* the reports at the answer: every order in the maps is open for its client.
Applied(s) ==
  /\ Tracked(s.details, s.told) /\ Unfilled(s.details) /\ FinalLast(s.told)
  /\ DOMAIN s.details \subseteq DOMAIN details
  /\ \A id \in DOMAIN s.details :
       s.details[id].client = details[id].client /\ ~Finished(s.told, s.details[id].client)

\* One fill: its order is reported on and, if it is filled, leaves the maps.
LEMMA ApplyFillKeeps ==
  ASSUME NEW s, Applied(s), NEW fill, fill.quantity \in Nat PROVE Applied(ApplyFill(s, fill))
<1>1. CASE fill.id \notin DOMAIN s.details
  <2>1. ApplyFill(s, fill) = s
    BY <1>1 DEF ApplyFill
  <2> QED
    BY <2>1
<1>2. CASE fill.id \in DOMAIN s.details
  <2> DEFINE id == fill.id
             order == s.details[id]
             filled == order.filled_quantity + fill.quantity
             status == IF filled >= order.quantity THEN "FILLED" ELSE "PARTIALLY_FILLED"
             kept == IF status = "FILLED" THEN status ELSE "WORKING"
             updated == [s.details EXCEPT ![id].filled_quantity = filled, ![id].status = kept]
             fewer == IF status = "FILLED" THEN CleanedUp(updated, id) ELSE updated
             c == order.client
             after == Tell(s.told, c, Confirmation(status, ReportedQuantity(order, fill)))
             changed == [order EXCEPT !.filled_quantity = filled, !.status = kept]
  <2>1. ApplyFill(s, fill) = [details |-> fewer, told |-> after]
    BY <1>2 DEF ApplyFill
  <2>2. /\ Tracked(s.details, s.told) /\ FinalLast(s.told) /\ id \in DOMAIN s.details
        /\ c \in DOMAIN s.told /\ ~Finished(s.told, c)
    BY <1>2 DEF Applied, Tracked
  <2>3. PICK Seen : s.details \in [DOMAIN s.details -> OrderOf(Seen)]
    BY <2>2 DEF Tracked
  <2> DEFINE More == Seen \cup {kept}
  <2>4. order \in OrderOf(Seen) /\ filled \in Nat /\ order.quantity \in Nat
    <3>1. order \in OrderOf(Seen)
      BY <2>2, <2>3
    <3> QED
      BY <3>1 DEF OrderOf
  <2>5. updated = [s.details EXCEPT ![id] = changed]
    BY <2>2, <2>3
  <2>6. /\ changed \in OrderOf(More) /\ changed.client = order.client
        /\ changed.filled_quantity = filled /\ changed.quantity = order.quantity
    BY <2>4 DEF OrderOf
  <2> HIDE DEF changed, More
  <2>7. /\ Tracked([s.details EXCEPT ![id] = changed], s.told)
        /\ DOMAIN [s.details EXCEPT ![id] = changed] = DOMAIN s.details
        /\ \A i \in DOMAIN s.details : [s.details EXCEPT ![id] = changed][i].client = s.details[i].client
    BY <2>2, <2>6, OrderChanges
  <2>8. /\ Tracked(updated, s.told) /\ DOMAIN updated = DOMAIN s.details
        /\ \A i \in DOMAIN s.details : updated[i].client = s.details[i].client
        /\ updated[id].filled_quantity = filled /\ updated[id].quantity = order.quantity
        /\ \A i \in DOMAIN s.details \ {id} : updated[i] = s.details[i]
    BY <2>2, <2>5, <2>6, <2>7
  <2> HIDE DEF updated
  <2>9. /\ Tracked(fewer, s.told)
        /\ DOMAIN fewer = IF status = "FILLED" THEN DOMAIN s.details \ {id} ELSE DOMAIN s.details
        /\ \A i \in DOMAIN fewer : fewer[i].client = s.details[i].client /\ fewer[i] = updated[i]
    <3>1. CASE status = "FILLED"
      <4>1. fewer = CleanedUp(updated, id)
        BY <3>1
      <4>2. /\ Tracked(CleanedUp(updated, id), s.told)
            /\ DOMAIN CleanedUp(updated, id) = DOMAIN updated \ {id}
            /\ \A i \in DOMAIN updated \ {id} : CleanedUp(updated, id)[i] = updated[i]
        BY <2>8, CleanUpKeeps
      <4> HIDE DEF fewer, status, id
      <4> QED
        BY <2>8, <3>1, <4>1, <4>2
    <3>2. CASE status # "FILLED"
      BY <2>8, <3>2
    <3> QED
      BY <3>1, <3>2
  <2>10. status \in Terminal <=> status = "FILLED"
    BY DEF Terminal
  <2>14. Unfilled(fewer)
    <3>1. status # "FILLED" => filled < order.quantity
      BY <2>4
    <3> HIDE DEF fewer, status, filled
    <3>2. Unfilled(s.details)
      BY DEF Applied
    <3> QED
      BY <2>8, <2>9, <3>1, <3>2 DEF Unfilled
  <2> HIDE DEF status, fewer
  <2>11. /\ Tracked(fewer, after) /\ FinalLast(after)
         /\ \A d \in DOMAIN s.told \ {c} : Finished(after, d) <=> Finished(s.told, d)
         /\ Finished(after, c) <=> status \in Terminal
    BY <2>2, <2>9, TellKeeps
  <2>12. ASSUME NEW i \in DOMAIN fewer
         PROVE  fewer[i].client = details[i].client /\ ~Finished(after, fewer[i].client)
    <3>1. i \in DOMAIN s.details /\ fewer[i].client = s.details[i].client
      BY <2>9
    <3>2. s.details[i].client = details[i].client /\ ~Finished(s.told, s.details[i].client)
      BY <3>1 DEF Applied
    <3>3. s.details[i].client \in DOMAIN s.told /\ (s.details[i].client = c => i = id)
      BY <2>2, <3>1 DEF Tracked
    <3>4. CASE i = id
      BY <2>9, <2>10, <2>11, <3>1, <3>2, <3>4
    <3>5. CASE i # id
      BY <2>11, <3>1, <3>2, <3>3, <3>5
    <3> QED
      BY <3>4, <3>5
  <2>13. DOMAIN fewer \subseteq DOMAIN details
    BY <2>9 DEF Applied
  <2> HIDE DEF after, c
  <2> QED
    BY <2>1, <2>11, <2>12, <2>13, <2>14 DEF Applied
<1> QED
  BY <1>1, <1>2

\* The facts about folds, for ApplyFill.
Fold == INSTANCE FoldTheorems WITH Op <- ApplyFill, Holds <- Applied

\* The fills of an answer, one by one.
LEMMA FillsApplied ==
  ASSUME NEW base, Applied(base), NEW answer, FillsOK(answer)
  PROVE  Applied(FoldLeft(ApplyFill, base, answer.fills))
<1> DEFINE fills == answer.fills
<1>0. IsFiniteSet(DOMAIN fills) /\ DOMAIN fills \subseteq Int
  BY FS_Interval DEF FillsOK
<1>1. FoldLeft(ApplyFill, base, fills) = Fold!Folded(base, fills)
  BY DEF FoldLeft, MapThenFoldSet, Max, Fold!Folded, Fold!Folds, Fold!FoldOver, Fold!Greatest
<1>2. \A r : \A n \in DOMAIN fills : Applied(r) => Applied(ApplyFill(r, fills[n]))
  BY ApplyFillKeeps DEF FillsOK
<1> QED
  BY <1>0, <1>1, <1>2, Fold!FoldKeeps DEF IsFiniteSet, Fold!IsFiniteSet

-----------------------------------------------------------------------------
(* Messages *)

\* A step of a client puts no answer on the wire, and no request but its call's.
Unanswered ==
  /\ wire' = [s \in Sockets |-> wire'[s]]
  /\ \A s \in Sockets :
       \/ wire'[s] = wire[s] \/ wire'[s] = Null
       \/ \E t \in Threads : ~Idle(t) /\ call[t].op # "stop" /\ wire'[s] = call[t].request
                            /\ RequestOK(wire'[s])

\* The thread goes on in its call; what it gets as an answer was on the wire.
GoesOn(t) ==
  /\ Others(t) /\ UNCHANGED <<maps, told, resting, older>>
  /\ call[t].at \notin {"idle", "cleanup"} /\ call'[t].at \notin {"idle", "cleanup"}
  /\ call'[t].op = call[t].op /\ call'[t].id = call[t].id /\ call'[t].request = call[t].request
  /\ call[t].op = "stop" => call'[t].at \in StopPlaces
  /\ \/ call'[t].answer \in {call[t].answer, Null}
     \/ \E s \in Sockets : Answered(s) /\ call'[t].answer = wire[s] /\ wire'[s] = Null

\* Closing or replacing a socket only loses messages.
LEMMA ClosingUnanswered ==
  ASSUME SocketsOK, MessagesOK, NEW t, CloseSocket(t) \/ (\E s : SetSocket(t, s)) PROVE Unanswered
<1>1. CASE CloseSocket(t)
  <2>1. socket \in Sockets
    BY <1>1 DEF CloseSocket, SocketsOK
  <2> QED
    BY <1>1, <2>1 DEF MessagesOK, CloseSocket, Unanswered
<1>2. CASE \E s : SetSocket(t, s)
  BY <1>2 DEF SetSocket, Unanswered
<1> QED
  BY <1>1, <1>2

\* The steps of a request, up to its answer, one by one.
LEMMA RequestGoesOn ==
  ASSUME Calls, SocketsOK, MessagesOK, CallersOK, NEW t \in Threads, Requests(t)
  PROVE  GoesOn(t) /\ Unanswered
<1>0. /\ call[t].at = "wait" <=> call[t].on # Null
      /\ {"connect", "recv", "forget", "failed"} \subseteq Places \ {"wait"}
      /\ wire' = wire => Unanswered
      /\ socket # Null => socket \in Sockets
      /\ call[t].on # Null => call[t].on \in Sockets
      /\ call[t].op = "stop" => call[t].at \in StopPlaces
      /\ ~Idle(t) /\ call[t].op # "stop" => RequestOK(call[t].request)
  BY HeldSockets DEF Calls, Places, MessagesOK, Unanswered, SocketsOK, CallersOK
<1>1. CASE Looks(t)
  <2>1. /\ Others(t)
        /\ call'[t].op = call[t].op /\ call'[t].id = call[t].id
        /\ call'[t].request = call[t].request /\ call'[t].answer = call[t].answer
        /\ UNCHANGED <<bookVars, wire, maps, sockets, budget, history>>
        /\ call[t].at \notin {"idle", "open", "wait", "forget", "failed", "answer", "cleanup", "dead"}
        /\ call'[t].at \notin {"idle", "check", "recv", "wait", "answer", "cleanup", "stop"}
        /\ \/ call[t].at \notin {"stop", "stopping", "shut"}
           \/ call'[t].at \in {"stopping", "shut", "forget", "failed", "dead"}
    BY <1>1, LookMoves DEF Moves
  <2>2. call[t].op = "stop" => call'[t].at \in StopPlaces
    BY <1>0, <2>1 DEF StopPlaces
  <2> QED
    BY <1>0, <2>1, <2>2 DEF GoesOn, bookVars, history
<1>2. CASE Open(t)
  <2>1. /\ call[t].at = "open" /\ Goto(t, "connect") /\ UNCHANGED <<maps, told, resting, older>>
        /\ \E s : SetSocket(t, s)
    BY <1>2 DEF Open, bookVars, history, At
  <2> QED
    BY <1>0, <2>1, GoesTo, ClosingUnanswered DEF GoesOn, StopPlaces
<1>3. CASE Send(t)
  <2>1. /\ At(t, "send") /\ Goto(t, "recv") /\ UNCHANGED <<maps, told, resting, older>>
        /\ socket \in Sockets /\ wire' = [wire EXCEPT ![socket] = call[t].request]
        /\ call[t].op # "stop"
    BY <1>0, <1>3 DEF Send, bookVars, history, At, StopPlaces
  <2>2. Unanswered
    BY <1>0, <2>1 DEF MessagesOK, Unanswered, At, Idle
  <2> QED
    BY <1>0, <2>1, <2>2, GoesTo DEF At, GoesOn
<1>4. CASE NoSocket(t) \/ ReturnNone(t)
  <2>1. /\ call[t].at \notin {"idle", "cleanup"}
        /\ GiveAnswer(t, Null) /\ UNCHANGED <<maps, told, resting, older, wire>>
    BY <1>4 DEF NoSocket, ReturnNone, bookVars, At
  <2> QED
    BY <1>0, <2>1, AnswerGiven DEF GoesOn, StopPlaces
<1>5. CASE Recv(t)
  <2>1. /\ At(t, "recv") /\ socket \in Sockets /\ UNCHANGED <<maps, told, resting, older, wire>>
        /\ call' = [call EXCEPT ![t].at = "wait", ![t].on = socket]
    BY <1>0, <1>5 DEF Recv, bookVars, history
  <2> QED
    BY <1>0, <2>1, WaitCall DEF At, GoesOn, Others, StopPlaces
<1>6. CASE Receive(t)
  <2>1. /\ At(t, "wait") /\ call[t].on \in Sockets /\ Answered(call[t].on)
        /\ wire' = [wire EXCEPT ![call[t].on] = Null] /\ GiveAnswer(t, wire[call[t].on])
        /\ UNCHANGED <<maps, told, resting, older>>
    BY <1>0, <1>6 DEF Receive, At, bookVars
  <2>2. Unanswered /\ wire'[call[t].on] = Null
    BY <2>1 DEF MessagesOK, Unanswered
  <2> QED
    BY <2>1, <2>2, AnswerGiven DEF At, GoesOn, StopPlaces
<1>7. CASE ReceiveBroken(t)
  <2>1. UNCHANGED <<maps, told, resting, older, wire>>
    BY <1>7 DEF ReceiveBroken, bookVars, history
  <2> QED
    BY <1>0, <1>7, <2>1, WaitBreaks DEF GoesOn, StopPlaces
<1>8. CASE Timeout(t)
  <2>1. /\ At(t, "wait") /\ UNCHANGED <<maps, told, resting, older, wire>>
        /\ call' = [call EXCEPT ![t].at = "answer", ![t].on = Null, ![t].answer = Null]
    BY <1>8 DEF Timeout, bookVars
  <2>2. "answer" \in StopPlaces
    BY DEF StopPlaces
  <2> QED
    BY <1>0, <2>1, <2>2, AnswerCall, Zenon DEF At, GoesOn, Others
<1>9. CASE CloseSocket(t)
  <2>1. /\ call[t].at \in {"close", "shut"} /\ Goto(t, "forget")
        /\ UNCHANGED <<maps, told, resting, older>>
    BY <1>9 DEF CloseSocket, bookVars, history, At
  <2> QED
    BY <1>0, <1>9, <2>1, GoesTo, ClosingUnanswered DEF GoesOn, StopPlaces
<1>10. CASE Forget(t)
  <2>1. /\ call[t].at = "forget" /\ Goto(t, "failed") /\ UNCHANGED <<maps, told, resting, older>>
        /\ \E s : SetSocket(t, s)
    BY <1>10 DEF Forget, bookVars, history, At
  <2> QED
    BY <1>0, <2>1, GoesTo, ClosingUnanswered DEF GoesOn, StopPlaces
<1> QED
  BY <1>1, <1>2, <1>3, <1>4, <1>5, <1>6, <1>7, <1>8, <1>9, <1>10, Zenon DEF Requests

\* Nothing happens to the messages, or one is lost.
LEMMA LossKeepsMessages ==
  ASSUME MessagesOK, Unanswered, UNCHANGED <<resting, older>>,
         \A t \in Threads : \/ call'[t].answer \in {call[t].answer, Null}
                            \/ \E s \in Sockets : Answered(s) /\ call'[t].answer = wire[s]
  PROVE  MessagesOK'
<1>1. \A s \in Sockets : wire'[s] # Null /\ wire'[s].kind = "answer" => wire'[s] = wire[s]
  BY DEF Unanswered, RequestOK
<1>2. \A s \in Sockets : Answered(s)' => Answered(s) /\ wire'[s] = wire[s]
  BY <1>1 DEF Answered
<1>3. \A s \in Sockets : Answered(s)' => FillsOK(wire'[s])
  BY <1>2 DEF MessagesOK
<1>4. \A t \in Threads : call'[t].answer # Null => FillsOK(call'[t].answer)
  BY DEF MessagesOK
<1>5. wire' = [s \in Sockets |-> wire'[s]] /\ BookOK'
  BY BookStays DEF MessagesOK, Unanswered
<1>6. \A s \in Sockets : Requested(s)' => RequestOK(wire'[s])
  BY DEF MessagesOK, Unanswered, Requested
<1> QED
  BY <1>3, <1>4, <1>5, <1>6 DEF MessagesOK, Answered, FillsOK, RequestOK

\* Nothing happens to them.
LEMMA MessagesStay ==
  ASSUME MessagesOK, UNCHANGED <<wire, call, resting, older>> PROVE MessagesOK'
BY LossKeepsMessages DEF MessagesOK, Unanswered

\* They touch neither the maps nor the reports.
LEMMA GoesOnKeeps ==
  ASSUME ReportInv, Calls', NEW t \in Threads, GoesOn(t), Unanswered PROVE ReportInv'
<1>1. MessagesOK'
  BY LossKeepsMessages DEF ReportInv, GoesOn, Others
<1>2. /\ details' = details /\ told' = told /\ broker_order_id_counter' = broker_order_id_counter
      /\ \A u \in Threads : /\ call'[u].op = call[u].op /\ call'[u].id = call[u].id
                            /\ call'[u].request = call[u].request
                            /\ (call'[u].at = "idle" <=> call[u].at = "idle")
                            /\ (call'[u].at = "cleanup" <=> call[u].at = "cleanup")
                            /\ call'[u].op = "stop" => call'[u].at \in StopPlaces
  BY DEF GoesOn, Others, maps, ReportInv, CallersOK
<1>3. MapsOK'
  BY <1>2, BrokerAssumption DEF ReportInv, MapsOK, At
<1>4. CallersOK'
  BY <1>2, BrokerAssumption DEF ReportInv, CallersOK, At, Idle
<1> QED
  BY <1>1, <1>3, <1>4 DEF ReportInv

-----------------------------------------------------------------------------
(* What is done with an answer *)

\* The manager's thread handles an answer: what a report of the order in
\* question does to the others.
LEMMA ReportKeeps ==
  ASSUME MapsOK, CallersOK, Calls,
         ~Idle("pm"), call["pm"].op # "stop", ~At("pm", "cleanup"),
         NEW reports, NEW status, NEW quantity,
         Tracked(details', reports), Unfilled(details'), FinalLast(reports),
         DOMAIN details' \subseteq DOMAIN details,
         call["pm"].id \in DOMAIN details',
         \A id \in DOMAIN details' :
           details'[id].client = details[id].client /\ ~Finished(reports, details'[id].client),
         told' = Tell(reports, call["pm"].request.client, Confirmation(status, quantity)),
         broker_order_id_counter' = broker_order_id_counter,
         call'["pm"].at = "cleanup", call'["pm"].id = call["pm"].id
  PROVE  MapsOK'
<1> DEFINE id == call["pm"].id
           c == call["pm"].request.client
<1>1. c = details'[id].client
  BY DEF CallersOK
<1>2. c \in DOMAIN reports /\ ~Finished(reports, c)
  BY <1>1 DEF Tracked
<1>3. /\ Tracked(details', told') /\ FinalLast(told')
      /\ \A d \in DOMAIN reports \ {c} : Finished(told', d) <=> Finished(reports, d)
  BY <1>2, TellKeeps
<1>4. ASSUME NEW i \in DOMAIN details', Finished(told', details'[i].client) PROVE i = id
  <2>1. details'[i].client = c
    BY <1>3, <1>4 DEF Tracked
  <2> QED
    BY <1>1, <2>1 DEF Tracked
<1> HIDE DEF c
<1>5. broker_order_id_counter' \in Nat /\ DOMAIN details' \subseteq 1 .. broker_order_id_counter'
  BY DEF MapsOK
<1> QED
  BY <1>3, <1>4, <1>5 DEF MapsOK, At, Finished, Tracked, Unfilled, FinalLast

\* Without a report, only that every order left is open matters.
LEMMA QuietKeeps ==
  ASSUME MapsOK,
         Tracked(details', told'), Unfilled(details'), FinalLast(told'),
         DOMAIN details' \subseteq DOMAIN details,
         broker_order_id_counter' = broker_order_id_counter,
         \A id \in DOMAIN details' : ~Finished(told', details'[id].client)
  PROVE  MapsOK'
<1>1. broker_order_id_counter' \in Nat /\ DOMAIN details' \subseteq 1 .. broker_order_id_counter'
  BY DEF MapsOK
<1> QED
  BY <1>1 DEF MapsOK, At, Finished, Tracked, Unfilled, FinalLast

\* The call goes to its end, and returns or takes its order out of the maps.
LEMMA AnswerKeepsCallers ==
  ASSUME CallersOK, Calls, NEW t \in Threads, ~Idle(t), call[t].op # "stop", t = "pm", Others(t),
         \/ call'[t] = NoCall
         \/ /\ call'[t].op = call[t].op /\ call'[t].id = call[t].id
            /\ call'[t].request = call[t].request
            /\ call[t].id \in DOMAIN details'
            /\ details'[call[t].id].client = details[call[t].id].client
  PROVE  CallersOK'
<1>1. NoCall.at = "idle" /\ NoCall.op # "stop"
  BY NullAssumption DEF NoCall
<1> QED
  BY <1>1 DEF CallersOK, At, Idle, Others

\* What is known of a call of the manager's thread that has its answer.
LEMMA AtAnswer ==
  ASSUME ReportInv, NEW t \in Threads, At(t, "answer"), call[t].op \in {"submit", "cancel"}
  PROVE  /\ t = "pm" /\ ~Idle("pm") /\ ~At("pm", "cleanup") /\ call["pm"].op # "stop"
         /\ call[t].id \in DOMAIN details
         /\ details[call[t].id].client = call[t].request.client
         /\ \A id \in DOMAIN details : ~Finished(told, details[id].client)
BY DEF ReportInv, CallersOK, MapsOK, At, Idle

\* A submission that failed is reported as rejected.
LEMMA SubmitFailedKeeps ==
  ASSUME ReportInv, NEW t \in Threads, SubmitFailed(t) PROVE MapsOK' /\ CallersOK'
<1>1. /\ At(t, "answer") /\ call[t].op = "submit" /\ Goto(t, "cleanup")
      /\ told' = Tell(told, call[t].request.client, Confirmation("REJECTED", 0))
      /\ details' = details /\ broker_order_id_counter' = broker_order_id_counter
  BY DEF SubmitFailed, maps
<1>2. /\ Others(t) /\ call'[t].at = "cleanup" /\ call'[t].op = call[t].op /\ call'[t].id = call[t].id
      /\ call'[t].request = call[t].request
  BY <1>1, GoesTo DEF ReportInv, At, Places
<1>3. MapsOK'
  BY <1>1, <1>2, AtAnswer, ReportKeeps DEF ReportInv, MapsOK
<1>4. CallersOK'
  BY <1>1, <1>2, AtAnswer, AnswerKeepsCallers DEF ReportInv
<1> QED
  BY <1>3, <1>4

\* A cancel that the book confirmed is reported.
LEMMA CancelAnsweredKeeps ==
  ASSUME ReportInv, NEW t \in Threads, CancelAnswered(t) PROVE MapsOK' /\ CallersOK'
<1>1. /\ At(t, "answer") /\ call[t].op = "cancel" /\ Goto(t, "cleanup")
      /\ told' = Tell(told, call[t].request.client, Confirmation("CANCELLED", 0))
      /\ details' = [details EXCEPT ![call[t].id].status = "CANCELLED"]
      /\ broker_order_id_counter' = broker_order_id_counter
  BY DEF CancelAnswered
<1>2. /\ Others(t) /\ call'[t].at = "cleanup" /\ call'[t].op = call[t].op /\ call'[t].id = call[t].id
      /\ call'[t].request = call[t].request
  BY <1>1, GoesTo DEF ReportInv, At, Places
<1>3. /\ Tracked(details', told) /\ Unfilled(details') /\ DOMAIN details' = DOMAIN details
      /\ \A i \in DOMAIN details : details'[i].client = details[i].client
  <2> DEFINE marked == [details EXCEPT ![call[t].id].status = "CANCELLED"]
  <2>1. call[t].id \in DOMAIN details /\ Tracked(details, told) /\ Unfilled(details)
    BY <1>1, AtAnswer DEF ReportInv, MapsOK
  <2>2. /\ Tracked(marked, told) /\ Unfilled(marked) /\ DOMAIN marked = DOMAIN details
        /\ \A i \in DOMAIN details : marked[i].client = details[i].client
    BY <2>1, StatusChanges
  <2>3. details' = marked
    BY <1>1
  <2> HIDE DEF marked
  <2> QED
    BY <2>2, <2>3
<1>4. MapsOK'
  <2>1. /\ t = "pm" /\ ~Idle("pm") /\ ~At("pm", "cleanup") /\ call["pm"].id \in DOMAIN details
        /\ call["pm"].op # "stop" /\ \A i \in DOMAIN details : ~Finished(told, details[i].client)
    BY <1>1, AtAnswer
  <2>2. /\ MapsOK /\ CallersOK /\ Calls /\ FinalLast(told)
    BY DEF ReportInv, MapsOK
  <2>3. /\ DOMAIN details' \subseteq DOMAIN details /\ call["pm"].id \in DOMAIN details'
        /\ \A i \in DOMAIN details' :
             details'[i].client = details[i].client /\ ~Finished(told, details'[i].client)
    BY <1>3, <2>1
  <2>4. call'["pm"].at = "cleanup" /\ call'["pm"].id = call["pm"].id
    BY <1>2, <2>1
  <2>5. told' = Tell(told, call["pm"].request.client, Confirmation("CANCELLED", 0))
    BY <1>1, <2>1
  <2>6. broker_order_id_counter' = broker_order_id_counter
    BY <1>1
  <2> QED
    BY <1>3, <2>1, <2>2, <2>3, <2>4, <2>5, <2>6, ReportKeeps
<1>5. CallersOK'
  BY <1>1, <1>2, <1>3, AtAnswer, AnswerKeepsCallers DEF ReportInv
<1> QED
  BY <1>4, <1>5

\* A cancel that it did not leaves the order open.
LEMMA CancelFailedKeeps ==
  ASSUME ReportInv, NEW t \in Threads, CancelFailed(t) PROVE MapsOK' /\ CallersOK'
<1>1. /\ At(t, "answer") /\ call[t].op = "cancel" /\ Return(t) /\ told' = told
      /\ details' = [details EXCEPT ![call[t].id].status = "WORKING"]
      /\ broker_order_id_counter' = broker_order_id_counter
  BY DEF CancelFailed, history
<1>2. Others(t) /\ call'[t] = NoCall
  BY <1>1, Returns DEF ReportInv, At
<1>3. /\ Tracked(details', told) /\ Unfilled(details') /\ DOMAIN details' = DOMAIN details
      /\ \A i \in DOMAIN details : details'[i].client = details[i].client
  <2> DEFINE marked == [details EXCEPT ![call[t].id].status = "WORKING"]
  <2>1. call[t].id \in DOMAIN details /\ Tracked(details, told) /\ Unfilled(details)
    BY <1>1, AtAnswer DEF ReportInv, MapsOK
  <2>2. /\ Tracked(marked, told) /\ Unfilled(marked) /\ DOMAIN marked = DOMAIN details
        /\ \A i \in DOMAIN details : marked[i].client = details[i].client
    BY <2>1, StatusChanges
  <2>3. details' = marked
    BY <1>1
  <2> HIDE DEF marked
  <2> QED
    BY <2>2, <2>3
<1>4. MapsOK'
  BY <1>1, <1>3, AtAnswer, QuietKeeps DEF ReportInv, MapsOK
<1>5. CallersOK'
  BY <1>1, <1>2, AtAnswer, AnswerKeepsCallers DEF ReportInv
<1> QED
  BY <1>4, <1>5

\* A submission: its fills, then what the book says of the order in the end.
LEMMA SubmitAnsweredKeeps ==
  ASSUME ReportInv, NEW t \in Threads, SubmitAnswered(t) PROVE MapsOK' /\ CallersOK'
<1> DEFINE id == call[t].id
           final == call[t].answer.final
           base == [details |-> [details EXCEPT ![id].status = "ACKNOWLEDGED"], told |-> told]
           after == FoldLeft(ApplyFill, base, call[t].answer.fills)
           known == id \in DOMAIN after.details
           forced == known /\ final = "FILLED" /\ after.details[id].status # "FILLED"
           killed == known /\ final = "REJECTED_BY_BOOK"
           mark(status) == [after.details EXCEPT ![id].status = status]
<1>1. /\ At(t, "answer") /\ call[t].op = "submit" /\ Ok(t)
      /\ broker_order_id_counter' = broker_order_id_counter
      /\ \/ /\ forced \/ killed
            /\ details' = mark(IF killed THEN "CANCELLED" ELSE "FILLED")
            /\ told' = IF killed
                         THEN Tell(after.told, call[t].request.client, Confirmation("CANCELLED", 0))
                         ELSE after.told
            /\ Goto(t, "cleanup")
         \/ /\ details' = IF known /\ after.details[id].status = "ACKNOWLEDGED"
                            THEN mark("WORKING") ELSE after.details
            /\ told' = after.told
            /\ Return(t)
  BY Zenon DEF SubmitAnswered
<1>2. /\ t = "pm" /\ ~Idle("pm") /\ ~At("pm", "cleanup") /\ id \in DOMAIN details
      /\ call["pm"].op # "stop"
      /\ details[id].client = call[t].request.client
      /\ \A i \in DOMAIN details : ~Finished(told, details[i].client)
      /\ MapsOK /\ CallersOK /\ Calls
      /\ Tracked(details, told) /\ Unfilled(details) /\ FinalLast(told)
  BY <1>1, AtAnswer, Zenon DEF ReportInv, MapsOK
<1>3. Applied(base)
  <2>1. /\ Tracked([details EXCEPT ![id].status = "ACKNOWLEDGED"], told)
        /\ Unfilled([details EXCEPT ![id].status = "ACKNOWLEDGED"])
        /\ DOMAIN [details EXCEPT ![id].status = "ACKNOWLEDGED"] = DOMAIN details
        /\ \A i \in DOMAIN details :
             [details EXCEPT ![id].status = "ACKNOWLEDGED"][i].client = details[i].client
    BY <1>2, StatusChanges
  <2> QED
    BY <1>2, <2>1 DEF Applied
<1>4. FillsOK(call[t].answer)
  BY <1>1, Zenon DEF ReportInv, MessagesOK, Ok
<1> HIDE DEF base
<1>5. Applied(after)
  BY <1>3, <1>4, FillsApplied
<1> HIDE DEF after, id, final
<1>6. /\ Tracked(after.details, after.told) /\ Unfilled(after.details) /\ FinalLast(after.told)
      /\ DOMAIN after.details \subseteq DOMAIN details
      /\ \A i \in DOMAIN after.details : /\ after.details[i].client = details[i].client
                                         /\ ~Finished(after.told, after.details[i].client)
  BY <1>5 DEF Applied
<1>7. ASSUME known, NEW status, details' = mark(status)
      PROVE  /\ Tracked(details', after.told) /\ Unfilled(details')
             /\ DOMAIN details' = DOMAIN after.details
             /\ \A i \in DOMAIN details' : details'[i].client = after.details[i].client
  <2>1. /\ Tracked(mark(status), after.told) /\ Unfilled(mark(status))
        /\ DOMAIN mark(status) = DOMAIN after.details
        /\ \A i \in DOMAIN after.details : mark(status)[i].client = after.details[i].client
    <3>1. \A o, i : Tracked(o, after.told) /\ i \in DOMAIN o =>
                      /\ Tracked([o EXCEPT ![i].status = status], after.told)
                      /\ DOMAIN [o EXCEPT ![i].status = status] = DOMAIN o
                      /\ \A k \in DOMAIN o : [o EXCEPT ![i].status = status][k].client = o[k].client
                      /\ Unfilled(o) => Unfilled([o EXCEPT ![i].status = status])
      BY StatusChanges
    <3> QED
      BY <1>6, <1>7, <3>1
  <2> HIDE DEF mark
  <2> QED
    BY <1>7, <2>1
<1>8. CASE /\ forced \/ killed
           /\ details' = mark(IF killed THEN "CANCELLED" ELSE "FILLED")
           /\ told' = IF killed
                        THEN Tell(after.told, call[t].request.client, Confirmation("CANCELLED", 0))
                        ELSE after.told
           /\ Goto(t, "cleanup")
  <2>1. /\ Others(t) /\ call'[t].at = "cleanup" /\ call'[t].op = call[t].op
        /\ call'[t].id = call[t].id /\ call'[t].request = call[t].request
    BY <1>1, <1>8, GoesTo DEF ReportInv, At, Places
  <2>2. known
    BY <1>8
  <2>3. /\ Tracked(details', after.told) /\ Unfilled(details')
        /\ DOMAIN details' = DOMAIN after.details
        /\ \A i \in DOMAIN details' : details'[i].client = after.details[i].client
    BY <1>7, <1>8, <2>2
  <2>4. /\ DOMAIN details' \subseteq DOMAIN details /\ id \in DOMAIN details'
        /\ \A i \in DOMAIN details' : /\ details'[i].client = details[i].client
                                      /\ ~Finished(after.told, details'[i].client)
    BY <1>6, <2>2, <2>3
  <2>5. CallersOK'
    BY <1>1, <1>2, <2>1, <2>4, AnswerKeepsCallers DEF id
  <2>6. ASSUME killed PROVE MapsOK'
    <3>1. told' = Tell(after.told, call["pm"].request.client, Confirmation("CANCELLED", 0))
      BY <1>2, <1>8, <2>6
    <3>2. /\ call["pm"].id = id
          /\ call'["pm"].at = "cleanup" /\ call'["pm"].id = call["pm"].id
          /\ broker_order_id_counter' = broker_order_id_counter
      BY <1>1, <1>2, <2>1 DEF id
    <3>3. Tracked(details', after.told) /\ FinalLast(after.told)
      BY <1>6, <2>3
    <3> QED
      BY <1>2, <2>3, <2>4, <3>1, <3>2, <3>3, ReportKeeps
  <2>7. ASSUME ~killed PROVE MapsOK'
    <3>1. told' = after.told /\ FinalLast(told') /\ Tracked(details', told')
      BY <1>6, <1>8, <2>3, <2>7
    <3> QED
      BY <1>1, <1>2, <2>3, <2>4, <3>1, QuietKeeps
  <2> QED
    BY <2>5, <2>6, <2>7
<1>9. CASE /\ details' = IF known /\ after.details[id].status = "ACKNOWLEDGED"
                           THEN mark("WORKING") ELSE after.details
           /\ told' = after.told
           /\ Return(t)
  <2>1. Others(t) /\ call'[t] = NoCall
    BY <1>1, <1>9, Returns DEF ReportInv, At
  <2>2. CallersOK'
    BY <1>2, <2>1, AnswerKeepsCallers
  <2>3. /\ Tracked(details', after.told) /\ Unfilled(details')
        /\ DOMAIN details' = DOMAIN after.details
        /\ \A i \in DOMAIN details' : details'[i].client = after.details[i].client
    BY <1>6, <1>7, <1>9
  <2>4. MapsOK'
    BY <1>1, <1>2, <1>6, <1>9, <2>3, QuietKeeps
  <2> QED
    BY <2>2, <2>4
<1> QED
  BY <1>1, <1>8, <1>9

\* The order that is over leaves the maps.
LEMMA CleanupKeeps ==
  ASSUME ReportInv, NEW t \in Threads, Cleanup(t) PROVE MapsOK' /\ CallersOK'
<1>1. /\ At(t, "cleanup") /\ Return(t) /\ told' = told
      /\ details' = CleanedUp(details, call[t].id)
      /\ broker_order_id_counter' = broker_order_id_counter
  BY DEF Cleanup, history
<1>2. t = "pm" /\ ~Idle(t) /\ call[t].op # "stop"
  BY <1>1 DEF ReportInv, CallersOK, At, Idle, StopPlaces
<1>3. Others(t) /\ call'[t] = NoCall
  BY <1>1, Returns DEF ReportInv, At
<1>4. /\ Tracked(details', told) /\ DOMAIN details' = DOMAIN details \ {call[t].id}
      /\ \A i \in DOMAIN details \ {call[t].id} : details'[i] = details[i]
  <2>1. Tracked(details, told)
    BY DEF ReportInv, MapsOK
  <2>2. /\ Tracked(CleanedUp(details, call[t].id), told)
        /\ DOMAIN CleanedUp(details, call[t].id) = DOMAIN details \ {call[t].id}
        /\ \A i \in DOMAIN details \ {call[t].id} : CleanedUp(details, call[t].id)[i] = details[i]
    BY <2>1, CleanUpKeeps
  <2> QED
    BY <1>1, <2>2
<1>5. \A i \in DOMAIN details' : ~Finished(told, details'[i].client)
  BY <1>2, <1>4 DEF ReportInv, MapsOK
<1>8. Unfilled(details')
  BY <1>4 DEF ReportInv, MapsOK, Unfilled
<1>6. MapsOK'
  BY <1>1, <1>4, <1>5, <1>8, QuietKeeps DEF ReportInv, MapsOK
<1>7. CallersOK'
  BY <1>2, <1>3, AnswerKeepsCallers DEF ReportInv
<1> QED
  BY <1>6, <1>7

\* The API's answer is thrown away.
LEMMA InfoReturnedKeeps ==
  ASSUME ReportInv, NEW t \in Threads, InfoReturned(t) PROVE MapsOK' /\ CallersOK'
<1>1. /\ At(t, "answer") /\ call[t].op = "info" /\ Return(t) /\ told' = told
      /\ details' = details /\ broker_order_id_counter' = broker_order_id_counter
  BY DEF InfoReturned, history, maps
<1>2. t # "pm"
  BY <1>1 DEF ReportInv, CallersOK, At, Idle
<1>3. Others(t) /\ call'[t] = NoCall /\ NoCall.at = "idle" /\ NoCall.op # "stop"
  BY <1>1, Returns, NullAssumption DEF ReportInv, At, NoCall
<1>4. call'["pm"] = call["pm"]
  BY <1>2, <1>3, BrokerAssumption DEF Others
<1>5. MapsOK'
  BY <1>1, <1>4 DEF ReportInv, MapsOK, At
<1>6. CallersOK'
  BY <1>1, <1>2, <1>3, <1>4 DEF ReportInv, CallersOK, At, Idle, Others
<1> QED
  BY <1>5, <1>6

\* Nor is there anything in that of stop.
LEMMA StoppedKeeps ==
  ASSUME ReportInv, NEW t \in Threads, Stopped(t) PROVE MapsOK' /\ CallersOK'
<1>1. /\ At(t, "answer") /\ call[t].op = "stop" /\ Return(t) /\ told' = told
      /\ details' = details /\ broker_order_id_counter' = broker_order_id_counter
  BY DEF Stopped, history, maps
<1>2. Others(t) /\ call'[t] = NoCall /\ NoCall.at = "idle" /\ NoCall.op # "stop"
  BY <1>1, Returns, NullAssumption DEF ReportInv, At, NoCall
<1>3. MapsOK'
  <2>1. At("pm", "cleanup") => t # "pm"
    BY <1>1 DEF At
  <2>2. "pm" # t => call'["pm"] = call["pm"]
    BY <1>2, BrokerAssumption DEF Others
  <2> QED
    BY <1>1, <2>1, <2>2 DEF ReportInv, MapsOK, At
<1>4. CallersOK'
  <2>1. \A u \in Threads : call'[u] = call[u] \/ (call'[u].at = "idle" /\ call'[u].op # "stop")
    BY <1>2 DEF Others
  <2> QED
    BY <1>1, <2>1, BrokerAssumption DEF ReportInv, CallersOK, At, Idle
<1> QED
  BY <1>3, <1>4

\* What is done with an answer keeps the invariant.
LEMMA AnswerKeeps ==
  ASSUME ReportInv, NEW t \in Threads, Answers(t) \/ Stopped(t) PROVE ReportInv'
<1>1. MapsOK' /\ CallersOK'
  BY SubmitFailedKeeps, SubmitAnsweredKeeps, CancelFailedKeeps, CancelAnsweredKeeps,
     InfoReturnedKeeps, CleanupKeeps, StoppedKeeps DEF Answers
<1>2. Calls' /\ UNCHANGED <<wire, resting, older>> /\ (Goto(t, "cleanup") \/ Return(t))
      /\ call[t].at # "wait"
  BY AnswerShapes, Zenon DEF ReportInv, Answers, SubmitFailed, SubmitAnswered, CancelFailed,
                      CancelAnswered, InfoReturned, Cleanup, Stopped, bookVars, At
<1>3. Others(t) /\ call'[t].answer \in {call[t].answer, Null}
  BY <1>2, GoesTo, Returns DEF ReportInv, Places, NoCall
<1>4. Unanswered
  BY <1>2 DEF ReportInv, MessagesOK, Unanswered
<1>5. MessagesOK'
  BY <1>2, <1>3, <1>4, LossKeepsMessages DEF ReportInv, Others
<1> QED
  BY <1>1, <1>2, <1>5 DEF ReportInv

-----------------------------------------------------------------------------
(* The other steps *)

\* A call that begins puts nothing on the wire and has no answer.
LEMMA BeginKeepsMessages ==
  ASSUME MessagesOK, Calls, NEW t \in Threads, NEW op, NEW id, NEW request,
         Begin(t, op, id, request), UNCHANGED <<wire, resting, older>>
  PROVE  MessagesOK'
<1>1. Others(t) /\ call'[t].answer = Null
  BY BeginCall DEF Others
<1>2. Unanswered
  BY DEF MessagesOK, Unanswered
<1> QED
  BY <1>1, <1>2, LossKeepsMessages DEF Others

\* A new order has a new id and a client that was told nothing.
LEMMA SubmitKeeps ==
  ASSUME ReportInv,
         NEW c, NEW type, NEW side \in Book!Sides, NEW price \in Prices, NEW quantity \in Quantities,
         Submit(c, type, side, price, quantity)
  PROVE  ReportInv'
<1> DEFINE order == [id |-> NextId, type |-> type, side |-> side, price |-> price,
                     initial |-> quantity, remaining |-> quantity]
           request == [kind |-> "request", command |-> "ADD_ORDER", id |-> NextId, order |-> order,
                       client |-> c]
           new == [client |-> c, quantity |-> quantity, filled_quantity |-> 0,
                   status |-> "PENDING_ACK"]
<1>1. /\ MayCall("pm") /\ c \notin DOMAIN told /\ broker_order_id_counter' = NextId
      /\ details' = Put(details, NextId, new) /\ told' = Put(told, c, << >>)
      /\ Begin("pm", "submit", NextId, request) /\ UNCHANGED <<wire, resting, older>>
  BY DEF Submit, bookVars
<1>2. "pm" \in Threads /\ Calls /\ MapsOK /\ CallersOK /\ MessagesOK
  BY BrokerAssumption DEF ReportInv
<1>3. /\ RequestOK(request) /\ request.client = c /\ new.client = c
      /\ new.quantity = quantity /\ new.filled_quantity = 0 /\ quantity \in Nat /\ 0 < quantity
  <2>1. order \in AnyOrder({NextId, type})
    BY BrokerAssumption DEF AnyOrder
  <2> QED
    BY <2>1, BrokerAssumption DEF RequestOK
<1>4. /\ Calls' /\ Others("pm") /\ call'["pm"].at = "check" /\ call'["pm"].op = "submit"
      /\ call'["pm"].id = NextId /\ call'["pm"].request = request
  BY <1>1, <1>2, BeginCall DEF Others
<1>5. MessagesOK'
  BY <1>1, <1>2, BeginKeepsMessages
<1>6. /\ NextId \in Nat /\ NextId \notin DOMAIN details /\ NextId \in 1 .. NextId
      /\ DOMAIN details \subseteq 1 .. NextId
  BY <1>2 DEF MapsOK, NextId
<1>7. /\ DOMAIN details' = DOMAIN details \cup {NextId}
      /\ details'[NextId] = new
      /\ \A id \in DOMAIN details : details'[id] = details[id]
      /\ details' = [id \in DOMAIN details' |-> details'[id]]
  BY <1>1, <1>6 DEF Put
<1>8. /\ DOMAIN told' = DOMAIN told \cup {c} /\ told'[c] = << >>
      /\ \A d \in DOMAIN told : told'[d] = told[d]
      /\ told' = [d \in DOMAIN told' |-> told'[d]]
  BY <1>1 DEF Put
<1>9. Tracked(details', told')
  <2>1. PICK Seen : details \in [DOMAIN details -> OrderOf(Seen)]
    BY <1>2 DEF MapsOK, Tracked
  <2>2. details' \in [DOMAIN details' -> OrderOf(Seen \cup {c, "PENDING_ACK"})]
    <3>1. new \in OrderOf(Seen \cup {c, "PENDING_ACK"})
      BY <1>3 DEF OrderOf
    <3>2. OrderOf(Seen) \subseteq OrderOf(Seen \cup {c, "PENDING_ACK"})
      BY DEF OrderOf
    <3> HIDE DEF new
    <3> QED
      BY <1>7, <2>1, <3>1, <3>2
  <2>3. PICK Said : told \in [DOMAIN told -> Seq(ReportOf(Said))]
    BY <1>2 DEF MapsOK, Tracked
  <2>4. told' \in [DOMAIN told' -> Seq(ReportOf(Said))]
    <3>1. << >> \in Seq(ReportOf(Said))
      OBVIOUS
    <3> QED
      BY <1>8, <2>3, <3>1
  <2>5. \A id \in DOMAIN details' : details'[id].client \in DOMAIN told'
    BY <1>2, <1>3, <1>7, <1>8 DEF MapsOK, Tracked
  <2>6. \A i, j \in DOMAIN details' : details'[i].client = details'[j].client => i = j
    BY <1>1, <1>2, <1>3, <1>7 DEF MapsOK, Tracked
  <2> QED
    BY <2>2, <2>4, <2>5, <2>6 DEF Tracked
<1>10. FinalLast(told')
  BY <1>2, <1>8 DEF MapsOK, FinalLast
<1>11. ASSUME NEW id \in DOMAIN details' PROVE ~Finished(told', details'[id].client)
  <2>1. CASE id = NextId
    BY <1>3, <1>7, <1>8, <2>1 DEF Finished
  <2>2. CASE id \in DOMAIN details
    <3>1. details[id].client \in DOMAIN told /\ ~Finished(told, details[id].client)
      BY <1>1, <1>2, <2>2 DEF MapsOK, Tracked, MayCall, Idle, At
    <3> QED
      BY <1>7, <1>8, <2>2, <3>1 DEF Finished
  <2> QED
    BY <1>7, <2>1, <2>2
<1>12. MapsOK'
  <2>1. broker_order_id_counter' \in Nat /\ DOMAIN details' \subseteq 1 .. broker_order_id_counter'
    BY <1>1, <1>6, <1>7
  <2>2. Unfilled(details')
    BY <1>2, <1>3, <1>7 DEF MapsOK, Unfilled
  <2> QED
    BY <1>9, <1>10, <1>11, <2>1, <2>2 DEF MapsOK, At, Finished, Tracked, Unfilled, FinalLast
<1>13. CallersOK'
  BY <1>2, <1>3, <1>4, <1>7 DEF CallersOK, At, Idle, Others
<1> QED
  BY <1>4, <1>5, <1>12, <1>13 DEF ReportInv

\* An order without a price is rejected and never in the maps.
LEMMA SubmitUnpricedKeeps ==
  ASSUME ReportInv, NEW c, SubmitUnpriced(c) PROVE ReportInv'
<1> DEFINE conf == Confirmation("REJECTED", 0)
<1>1. /\ c \notin DOMAIN told /\ told' = Put(told, c, <<conf>>)
      /\ UNCHANGED <<details, broker_order_id_counter, call, wire, resting, older>>
  BY DEF SubmitUnpriced, maps, bookVars
<1>2. Calls /\ MapsOK /\ CallersOK /\ MessagesOK
  BY DEF ReportInv
<1>3. /\ DOMAIN told' = DOMAIN told \cup {c} /\ told'[c] = <<conf>>
      /\ \A d \in DOMAIN told : told'[d] = told[d]
      /\ told' = [d \in DOMAIN told' |-> told'[d]]
  BY <1>1 DEF Put
<1>4. Tracked(details, told')
  <2>1. PICK Said : told \in [DOMAIN told -> Seq(ReportOf(Said))]
    BY <1>2 DEF MapsOK, Tracked
  <2> DEFINE More == Said \cup {"REJECTED", 0}
  <2>2. ReportOf(Said) \subseteq ReportOf(More) /\ conf \in ReportOf(More)
    BY DEF ReportOf, Confirmation
  <2> HIDE DEF More, conf
  <2>3. \A d \in DOMAIN told : told[d] \in Seq(ReportOf(More))
    BY <2>1, <2>2, SeqDef
  <2>4. <<conf>> \in Seq(ReportOf(More))
    BY <2>2
  <2>5. told' \in [DOMAIN told' -> Seq(ReportOf(More))]
    BY <1>3, <2>3, <2>4
  <2> QED
    BY <1>2, <1>3, <2>5 DEF MapsOK, Tracked
<1>5. FinalLast(told')
  <2>1. DOMAIN <<conf>> = {1} /\ Len(<<conf>>) = 1
    OBVIOUS
  <2> HIDE DEF conf
  <2> QED
    BY <1>2, <1>3, <2>1 DEF MapsOK, FinalLast
<1>6. \A id \in DOMAIN details :
        /\ details[id].client \in DOMAIN told
        /\ Finished(told', details[id].client) <=> Finished(told, details[id].client)
  BY <1>2, <1>3 DEF MapsOK, Tracked, Finished
<1>7. MapsOK'
  BY <1>1, <1>2, <1>4, <1>5, <1>6 DEF MapsOK, At, Finished, Tracked, Unfilled, FinalLast
<1>8. CallersOK' /\ Calls'
  BY <1>1, <1>2 DEF CallersOK, At, Idle, Calls, RequestOK
<1>9. MessagesOK'
  BY <1>1, <1>2, MessagesStay
<1> QED
  BY <1>7, <1>8, <1>9 DEF ReportInv

\* A cancel request is about an order that is open.
LEMMA CancelKeeps ==
  ASSUME ReportInv, NEW id, Cancel(id) PROVE ReportInv'
<1> DEFINE request == [kind |-> "request", command |-> "CANCEL_ORDER", id |-> id, order |-> Null,
                       client |-> details[id].client]
           marked == [details EXCEPT ![id].status = "PENDING_CANCEL"]
<1>1. /\ MayCall("pm") /\ id \in DOMAIN details /\ details' = marked
      /\ Begin("pm", "cancel", id, request)
      /\ UNCHANGED <<wire, resting, older, told, broker_order_id_counter>>
  BY DEF Cancel, bookVars, history
<1>2. "pm" \in Threads /\ Calls /\ MapsOK /\ CallersOK /\ MessagesOK /\ Tracked(details, told)
  BY BrokerAssumption DEF ReportInv, MapsOK
<1>3. RequestOK(request) /\ request.client = details[id].client
  BY DEF RequestOK
<1>4. /\ Calls' /\ Others("pm") /\ call'["pm"].at = "check" /\ call'["pm"].op = "cancel"
      /\ call'["pm"].id = id /\ call'["pm"].request = request
  BY <1>1, <1>2, BeginCall DEF Others
<1>5. MessagesOK'
  BY <1>1, <1>2, BeginKeepsMessages
<1>6. /\ Tracked(marked, told) /\ Unfilled(marked) /\ DOMAIN marked = DOMAIN details
      /\ \A i \in DOMAIN details : marked[i].client = details[i].client
  <2>1. id \in DOMAIN details /\ Tracked(details, told) /\ Unfilled(details)
    BY <1>1, <1>2 DEF MapsOK
  <2> QED
    BY <2>1, StatusChanges
<1> HIDE DEF marked
<1>7. \A i \in DOMAIN details : ~Finished(told, details[i].client)
  BY <1>1, <1>2 DEF MapsOK, MayCall, Idle, At
<1>8. MapsOK'
  BY <1>1, <1>2, <1>6, <1>7, QuietKeeps DEF MapsOK
<1>9. CallersOK'
  BY <1>1, <1>2, <1>3, <1>4, <1>6 DEF CallersOK, At, Idle, Others
<1> QED
  BY <1>4, <1>5, <1>8, <1>9 DEF ReportInv

\* A request for market data is about no order.
LEMMA InfoKeeps ==
  ASSUME ReportInv, "api" \in Threads, GetMarketDataSnapshot PROVE ReportInv'
<1> DEFINE request == [kind |-> "request", command |-> "GET_BOOK_INFO", id |-> Null, order |-> Null,
                       client |-> Null]
<1>1. /\ Begin("api", "info", Null, request)
      /\ UNCHANGED <<wire, resting, older, told, details, broker_order_id_counter>>
  BY DEF GetMarketDataSnapshot, bookVars, maps, history
<1>2. Calls /\ MapsOK /\ CallersOK /\ MessagesOK /\ RequestOK(request)
  BY DEF ReportInv, RequestOK
<1>3. /\ Calls' /\ Others("api") /\ call'["api"].at = "check" /\ call'["api"].op = "info"
      /\ call'["api"].request = request
  BY <1>1, <1>2, BeginCall DEF Others
<1>4. MessagesOK'
  BY <1>1, <1>2, BeginKeepsMessages
<1>5. call'["pm"] = call["pm"]
  BY <1>3, BrokerAssumption DEF Others
<1>6. MapsOK'
  BY <1>1, <1>2, <1>5 DEF MapsOK, At
<1>7. CallersOK'
  BY <1>1, <1>2, <1>3, <1>5 DEF CallersOK, At, Idle, Others
<1> QED
  BY <1>3, <1>4, <1>6, <1>7 DEF ReportInv

\* A stop begins.
LEMMA StopKeeps ==
  ASSUME ReportInv, NEW t \in Threads, Stop(t) PROVE ReportInv'
<1>1. /\ Begin(t, "stop", Null, Null) /\ Idle(t)
      /\ UNCHANGED <<wire, resting, older, told, details, broker_order_id_counter>>
  BY DEF Stop, bookVars, maps, history
<1>2. Calls /\ MapsOK /\ CallersOK /\ MessagesOK
  BY DEF ReportInv
<1>3. Calls' /\ Others(t) /\ call'[t].at = "stop" /\ call'[t].op = "stop"
  BY <1>2, StopShape DEF Moves
<1>4. MessagesOK'
  BY <1>1, <1>2, BeginKeepsMessages
<1>5. MapsOK'
  <2>1. At("pm", "cleanup") => t # "pm"
    BY <1>1 DEF At, Idle
  <2>2. "pm" # t => call'["pm"] = call["pm"]
    BY <1>3, BrokerAssumption DEF Others
  <2> QED
    BY <1>1, <1>2, <2>1, <2>2 DEF MapsOK, At
<1>6. CallersOK'
  <2>1. \A u \in Threads : call'[u] = call[u] \/ (call'[u].at = "stop" /\ call'[u].op = "stop")
    BY <1>3 DEF Others
  <2>2. "stop" \in StopPlaces /\ "stop" \notin {"idle", "cleanup"}
    BY DEF StopPlaces
  <2> QED
    BY <1>1, <1>2, <2>1, <2>2, BrokerAssumption DEF CallersOK, At, Idle
<1> QED
  BY <1>3, <1>4, <1>5, <1>6 DEF ReportInv

\* A turn of the server's loop.
LEMMA ServeKeepsMessages ==
  ASSUME MessagesOK, NEW s \in Sockets, NEW open, Serve(s, open), call' = call
  PROVE  MessagesOK'
<1>1. /\ wire' = [wire EXCEPT ![s] = IF open THEN Answer(reply') ELSE Null]
      /\ RequestOK(wire[s])
  BY DEF Serve, MessagesOK
<1>2. BookOK' /\ Answer(reply').kind = "answer" /\ FillsOK(Answer(reply'))
  BY <1>1, ServeKeepsBook DEF MessagesOK
<1>3. /\ wire' = [w \in Sockets |-> wire'[w]]
      /\ wire'[s] = Null \/ wire'[s] = Answer(reply')
      /\ \A w \in Sockets \ {s} : wire'[w] = wire[w]
  BY <1>1 DEF MessagesOK
<1>4. ASSUME NEW w \in Sockets, wire'[w] # Null, wire'[w].kind = "answer" PROVE FillsOK(wire'[w])
  BY <1>2, <1>3, <1>4 DEF MessagesOK, Answered
<1>5. ASSUME NEW w \in Sockets, wire'[w] # Null, wire'[w].kind = "request" PROVE RequestOK(wire'[w])
  BY <1>2, <1>3, <1>5 DEF MessagesOK, Requested
<1>6. \A t \in Threads : call'[t].answer # Null => FillsOK(call'[t].answer)
  BY DEF MessagesOK
<1> QED
  BY <1>2, <1>3, <1>4, <1>5, <1>6 DEF MessagesOK, Answered, Requested, FillsOK, RequestOK

\* A step in which neither the maps nor the calls change.
LEMMA ElsewhereKeeps ==
  ASSUME ReportInv, MessagesOK', UNCHANGED <<maps, told, call>> PROVE ReportInv'
BY DEF ReportInv, MapsOK, CallersOK, Calls, At, Idle, maps, RequestOK

\* A restart of the server loses the book and messages.
LEMMA ServerRestartKeeps ==
  ASSUME ReportInv, ServerRestarts PROVE ReportInv'
<1>1. PICK lost : RestartServer(lost)
  BY DEF ServerRestarts
<1>2. /\ wire' = [s \in Sockets |-> IF s \in lost THEN Null ELSE wire[s]]
      /\ resting' = << >> /\ older' = {} /\ UNCHANGED <<maps, told, call>>
  BY <1>1 DEF RestartServer, ServerRestarts
<1>3. /\ wire' = [s \in Sockets |-> wire'[s]]
      /\ \A s \in Sockets : wire'[s] = Null \/ wire'[s] = wire[s]
  BY <1>2
<1>4. BookOK'
  BY <1>2, FS_EmptySet DEF BookOK
<1>5. MessagesOK'
  BY <1>2, <1>3, <1>4
     DEF ReportInv, MessagesOK, Answered, Requested, FillsOK, RequestOK
<1> QED
  BY <1>2, <1>5, ElsewhereKeeps

\* A restart of the client loses the maps, and the ids start again.
LEMMA ClientRestartKeeps ==
  ASSUME ReportInv, ClientRestarts PROVE ReportInv'
<1>1. /\ broker_order_id_counter' = 0 /\ details' = << >> /\ told' = told
      /\ call' = [t \in Threads |-> NoCall] /\ UNCHANGED <<resting, older>>
      /\ wire' = [s \in Sockets |-> IF Answered(s) THEN Null ELSE wire[s]]
  BY DEF ClientRestarts, bookVars, history
<1>2. /\ NoCall.at = "idle" /\ NoCall.answer = Null /\ NoCall.op # "stop"
      /\ \A t \in Threads : call'[t] = NoCall
  BY <1>1, NullAssumption DEF NoCall
<1>3. Calls'
  BY RenewShape
<1>4. DOMAIN details' = {}
  BY <1>1
<1>5. Tracked(details', told')
  <2>1. details' \in [DOMAIN details' -> OrderOf({})]
    BY <1>1, <1>4
  <2> QED
    BY <1>1, <1>4, <2>1 DEF ReportInv, MapsOK, Tracked
<1>6. MapsOK'
  BY <1>1, <1>4, <1>5 DEF ReportInv, MapsOK, Unfilled, FinalLast
<1>7. CallersOK'
  BY <1>2, BrokerAssumption DEF CallersOK, At, Idle
<1>8. Unanswered
  BY <1>1 DEF Unanswered
<1>9. MessagesOK'
  BY <1>1, <1>2, <1>8, LossKeepsMessages DEF ReportInv
<1> QED
  BY <1>3, <1>6, <1>7, <1>9 DEF ReportInv

\* Every step keeps the invariant.
LEMMA NextKeepsReports ==
  ASSUME SocketInv, ReportInv, [Next]_vars PROVE ReportInv'
<1>0. Calls /\ SocketsOK /\ MessagesOK /\ CallersOK
  BY DEF SocketInv, ReportInv
<1>1. CASE Calling
  BY <1>1, SubmitKeeps, SubmitUnpricedKeeps, CancelKeeps, InfoKeeps DEF Calling
<1>2. ASSUME NEW t \in Threads, Step(t) PROVE ReportInv'
  <2>1. CASE Requests(t)
    BY <1>0, <2>1, RequestGoesOn, RequestShapes, GoesOnKeeps
  <2>2. CASE Answers(t)
    BY <2>2, AnswerKeeps
  <2> QED
    BY <1>2, <2>1, <2>2, StepIs
<1>3. ASSUME NEW t \in Threads, Stop(t) \/ Stopped(t) PROVE ReportInv'
  BY <1>3, StopKeeps, AnswerKeeps
<1>4. ASSUME NEW s \in Sockets, ServeRequest(s) PROVE ReportInv'
  <2>1. UNCHANGED <<maps, told, call>> /\ \E open : Serve(s, open)
    BY <1>4, Zenon DEF ServeRequest
  <2> QED
    BY <1>0, <2>1, ServeKeepsMessages, ElsewhereKeeps
<1>5. ASSUME NEW s \in Sockets, Linger(s) PROVE ReportInv'
  <2>1. /\ UNCHANGED <<maps, told, call, resting, older>>
        /\ wire' = [wire EXCEPT ![s] = Null]
    BY <1>5 DEF Linger, bookVars, history
  <2>2. Unanswered
    BY <1>0, <2>1 DEF MessagesOK, Unanswered
  <2>3. MessagesOK'
    BY <1>0, <2>1, <2>2, LossKeepsMessages
  <2> QED
    BY <2>1, <2>3, ElsewhereKeeps
<1>6. CASE UNCHANGED vars
  <2>1. UNCHANGED <<maps, told, call, wire, resting, older>>
    BY <1>6 DEF vars, bookVars, history
  <2>2. MessagesOK'
    BY <1>0, <2>1, MessagesStay
  <2> QED
    BY <2>1, <2>2, ElsewhereKeeps
<1> QED
  BY <1>1, <1>2, <1>3, <1>4, <1>5, <1>6, ServerRestartKeeps, ClientRestartKeeps DEF Next

\* It holds initially.
LEMMA ReportsInit == Init => ReportInv
<1> SUFFICES ASSUME Init PROVE ReportInv
  OBVIOUS
<1>1. /\ details = << >> /\ told = << >> /\ broker_order_id_counter = 0
      /\ resting = << >> /\ older = {}
      /\ call = [t \in Threads |-> NoCall] /\ wire = [s \in Sockets |-> Null]
  BY DEF Init, InitServer, Book!Init
<1>2. NoCall.at = "idle" /\ NoCall.answer = Null /\ NoCall.op # "stop"
  BY NullAssumption DEF NoCall
<1>3. \A t \in Threads : call[t] = NoCall
  BY <1>1
<1>4. Calls
  BY SocketsInit DEF SocketInv
<1>5. DOMAIN details = {} /\ DOMAIN told = {}
  BY <1>1
<1>6. Tracked(details, told)
  <2>1. details \in [DOMAIN details -> OrderOf({})]
    BY <1>1, <1>5
  <2>2. told \in [DOMAIN told -> Seq(ReportOf({}))]
    BY <1>1, <1>5
  <2> QED
    BY <1>5, <2>1, <2>2 DEF Tracked
<1>7. MapsOK
  BY <1>1, <1>5, <1>6 DEF MapsOK, Unfilled, FinalLast
<1>8. CallersOK
  BY <1>2, <1>3, BrokerAssumption DEF CallersOK, At, Idle
<1>9. MessagesOK
  <2>1. BookOK
    BY <1>1, EmptyBookOK
  <2>2. wire = [s \in Sockets |-> wire[s]] /\ \A s \in Sockets : wire[s] = Null
    BY <1>1
  <2> QED
    BY <1>2, <1>3, <2>1, <2>2 DEF MessagesOK, Answered, Requested
<1> QED
  BY <1>4, <1>7, <1>8, <1>9 DEF ReportInv

\* No confirmation of an order follows the one that said it was filled,
\* cancelled or rejected: not a late fill of an order that lives on in the
\* book after its submission timed out, not the fill of an order with the same
\* id after a restart, whatever gets lost on the way and whichever of the
\* sockets the threads share (cpp_ob_broker.py:105-215, :248-262).
THEOREM AlwaysOneFinalReport == Spec => []OneFinalReport
<1>1. Init => SocketInv /\ ReportInv
  BY SocketsInit, ReportsInit
<1>2. SocketInv /\ ReportInv /\ [Next]_vars => (SocketInv /\ ReportInv)'
  BY NextKeepsSockets, NextKeepsReports
<1>3. ReportInv => OneFinalReport
  BY DEF ReportInv, MapsOK, FinalLast, OneFinalReport
<1> QED
  BY <1>1, <1>2, <1>3, PTL DEF Spec

-----------------------------------------------------------------------------
(* The types *)

\* A socket that may send has nothing on the wire, and an answer is on its way
\* only to a socket that waits for one.
WireOK ==
  \A s \in Sockets :
    /\ wire[s] # Null => state[s] # "ready"
    /\ Answered(s) => state[s] = "awaiting"

\* Closing or replacing a socket keeps it.
LEMMA CloseKeepsWire ==
  ASSUME SocketsOK, MessagesOK, WireOK, NEW t,
         \/ CloseSocket(t)
         \/ \E s \in Sockets \cup {Null} : (s # Null => wire[s] = Null) /\ SetSocket(t, s)
  PROVE  WireOK'
<1>1. wire = [s \in Sockets |-> wire[s]] /\ state \in [Sockets -> {"closed", "ready", "awaiting"}]
  BY DEF MessagesOK, SocketsOK
<1>2. CASE CloseSocket(t)
  <2>1. /\ \A s \in Sockets \ {socket} : wire'[s] = wire[s] /\ state'[s] = state[s]
        /\ socket \in Sockets
        /\ state'[socket] = "closed" /\ wire'[socket] = IF Answered(socket) THEN Null ELSE wire[socket]
    BY <1>1, <1>2 DEF CloseSocket, SocketsOK
  <2> QED
    BY <2>1 DEF WireOK, Answered
<1>3. CASE \E s \in Sockets \cup {Null} : (s # Null => wire[s] = Null) /\ SetSocket(t, s)
  <2>1. PICK s \in Sockets \cup {Null} :
          /\ s # Null => wire[s] = Null
          /\ state' = [w \in Sockets |-> IF w = s THEN "ready"
                                        ELSE IF w = socket /\ ~Held(w, t) THEN "closed"
                                        ELSE state[w]]
          /\ wire' = [w \in Sockets |-> IF state'[w] = "closed" /\ Answered(w) THEN Null ELSE wire[w]]
    BY <1>3 DEF SetSocket
  <2>2. s \in Sockets => wire'[s] = Null
    BY <2>1, BrokerAssumption
  <2>3. \A w \in Sockets \ {s} : state'[w] = "closed" \/ state'[w] = state[w]
    BY <2>1
  <2> QED
    BY <2>1, <2>2, <2>3 DEF WireOK, Answered
<1> QED
  BY <1>2, <1>3

\* The steps of a request, one by one.
LEMMA RequestKeepsWire ==
  ASSUME Calls, SocketsOK, MessagesOK, WireOK, NEW t \in Threads, Requests(t)
  PROVE  WireOK'
<1>0. /\ wire = [s \in Sockets |-> wire[s]] /\ state \in [Sockets -> {"closed", "ready", "awaiting"}]
      /\ socket \in Sockets \cup {Null}
      /\ At(t, "wait") => call[t].on \in Sockets
  BY HeldSockets DEF MessagesOK, SocketsOK, Calls, At
<1>1. CASE Looks(t) \/ NoSocket(t) \/ Recv(t) \/ ReturnNone(t)
  <2>1. UNCHANGED <<wire, state>>
    BY <1>1, LookMoves DEF NoSocket, Recv, ReturnNone, sockets
  <2> QED
    BY <2>1 DEF WireOK, Answered
<1>2. CASE Open(t)
  BY <1>2, CloseKeepsWire DEF Open
<1>3. CASE Send(t)
  <2>1. /\ socket \in Sockets /\ state'[socket] = "awaiting"
        /\ \A s \in Sockets \ {socket} : wire'[s] = wire[s] /\ state'[s] = state[s]
    BY <1>0, <1>3 DEF Send
  <2> QED
    BY <2>1 DEF WireOK, Answered
<1>4. CASE CloseSocket(t) \/ Forget(t)
  BY <1>4, CloseKeepsWire DEF Forget
<1>5. CASE Receive(t)
  <2>1. /\ call[t].on \in Sockets /\ wire'[call[t].on] = Null
        /\ \A s \in Sockets \ {call[t].on} : wire'[s] = wire[s] /\ state'[s] = state[s]
    BY <1>0, <1>5 DEF Receive, Release
  <2> QED
    BY <2>1 DEF WireOK, Answered
<1>6. CASE Timeout(t)
  <2>1. /\ call[t].on \in Sockets /\ ~Answered(call[t].on) /\ wire' = wire
        /\ state'[call[t].on] \in {"awaiting", "closed"}
        /\ \A s \in Sockets \ {call[t].on} : state'[s] = state[s]
    BY <1>0, <1>6 DEF Timeout, Release
  <2> QED
    BY <2>1 DEF WireOK, Answered
<1>7. CASE ReceiveBroken(t)
  <2>1. /\ call[t].on \in Sockets /\ wire' = wire /\ state[call[t].on] # "awaiting"
        /\ state'[call[t].on] \in {state[call[t].on], "closed"}
        /\ \A s \in Sockets \ {call[t].on} : state'[s] = state[s]
    BY <1>0, <1>7 DEF ReceiveBroken, Release
  <2> QED
    BY <2>1 DEF WireOK, Answered
<1> QED
  BY <1>1, <1>2, <1>3, <1>4, <1>5, <1>6, <1>7, Zenon DEF Requests

\* Every step keeps it.
LEMMA NextKeepsWire ==
  ASSUME SocketInv, ReportInv, WireOK, [Next]_vars PROVE WireOK'
<1>0. /\ Calls /\ SocketsOK /\ MessagesOK
      /\ wire = [s \in Sockets |-> wire[s]] /\ state \in [Sockets -> {"closed", "ready", "awaiting"}]
  BY DEF SocketInv, ReportInv, MessagesOK, SocketsOK
<1>1. CASE UNCHANGED <<wire, state>>
  BY <1>1 DEF WireOK, Answered
<1>2. CASE Calling \/ UNCHANGED vars
  BY <1>1, <1>2
     DEF Calling, Submit, SubmitUnpriced, Cancel, GetMarketDataSnapshot, vars, sockets
<1>3. ASSUME NEW t \in Threads, Step(t) PROVE WireOK'
  <2>1. CASE Requests(t)
    BY <1>0, <2>1, RequestKeepsWire
  <2>2. CASE Answers(t)
    BY <1>1, <2>2, AnswersLeave DEF sockets
  <2> QED
    BY <1>3, <2>1, <2>2, StepIs
<1>4. ASSUME NEW t \in Threads, Stop(t) \/ Stopped(t) PROVE WireOK'
  BY <1>1, <1>4 DEF Stop, Stopped, sockets
<1>5. ASSUME NEW s \in Sockets, ServeRequest(s) PROVE WireOK'
  <2>1. /\ Requested(s) /\ state' = state
        /\ wire' = [wire EXCEPT ![s] = IF state[s] # "closed" THEN Answer(reply') ELSE Null]
    BY <1>5, Zenon DEF ServeRequest, Serve, sockets
  <2>2. /\ \A w \in Sockets \ {s} : wire'[w] = wire[w]
        /\ state[s] \in {"closed", "awaiting"} /\ (state[s] = "closed" => wire'[s] = Null)
    BY <1>0, <2>1 DEF Requested, WireOK
  <2> QED
    BY <2>1, <2>2 DEF WireOK, Answered
<1>6. ASSUME NEW s \in Sockets, Linger(s) PROVE WireOK'
  <2>1. state' = state /\ \A w \in Sockets : wire'[w] = wire[w] \/ wire'[w] = Null
    BY <1>0, <1>6 DEF Linger, sockets
  <2> QED
    BY <2>1 DEF WireOK, Answered
<1>7. CASE ServerRestarts
  <2>1. state' = state /\ \A w \in Sockets : wire'[w] = wire[w] \/ wire'[w] = Null
    BY <1>7 DEF ServerRestarts, RestartServer, sockets
  <2> QED
    BY <2>1 DEF WireOK, Answered
<1>8. CASE ClientRestarts
  <2>1. PICK s \in Sockets : wire'[s] = Null /\ state' = Opened(s)
    BY <1>8 DEF ClientRestarts
  <2>2. \A w \in Sockets : wire'[w] = IF Answered(w) THEN Null ELSE wire[w]
    BY <1>8 DEF ClientRestarts
  <2>3. \A w \in Sockets \ {s} : state'[w] = "closed"
    BY <2>1 DEF Opened
  <2> QED
    BY <2>1, <2>2, <2>3 DEF WireOK, Answered
<1> QED
  BY <1>2, <1>3, <1>4, <1>5, <1>6, <1>7, <1>8 DEF Next

\* A thread has the lock or none has.
LockOK == lock \in Threads \cup {Null}

\* Every step keeps it.
LEMMA NextKeepsLock ==
  ASSUME LockOK, [Next]_vars PROVE LockOK'
<1>1. CASE lock' = lock
  BY <1>1 DEF LockOK
<1>2. CASE Calling \/ UNCHANGED vars
  BY <1>1, <1>2, Zenon
     DEF Calling, Submit, SubmitUnpriced, Cancel, GetMarketDataSnapshot, vars, maps
<1>3. ASSUME NEW t \in Threads, Step(t) PROVE LockOK'
  <2>1. CASE Requests(t)
    <3>1. UNCHANGED maps
      BY <2>1, LookGoes, Zenon
         DEF Requests, Open, Send, NoSocket, Recv, Receive, ReceiveBroken, Timeout, CloseSocket,
             Forget, ReturnNone
    <3> QED
      BY <1>1, <3>1 DEF maps
  <2>2. CASE Answers(t)
    <3>1. lock' = lock \/ lock' = t
      BY <2>2, Zenon DEF Answers, SubmitFailed, SubmitAnswered, CancelFailed, CancelAnswered,
                         InfoReturned, Cleanup, maps
    <3> QED
      BY <3>1 DEF LockOK
  <2> QED
    BY <1>3, <2>1, <2>2, StepIs
<1>4. CASE (\E t \in Threads : Stop(t) \/ Stopped(t)) \/ (\E s \in Sockets : ServeRequest(s) \/ Linger(s)) \/ ServerRestarts
  BY <1>1, <1>4, Zenon DEF Stop, Stopped, ServeRequest, Linger, ServerRestarts, maps
<1>5. CASE ClientRestarts
  BY <1>5 DEF ClientRestarts, LockOK
<1> QED
  BY <1>2, <1>3, <1>4, <1>5 DEF Next

\* The maps, the lock and the sockets keep their types: no order of the maps is
\* filled or overfilled, since one whose fills reach its quantity is taken out
\* with the fill that does, and no answer waits for a socket that could send
\* (cpp_ob_broker.py:18-35, :151-191).
THEOREM CppTypeCorrect == Spec => []TypeOK
<1>1. Init => SocketInv /\ ReportInv /\ WireOK /\ LockOK
  BY SocketsInit, ReportsInit DEF Init, InitServer, WireOK, LockOK, Answered
<1>2. SocketInv /\ ReportInv /\ WireOK /\ LockOK /\ [Next]_vars
        => (SocketInv /\ ReportInv /\ WireOK /\ LockOK)'
  BY NextKeepsSockets, NextKeepsReports, NextKeepsWire, NextKeepsLock
<1>3. SocketInv /\ ReportInv /\ WireOK /\ LockOK => TypeOK
  <2> SUFFICES ASSUME SocketInv, ReportInv, WireOK, LockOK PROVE TypeOK
    OBVIOUS
  <2>1. ASSUME NEW id \in DOMAIN details
        PROVE  /\ id \in 1 .. broker_order_id_counter
               /\ details[id].client \in DOMAIN told
               /\ details[id].filled_quantity \in 0 .. details[id].quantity - 1
    <3>1. details[id].quantity \in Nat /\ details[id].filled_quantity \in Nat
      BY DEF ReportInv, MapsOK, Tracked, OrderOf
    <3>2. details[id].filled_quantity < details[id].quantity
      BY DEF ReportInv, MapsOK, Unfilled
    <3> QED
      BY <3>1, <3>2 DEF ReportInv, MapsOK, Tracked
  <2> QED
    BY <2>1 DEF TypeOK, SocketInv, SocketsOK, ReportInv, MapsOK, WireOK, LockOK
<1> QED
  BY <1>1, <1>2, <1>3, PTL DEF Spec

-----------------------------------------------------------------------------
(* What was reported, and what the fills of an answer add to it *)

\* The reported shares and those of one more confirmation.
PlusReported(sum, conf) == sum + conf.filled_quantity

\* What stays true of the sum.
IsShares(n) == n \in Nat

\* The shares a client was told of.
Reported(reports, c) == FoldLeft(PlusReported, 0, reports[c])

\* Every confirmation is of a whole number of shares.
Counted(reports) ==
  \A c \in DOMAIN reports : \A n \in DOMAIN reports[c] : reports[c][n].filled_quantity \in Nat

\* The facts about folds, for PlusReported.
Count == INSTANCE FoldTheorems WITH Op <- PlusReported, Holds <- IsShares

\* FoldLeft is the fold they are about.
LEMMA ReportedFold ==
  ASSUME NEW reports, NEW c PROVE Reported(reports, c) = Count!Folded(0, reports[c])
BY DEF Reported, FoldLeft, MapThenFoldSet, Max, Count!Folded, Count!Folds, Count!FoldOver, Count!Greatest

\* It is a number,
LEMMA ReportedIsNat ==
  ASSUME NEW orders, NEW reports, Tracked(orders, reports), Counted(reports), NEW c \in DOMAIN reports
  PROVE  Reported(reports, c) \in Nat
<1>1. PICK Seen : reports[c] \in Seq(ReportOf(Seen))
  BY DEF Tracked
<1>2. DOMAIN reports[c] = 1 .. Len(reports[c]) /\ Len(reports[c]) \in Nat
  BY <1>1
<1>3. IsFiniteSet(DOMAIN reports[c]) /\ DOMAIN reports[c] \subseteq Int
  BY <1>2, FS_Interval
<1>4. IsShares(0) /\ \A r : \A n \in DOMAIN reports[c] :
                       IsShares(r) => IsShares(PlusReported(r, reports[c][n]))
  BY DEF IsShares, PlusReported, Counted
<1>5. IsShares(Count!Folded(0, reports[c]))
  BY <1>3, <1>4, Count!FoldKeeps DEF IsFiniteSet, Count!IsFiniteSet
<1> QED
  BY <1>5, ReportedFold DEF IsShares

\* that nothing but a confirmation of the client's adds to.
LEMMA TellAdds ==
  ASSUME NEW orders, NEW reports, Tracked(orders, reports), Counted(reports), NEW c \in DOMAIN reports,
         NEW status, NEW quantity \in Nat,
         NEW after, after = Tell(reports, c, Confirmation(status, quantity))
  PROVE  /\ DOMAIN after = DOMAIN reports /\ Counted(after)
         /\ Reported(after, c) = Reported(reports, c) + quantity
         /\ \A d \in DOMAIN reports \ {c} : Reported(after, d) = Reported(reports, d)
<1> DEFINE conf == Confirmation(status, quantity)
<1>1. PICK Seen : reports \in [DOMAIN reports -> Seq(ReportOf(Seen))]
  BY DEF Tracked
<1>2. /\ DOMAIN after = DOMAIN reports
      /\ \A d \in DOMAIN reports \ {c} : after[d] = reports[d]
      /\ after[c] = Append(reports[c], conf)
  BY <1>1 DEF Tell
<1>3. conf.filled_quantity = quantity
  BY DEF Confirmation
<1> HIDE DEF conf
<1>4. PICK k \in Nat : DOMAIN reports[c] = 1 .. k /\ Len(reports[c]) = k
  <2>1. reports[c] \in Seq(ReportOf(Seen))
    BY <1>1
  <2> QED
    BY <2>1
<1>5. /\ DOMAIN after[c] = 1 .. k + 1 /\ after[c][k + 1] = conf
      /\ \A n \in 1 .. k : after[c][n] = reports[c][n]
  <2>1. reports[c] \in Seq(ReportOf(Seen))
    BY <1>1
  <2> QED
    BY <1>2, <1>4, <2>1
<1>6. Reported(after, c) = PlusReported(Reported(reports, c), conf)
  <2>1. Count!Folded(0, after[c]) = PlusReported(Count!Folded(0, reports[c]), after[c][k + 1])
    <3> DEFINE seq == reports[c]
               longer == after[c]
    <3>1. /\ DOMAIN seq = 1 .. k /\ DOMAIN longer = 1 .. k + 1
          /\ \A i \in 1 .. k : longer[i] = seq[i]
      BY <1>4, <1>5
    <3> HIDE DEF seq, longer
    <3>2. Count!Folded(0, longer) = PlusReported(Count!Folded(0, seq), longer[k + 1])
      BY <3>1, Count!FoldAppends
    <3> QED
      BY <3>2 DEF seq, longer
  <2> QED
    BY <1>5, <2>1, ReportedFold
<1>7. \A d \in DOMAIN reports \ {c} : Reported(after, d) = Reported(reports, d)
  BY <1>2 DEF Reported
<1>8. Counted(after)
  <2> SUFFICES ASSUME NEW d \in DOMAIN reports, NEW n \in DOMAIN after[d]
               PROVE  after[d][n].filled_quantity \in Nat
    BY <1>2 DEF Counted
  <2>1. CASE d # c
    BY <1>2, <2>1 DEF Counted
  <2>2. CASE d = c
    <3>1. n \in 1 .. k \/ n = k + 1
      BY <1>5, <2>2
    <3> QED
      BY <1>3, <1>4, <1>5, <2>2, <3>1 DEF Counted
  <2> QED
    BY <2>1, <2>2
<1> QED
  BY <1>2, <1>3, <1>6, <1>7, <1>8 DEF PlusReported

\* One fill adds its shares to what its client was told, if the order is in the maps.
LEMMA ApplyFillAdds ==
  ASSUME NEW s, Applied(s), Counted(s.told), NEW fill, fill.quantity \in Nat,
         NEW after, after = ApplyFill(s, fill)
  PROVE  /\ DOMAIN after.told = DOMAIN s.told /\ Counted(after.told)
         /\ \A c \in DOMAIN s.told :
              Reported(after.told, c)
                = Reported(s.told, c)
                    + (IF fill.id \in DOMAIN s.details /\ details[fill.id].client = c
                       THEN fill.quantity ELSE 0)
<1>0. Tracked(s.details, s.told)
  BY DEF Applied
<1>1. CASE fill.id \notin DOMAIN s.details
  <2>1. after = s
    BY <1>1 DEF ApplyFill
  <2>2. \A c \in DOMAIN s.told : Reported(s.told, c) \in Nat
    BY <1>0, ReportedIsNat
  <2> QED
    BY <1>1, <2>1, <2>2
<1>2. CASE fill.id \in DOMAIN s.details
  <2> DEFINE order == s.details[fill.id]
             status == IF order.filled_quantity + fill.quantity >= order.quantity
                       THEN "FILLED" ELSE "PARTIALLY_FILLED"
             c == order.client
  <2>1. after.told = Tell(s.told, c, Confirmation(status, fill.quantity))
    BY <1>2 DEF ApplyFill, ReportedQuantity
  <2>2. c \in DOMAIN s.told /\ c = details[fill.id].client
    BY <1>2 DEF Applied, Tracked
  <2> HIDE DEF c, status
  <2>3. /\ DOMAIN after.told = DOMAIN s.told /\ Counted(after.told)
        /\ Reported(after.told, c) = Reported(s.told, c) + fill.quantity
        /\ \A d \in DOMAIN s.told \ {c} : Reported(after.told, d) = Reported(s.told, d)
    BY <1>0, <2>1, <2>2, TellAdds
  <2>4. \A d \in DOMAIN s.told : Reported(s.told, d) \in Nat
    BY <1>0, ReportedIsNat
  <2> QED
    BY <1>2, <2>2, <2>3, <2>4
<1> QED
  BY <1>1, <1>2

\* The fills of an answer add no more to what the client of an order was told
\* than the answer says was filled of that order.
LEMMA FillsAdd ==
  ASSUME NEW base, Applied(base), Counted(base.told), Tracked(details, base.told),
         NEW answer, FillsOK(answer),
         NEW after, after = FoldLeft(ApplyFill, base, answer.fills),
         NEW c \in DOMAIN base.told
  PROVE  /\ DOMAIN after.told = DOMAIN base.told /\ Counted(after.told)
         /\ \A id \in DOMAIN details : details[id].client = c =>
              Reported(after.told, c) <= Reported(base.told, c) + FilledIn(answer, id)
         /\ (\A id \in DOMAIN details : details[id].client # c) =>
              Reported(after.told, c) = Reported(base.told, c)
<1> DEFINE fills == answer.fills
<1>1. PICK n \in Nat : DOMAIN fills = 1 .. n
  BY DEF FillsOK
<1>2. FoldLeft(ApplyFill, base, fills) = Fold!Folded(base, fills)
  BY DEF FoldLeft, MapThenFoldSet, Max, Fold!Folded, Fold!Folds, Fold!FoldOver, Fold!Greatest
<1>3. \A m \in 1 .. n : fills[m].quantity \in Nat
  BY <1>1 DEF FillsOK
<1> HIDE DEF fills
<1>4. PICK h : /\ h[0] = base
               /\ \A i \in 1 .. n : h[i] = ApplyFill(h[i - 1], fills[i])
               /\ h[n] = Fold!Folded(base, fills)
  BY <1>1, Fold!FoldInSteps
<1>5. after = h[n]
  BY <1>2, <1>4 DEF fills
<1>6. \A i \in 0 .. n : \A id : FilledBy(fills, i, id) \in Nat
  <2> SUFFICES ASSUME NEW i \in 0 .. n, NEW id PROVE FilledBy(fills, i, id) \in Nat
    OBVIOUS
  <2>1. i \in Nat /\ \A m \in 1 .. i : fills[m].quantity \in Nat
    BY <1>3
  <2> QED
    BY <2>1, FilledByNext
<1> DEFINE Fine(i) ==
             /\ Applied(h[i]) /\ Counted(h[i].told) /\ DOMAIN h[i].told = DOMAIN base.told
             /\ \A id \in DOMAIN details : details[id].client = c =>
                  Reported(h[i].told, c) <= Reported(base.told, c) + FilledBy(fills, i, id)
             /\ (\A id \in DOMAIN details : details[id].client # c) =>
                  Reported(h[i].told, c) = Reported(base.told, c)
           Good == {i \in 0 .. n : Fine(i)}
<1>7. Reported(base.told, c) \in Nat
  BY ReportedIsNat DEF Applied
<1>8. 0 \in Good
  <2>1. \A id : FilledBy(fills, 0, id) \in Nat
    BY <1>6
  <2>2. Fine(0)
    BY <1>4, <1>7, <2>1
  <2> HIDE DEF Fine
  <2> QED
    BY <2>2
<1>9. ASSUME NEW i \in 1 .. n, i - 1 \in Good PROVE i \in Good
  <2> DEFINE s == h[i - 1]
             fill == fills[i]
  <2>1. Fine(i - 1)
    BY <1>9
  <2>2. h[i] = ApplyFill(s, fill) /\ fill.quantity \in Nat
    BY <1>3, <1>4
  <2>3. /\ Applied(s) /\ Counted(s.told) /\ DOMAIN s.told = DOMAIN base.told
        /\ DOMAIN s.details \subseteq DOMAIN details
    BY <2>1 DEF Applied
  <2>4. Reported(s.told, c) \in Nat
    BY <2>3, ReportedIsNat DEF Applied
  <2>5. /\ Applied(h[i]) /\ DOMAIN h[i].told = DOMAIN s.told /\ Counted(h[i].told)
        /\ Reported(h[i].told, c)
             = Reported(s.told, c)
                 + (IF fill.id \in DOMAIN s.details /\ details[fill.id].client = c
                    THEN fill.quantity ELSE 0)
    <3> HIDE DEF s, fill
    <3> QED
      BY <2>2, <2>3, ApplyFillKeeps, ApplyFillAdds
  <2>6. ASSUME NEW id \in DOMAIN details, details[id].client = c
        PROVE  Reported(h[i].told, c) <= Reported(base.told, c) + FilledBy(fills, i, id)
    <3>1. Reported(s.told, c) <= Reported(base.told, c) + FilledBy(fills, i - 1, id)
      BY <2>1, <2>6
    <3>2. /\ FilledBy(fills, i - 1, id) \in Nat
          /\ FilledBy(fills, i, id)
               = FilledBy(fills, i - 1, id) + (IF fill.id = id THEN fill.quantity ELSE 0)
      <4>1. i \in Nat /\ i # 0 /\ i - 1 \in 0 .. n /\ \A m \in 1 .. i : fills[m].quantity \in Nat
        BY <1>3
      <4> QED
        BY <1>6, <4>1, FilledByNext
    <3>3. fill.id \in DOMAIN s.details /\ details[fill.id].client = c => fill.id = id
      BY <2>3, <2>6 DEF Tracked
    <3> HIDE DEF Fine, Good, s, fill
    <3> QED
      BY <1>7, <2>2, <2>4, <2>5, <3>1, <3>2, <3>3
  <2>7. ASSUME \A id \in DOMAIN details : details[id].client # c
        PROVE  Reported(h[i].told, c) = Reported(base.told, c)
    <3>1. Reported(s.told, c) = Reported(base.told, c)
      BY <2>1, <2>7
    <3> HIDE DEF Fine, Good, s, fill
    <3> QED
      BY <2>3, <2>4, <2>5, <2>7, <3>1
  <2>8. Fine(i)
    BY <2>3, <2>5, <2>6, <2>7
  <2> HIDE DEF Fine
  <2> QED
    BY <2>8
<1>10. Fine(n)
  <2> HIDE DEF Fine
  <2>1. \A i \in 0 .. n : i \in Good
    <3> HIDE DEF Good
    <3> QED
      BY <1>8, <1>9, CountingUp
  <2>2. n \in 0 .. n
    OBVIOUS
  <2> QED
    BY <2>1, <2>2
<1>11. \A id : FilledIn(answer, id) = FilledBy(fills, n, id)
  BY <1>1, FilledInIsNat DEF fills
<1> QED
  BY <1>5, <1>10, <1>11

-----------------------------------------------------------------------------
(* What a trade adds to the shares executed *)

\* Both sides of a trade, for the owners of its orders after the step.
Credited(e, side) == [e EXCEPT ![owner'[side.id]] = @ + side.quantity]
Executing(e, trade) == Credited(Credited(e, trade.bid), trade.ask)

\* Nothing has to stay true while trades are added up.
Every(e) == TRUE

\* The facts about folds, for Executing.
Execute == INSTANCE FoldTheorems WITH Op <- Executing, Holds <- Every

\* What one side of a trade, and a trade, credit to a client.
SideOf(side, c) == IF owner'[side.id] = c THEN side.quantity ELSE 0
SidesOf(trade, c) == SideOf(trade.bid, c) + SideOf(trade.ask, c)

\* One trade.
LEMMA TradeExecutes ==
  ASSUME NEW e \in [Clients -> Nat], NEW trade,
         trade.bid.quantity \in Nat, trade.ask.quantity \in Nat,
         owner'[trade.bid.id] \in Clients, owner'[trade.ask.id] \in Clients
  PROVE  /\ Executing(e, trade) \in [Clients -> Nat]
         /\ \A c \in Clients : /\ Executing(e, trade)[c] = e[c] + SidesOf(trade, c)
                              /\ SidesOf(trade, c) \in Nat
<1>1. ASSUME NEW d \in [Clients -> Nat], NEW side, side.quantity \in Nat, owner'[side.id] \in Clients
      PROVE  /\ Credited(d, side) \in [Clients -> Nat]
             /\ \A c \in Clients : /\ Credited(d, side)[c] = d[c] + SideOf(side, c)
                                  /\ SideOf(side, c) \in Nat
  <2> DEFINE client == owner'[side.id]
             after == Credited(d, side)
  <2>1. after = [d EXCEPT ![client] = d[client] + side.quantity]
    BY <1>1 DEF Credited
  <2>2. client \in Clients
    BY <1>1
  <2> HIDE DEF client, after
  <2>3. /\ after \in [Clients -> Nat]
        /\ \A c \in Clients : after[c] = d[c] + (IF client = c THEN side.quantity ELSE 0)
    BY <1>1, <2>1, <2>2
  <2>4. \A c : SideOf(side, c) = IF client = c THEN side.quantity ELSE 0
    BY DEF client, SideOf
  <2> QED
    BY <1>1, <2>3, <2>4 DEF after
<1> DEFINE first == Credited(e, trade.bid)
           second == Credited(first, trade.ask)
<1>2. /\ first \in [Clients -> Nat]
      /\ \A c \in Clients : first[c] = e[c] + SideOf(trade.bid, c) /\ SideOf(trade.bid, c) \in Nat
  BY <1>1
<1>3. Executing(e, trade) = second
  BY DEF Executing
<1> HIDE DEF first
<1>4. /\ second \in [Clients -> Nat]
      /\ \A c \in Clients : second[c] = first[c] + SideOf(trade.ask, c) /\ SideOf(trade.ask, c) \in Nat
  BY <1>1, <1>2
<1> HIDE DEF second
<1> QED
  BY <1>2, <1>3, <1>4 DEF SidesOf

\* The client of an order is credited with all its trades, and no one loses any.
LEMMA TradesExecute ==
  ASSUME executed \in [Clients -> Nat],
         NEW trades, NEW k \in Nat, Len(trades) = k, DOMAIN trades = 1 .. k,
         \A n \in 1 .. k : /\ trades[n].bid.quantity \in Nat /\ trades[n].ask.quantity \in Nat
                           /\ owner'[trades[n].bid.id] \in Clients
                           /\ owner'[trades[n].ask.id] \in Clients,
         NEW after, after = FoldLeft(Executing, executed, trades),
         NEW answer, answer.fills = Fills(trades)
  PROVE  /\ after \in [Clients -> Nat]
         /\ \A c \in Clients : executed[c] <= after[c]
         /\ \A id : owner'[id] \in Clients =>
              executed[owner'[id]] + FilledIn(answer, id) <= after[owner'[id]]
<1> DEFINE fills == Fills(trades)
<1>1. after = Execute!Folded(executed, trades)
  BY DEF FoldLeft, MapThenFoldSet, Max, Execute!Folded, Execute!Folds, Execute!FoldOver,
         Execute!Greatest
<1>2. PICK h : /\ h[0] = executed
               /\ \A i \in 1 .. k : h[i] = Executing(h[i - 1], trades[i])
               /\ h[k] = Execute!Folded(executed, trades)
  BY Execute!FoldInSteps
<1>3. /\ \A id : FilledBy(fills, 0, id) = 0
      /\ \A i \in 1 .. k : \A id :
           /\ FilledBy(fills, 2 * (i - 1), id) \in Nat
           /\ FilledBy(fills, 2 * i, id)
                = FilledBy(fills, 2 * (i - 1), id)
                    + (IF trades[i].bid.id = id THEN trades[i].bid.quantity ELSE 0)
                    + (IF trades[i].ask.id = id THEN trades[i].ask.quantity ELSE 0)
  <2>1. \A id : FilledBy(fills, 0, id) = 0
    <3>1. 0 \in Nat /\ \A m \in 1 .. 0 : fills[m].quantity \in Nat
      OBVIOUS
    <3> HIDE DEF fills
    <3> QED
      BY <3>1, FilledByNext
  <2> QED
    BY <2>1, FilledByTrade
<1> HIDE DEF fills
<1> DEFINE Fine(i) ==
             /\ h[i] \in [Clients -> Nat]
             /\ \A c \in Clients : executed[c] <= h[i][c]
             /\ \A id : owner'[id] \in Clients =>
                  executed[owner'[id]] + FilledBy(fills, 2 * i, id) <= h[i][owner'[id]]
           Good == {i \in 0 .. k : Fine(i)}
<1>4. 0 \in Good
  <2>1. 2 * 0 = 0
    OBVIOUS
  <2>2. Fine(0)
    BY <1>2, <1>3, <2>1
  <2> HIDE DEF Fine
  <2> QED
    BY <2>2
<1>5. ASSUME NEW i \in 1 .. k, i - 1 \in Good PROVE i \in Good
  <2> DEFINE e == h[i - 1]
             trade == trades[i]
  <2>1. Fine(i - 1)
    BY <1>5
  <2>2. /\ h[i] = Executing(e, trade) /\ e \in [Clients -> Nat]
        /\ trade.bid.quantity \in Nat /\ trade.ask.quantity \in Nat
        /\ owner'[trade.bid.id] \in Clients /\ owner'[trade.ask.id] \in Clients
    BY <1>2, <2>1
  <2>3. /\ h[i] \in [Clients -> Nat]
        /\ \A c \in Clients : h[i][c] = e[c] + SidesOf(trade, c) /\ SidesOf(trade, c) \in Nat
    <3> HIDE DEF e, trade
    <3>1. /\ Executing(e, trade) \in [Clients -> Nat]
          /\ \A c \in Clients : /\ Executing(e, trade)[c] = e[c] + SidesOf(trade, c)
                               /\ SidesOf(trade, c) \in Nat
      BY <2>2, TradeExecutes
    <3> QED
      BY <2>2, <3>1
  <2>4. ASSUME NEW c \in Clients PROVE executed[c] <= h[i][c]
    <3>1. executed[c] <= e[c]
      BY <2>1
    <3>2. executed[c] \in Nat /\ e[c] \in Nat /\ h[i][c] = e[c] + SidesOf(trade, c) /\ SidesOf(trade, c) \in Nat
      BY <2>2, <2>3
    <3> HIDE DEF e, trade, Fine, Good
    <3> QED
      BY <3>1, <3>2
  <2>5. ASSUME NEW id, owner'[id] \in Clients
        PROVE  executed[owner'[id]] + FilledBy(fills, 2 * i, id) <= h[i][owner'[id]]
    <3> DEFINE c == owner'[id]
               done == FilledBy(fills, 2 * (i - 1), id)
               bid == IF trade.bid.id = id THEN trade.bid.quantity ELSE 0
               ask == IF trade.ask.id = id THEN trade.ask.quantity ELSE 0
    <3>1. executed[c] + done <= e[c]
      BY <2>1, <2>5
    <3>2. done \in Nat /\ FilledBy(fills, 2 * i, id) = done + bid + ask
      BY <1>3
    <3>3. /\ executed[c] \in Nat /\ e[c] \in Nat
          /\ h[i][c] = e[c] + SidesOf(trade, c) /\ SidesOf(trade, c) \in Nat
      BY <2>2, <2>3, <2>5
    <3>4. bid \in Nat /\ ask \in Nat /\ bid + ask <= SidesOf(trade, c)
      <4>1. bid \in Nat /\ ask \in Nat /\ trade.bid.quantity \in Nat /\ trade.ask.quantity \in Nat
        BY <2>2
      <4>2. trade.bid.id = id => SideOf(trade.bid, c) = trade.bid.quantity
        BY DEF SideOf
      <4>3. trade.ask.id = id => SideOf(trade.ask, c) = trade.ask.quantity
        BY DEF SideOf
      <4>4. SideOf(trade.bid, c) \in {0, trade.bid.quantity} /\ SideOf(trade.ask, c) \in {0, trade.ask.quantity}
        BY DEF SideOf
      <4> HIDE DEF c, trade
      <4> QED
        BY <4>1, <4>2, <4>3, <4>4 DEF SidesOf
    <3> HIDE DEF e, trade, Fine, Good, c, done, bid, ask
    <3>5. executed[c] + FilledBy(fills, 2 * i, id) <= h[i][c]
      BY <3>1, <3>2, <3>3, <3>4
    <3> QED
      BY <3>5 DEF c
  <2>6. Fine(i)
    BY <2>3, <2>4, <2>5
  <2> HIDE DEF Fine
  <2> QED
    BY <2>6
<1>6. Fine(k)
  <2> HIDE DEF Fine
  <2>1. \A i \in 0 .. k : i \in Good
    <3> HIDE DEF Good
    <3> QED
      BY <1>4, <1>5, CountingUp
  <2>2. k \in 0 .. k
    OBVIOUS
  <2> QED
    BY <2>1, <2>2
<1>7. \A id : FilledIn(answer, id) = FilledBy(fills, 2 * k, id)
  <2>1. FillsOK(answer)
    BY FillsOfTrades
  <2>2. 2 * k \in Nat /\ DOMAIN answer.fills = 1 .. 2 * k
    BY DEF Fills
  <2> QED
    BY <2>1, <2>2, FilledInIsNat DEF fills
<1> QED
  BY <1>1, <1>2, <1>6, <1>7

-----------------------------------------------------------------------------
(* What is not reported yet *)

\* The shares of an order in the answer the manager's call is about to handle.
AtHand(id) ==
  IF call["pm"].answer # Null /\ ~At("pm", "cleanup") THEN FilledIn(call["pm"].answer, id) ELSE 0

\* An answer is on its way to a socket that is open.
LEMMA UnreadIsFinite ==
  ASSUME SocketInv, WireOK PROVE IsFiniteSet(Unread)
<1> DEFINE used == {socket, call["pm"].on, call["api"].on}
<1>1. IsFiniteSet(used)
  <2>1. IsFiniteSet({socket})
    BY FS_Singleton
  <2>2. IsFiniteSet(({socket} \cup {call["pm"].on}) \cup {call["api"].on})
    BY <2>1, FS_AddElement
  <2>3. used = ({socket} \cup {call["pm"].on}) \cup {call["api"].on}
    OBVIOUS
  <2> QED
    BY <2>2, <2>3
<1>2. Unread \subseteq used
  BY BrokerAssumption DEF Unread, WireOK, SocketInv, SocketsOK
<1> HIDE DEF used
<1> QED
  BY <1>1, <1>2, FS_Subset

\* What is at hand is a number of shares.
LEMMA AtHandIsNat == ASSUME MessagesOK, NEW id PROVE AtHand(id) \in Nat
BY FilledInIsNat, BrokerAssumption DEF AtHand, MessagesOK

-----------------------------------------------------------------------------
(* Whose order an id is *)

\* A request to add an order is for an id that was given out, and for the
\* client of that order while it is in the maps.
AddsKnown(request, orders, counter) ==
  request.command = "ADD_ORDER" =>
    /\ request.id = request.order.id /\ request.id \in 1 .. counter
    /\ request.client \in Clients
    /\ request.id \in DOMAIN orders => orders[request.id].client = request.client
    /\ request.order \in [id : Nat, type : OrderTypes, side : Book!Sides, price : Prices,
                          initial : Nat, remaining : Nat]

\* An answer is about ids that were given out.
IdsKnown(answer, counter) == \A n \in DOMAIN answer.fills : answer.fills[n].id \in 1 .. counter

\* The clients are known, and so are the orders of the book.
OwnersOK ==
  /\ DOMAIN told \subseteq Clients /\ Counted(told) /\ executed \in [Clients -> Nat]
  /\ DOMAIN resting \subseteq DOMAIN owner /\ DOMAIN owner \subseteq 1 .. broker_order_id_counter
  /\ \A id \in DOMAIN owner :
       owner[id] \in Clients /\ (id \in DOMAIN details => details[id].client = owner[id])

\* While the client process goes on, an id is the same order for the broker,
\* for the book and in the messages between them.
KnownOK ==
  /\ \A s \in Sockets : Requested(s) => AddsKnown(wire[s], details, broker_order_id_counter)
  /\ \A t \in Threads : ~Idle(t) /\ call[t].op # "stop"
                          => AddsKnown(call[t].request, details, broker_order_id_counter)
  /\ \A s \in Sockets : Answered(s) => IdsKnown(wire[s], broker_order_id_counter)
  /\ \A t \in Threads : call[t].answer # Null => IdsKnown(call[t].answer, broker_order_id_counter)

\* The maps change for ids given out before only by losing orders.
OrdersStay ==
  /\ broker_order_id_counter \in Nat /\ broker_order_id_counter' \in Nat
  /\ broker_order_id_counter <= broker_order_id_counter'
  /\ \A id \in DOMAIN details' :
       \/ id \in DOMAIN details /\ details'[id].client = details[id].client
       \/ id \notin 1 .. broker_order_id_counter

\* Then what was known of a message still is.
LEMMA KnownStays ==
  ASSUME OrdersStay, NEW message
  PROVE  /\ AddsKnown(message, details, broker_order_id_counter)
              => AddsKnown(message, details', broker_order_id_counter')
         /\ IdsKnown(message, broker_order_id_counter) => IdsKnown(message, broker_order_id_counter')
BY DEF OrdersStay, AddsKnown, IdsKnown

\* A step of a client.
LEMMA KnownGoesOn ==
  ASSUME KnownOK, MessagesOK, OrdersStay, Unanswered,
         \A t \in Threads :
           /\ call'[t].at # "idle" /\ call'[t].op # "stop" =>
                \/ ~Idle(t) /\ call[t].op # "stop" /\ call'[t].request = call[t].request
                \/ AddsKnown(call'[t].request, details', broker_order_id_counter')
           /\ \/ call'[t].answer \in {call[t].answer, Null}
              \/ \E s \in Sockets : Answered(s) /\ call'[t].answer = wire[s]
  PROVE  KnownOK'
<1>1. ASSUME NEW s \in Sockets, wire'[s] # Null, wire'[s].kind = "request"
      PROVE  AddsKnown(wire'[s], details', broker_order_id_counter')
  <2>1. CASE wire'[s] = wire[s]
    BY <1>1, <2>1, KnownStays DEF KnownOK, Requested
  <2>2. ASSUME NEW t \in Threads, ~Idle(t), call[t].op # "stop", wire'[s] = call[t].request
        PROVE  AddsKnown(wire'[s], details', broker_order_id_counter')
    BY <2>2, KnownStays DEF KnownOK
  <2> QED
    BY <1>1, <2>1, <2>2 DEF Unanswered
<1>2. ASSUME NEW s \in Sockets, wire'[s] # Null, wire'[s].kind = "answer"
      PROVE  IdsKnown(wire'[s], broker_order_id_counter')
  <2>1. wire'[s] = wire[s]
    BY <1>2 DEF Unanswered, RequestOK
  <2> QED
    BY <1>2, <2>1, KnownStays DEF KnownOK, Answered
<1>3. ASSUME NEW t \in Threads, call'[t].at # "idle", call'[t].op # "stop"
      PROVE  AddsKnown(call'[t].request, details', broker_order_id_counter')
  BY <1>3, KnownStays DEF KnownOK
<1>4. ASSUME NEW t \in Threads, call'[t].answer # Null
      PROVE  IdsKnown(call'[t].answer, broker_order_id_counter')
  <2>1. CASE call'[t].answer = call[t].answer
    BY <1>4, <2>1, KnownStays DEF KnownOK
  <2>2. ASSUME NEW s \in Sockets, Answered(s), call'[t].answer = wire[s]
        PROVE  IdsKnown(call'[t].answer, broker_order_id_counter')
    BY <2>2, KnownStays DEF KnownOK
  <2> QED
    BY <1>4, <2>1, <2>2
<1> QED
  BY <1>1, <1>2, <1>3, <1>4 DEF KnownOK, Requested, Answered, Idle

\* The owners of the orders stay the same.
LEMMA OwnersStay ==
  ASSUME OwnersOK, OrdersStay, executed' = executed, DOMAIN told' \subseteq Clients, Counted(told'),
         DOMAIN resting' \subseteq DOMAIN owner', DOMAIN owner' \subseteq DOMAIN owner,
         \A id \in DOMAIN owner' : owner'[id] = owner[id]
  PROVE  OwnersOK'
<1>1. DOMAIN owner' \subseteq 1 .. broker_order_id_counter'
  BY DEF OwnersOK, OrdersStay
<1>2. ASSUME NEW id \in DOMAIN owner'
      PROVE  owner'[id] \in Clients /\ (id \in DOMAIN details' => details'[id].client = owner'[id])
  BY DEF OwnersOK, OrdersStay
<1> QED
  BY <1>1, <1>2 DEF OwnersOK, Counted

-----------------------------------------------------------------------------
(* What is reported, or will be, was executed *)

\* What was reported for an order, is about to be or can still come is no more
\* than was executed.
Backed ==
  /\ \A c \in DOMAIN told : Reported(told, c) <= executed[c]
  /\ \A id \in DOMAIN details :
       Reported(told, details[id].client) + OnTheWay(id) + AtHand(id) <= executed[details[id].client]

\* What is known of the numbers in it.
LEMMA BackedNumbers ==
  ASSUME SocketInv, ReportInv, WireOK, OwnersOK
  PROVE  /\ IsFiniteSet(Unread) /\ MessagesOK
         /\ Tracked(details, told) /\ Counted(told)
         /\ \A c \in DOMAIN told : Reported(told, c) \in Nat /\ executed[c] \in Nat
         /\ \A id \in DOMAIN details : details[id].client \in DOMAIN told
         /\ \A id : OnTheWay(id) \in Nat /\ AtHand(id) \in Nat
<1>1. IsFiniteSet(Unread) /\ MessagesOK /\ Tracked(details, told) /\ Counted(told)
  BY UnreadIsFinite DEF ReportInv, MapsOK, OwnersOK
<1>2. \A c \in DOMAIN told : Reported(told, c) \in Nat
  BY <1>1, ReportedIsNat
<1>3. \A id : OnTheWay(id) \in Nat /\ AtHand(id) \in Nat
  BY <1>1, OnTheWayIsNat, AtHandIsNat DEF MessagesOK, AnswersOK
<1> QED
  BY <1>1, <1>2, <1>3 DEF OwnersOK, Tracked

\* Nothing is reported; answers get lost, are received or thrown away.
LEMMA QuietKeepsBacked ==
  ASSUME SocketInv, ReportInv, WireOK, OwnersOK, Backed,
         told' = told, executed' = executed, DOMAIN details' \subseteq DOMAIN details,
         \A id \in DOMAIN details' : details'[id].client = details[id].client,
         \A s \in Sockets : Answered(s)' => Answered(s) /\ wire'[s] = wire[s],
         \/ call'["pm"].answer = Null \/ call'["pm"].at = "cleanup"
         \/ call'["pm"].answer = call["pm"].answer /\ call["pm"].at # "cleanup"
         \/ \E s \in Sockets : Answered(s) /\ call'["pm"].answer = wire[s] /\ wire'[s] = Null
  PROVE  Backed'
<1>1. ASSUME NEW id \in DOMAIN details
      PROVE  OnTheWay(id)' + AtHand(id)' <= OnTheWay(id) + AtHand(id) /\ OnTheWay(id)' \in Nat /\ AtHand(id)' \in Nat
  <2>1. /\ OnTheWay(id) \in Nat /\ AtHand(id) \in Nat /\ MessagesOK /\ IsFiniteSet(Unread)
    BY BackedNumbers
  <2>2. /\ OnTheWay(id)' \in Nat /\ OnTheWay(id)' <= OnTheWay(id)
        /\ \A s \in Sockets : Answered(s) /\ ~Answered(s)'
              => OnTheWay(id)' + FilledIn(wire[s], id) <= OnTheWay(id)
    BY <2>1, FewerOnTheWay DEF MessagesOK, AnswersOK
  <2>3. CASE call'["pm"].answer = Null \/ call'["pm"].at = "cleanup"
    <3>1. AtHand(id)' = 0
      BY <2>3 DEF AtHand, At
    <3> QED
      BY <2>1, <2>2, <3>1
  <2>4. CASE call'["pm"].answer = call["pm"].answer /\ call["pm"].at # "cleanup"
    <3>1. AtHand(id)' = 0 \/ AtHand(id)' = AtHand(id)
      BY <2>4 DEF AtHand, At
    <3> QED
      BY <2>1, <2>2, <3>1
  <2>5. ASSUME NEW s \in Sockets, Answered(s), call'["pm"].answer = wire[s], wire'[s] = Null
        PROVE  /\ OnTheWay(id)' + AtHand(id)' <= OnTheWay(id) + AtHand(id) /\ AtHand(id)' \in Nat
    <3>1. OnTheWay(id)' + FilledIn(wire[s], id) <= OnTheWay(id)
      BY <2>2, <2>5 DEF Answered
    <3>2. AtHand(id)' = 0 \/ AtHand(id)' = FilledIn(wire[s], id)
      BY <2>5 DEF AtHand
    <3>3. FilledIn(wire[s], id) \in Nat
      BY <2>1, <2>5, FilledInIsNat DEF MessagesOK
    <3> QED
      BY <2>1, <2>2, <3>1, <3>2, <3>3
  <2> QED
    BY <2>2, <2>3, <2>4, <2>5
<1>2. ASSUME NEW id \in DOMAIN details'
      PROVE  Reported(told', details'[id].client) + OnTheWay(id)' + AtHand(id)' <= executed'[details'[id].client]
  <2> DEFINE c == details[id].client
  <2>1. id \in DOMAIN details /\ details'[id].client = c
    OBVIOUS
  <2>2. Reported(told, c) + OnTheWay(id) + AtHand(id) <= executed[c]
    BY <2>1 DEF Backed
  <2>3. /\ Reported(told, c) \in Nat /\ executed[c] \in Nat
        /\ OnTheWay(id) \in Nat /\ AtHand(id) \in Nat
    BY <2>1, BackedNumbers
  <2> HIDE DEF c
  <2>4. Reported(told, c) + OnTheWay(id)' + AtHand(id)' <= executed[c]
    BY <1>1, <2>1, <2>2, <2>3
  <2> QED
    BY <2>1, <2>4
<1> QED
  BY <1>2 DEF Backed

\* The manager's thread is done with its answer, and has reported no more than
\* the fills in it.
LEMMA ReportKeepsBacked ==
  ASSUME SocketInv, ReportInv, WireOK, OwnersOK, Backed,
         executed' = executed, wire' = wire,
         call'["pm"].answer = Null \/ call'["pm"].at = "cleanup",
         DOMAIN details' \subseteq DOMAIN details,
         \A id \in DOMAIN details' : details'[id].client = details[id].client,
         DOMAIN told' = DOMAIN told, \A c \in DOMAIN told : Reported(told', c) \in Nat,
         \A id \in DOMAIN details :
           Reported(told', details[id].client) <= Reported(told, details[id].client) + AtHand(id),
         \A c \in DOMAIN told :
           (\A id \in DOMAIN details : details[id].client # c) => Reported(told', c) = Reported(told, c)
  PROVE  Backed'
<1>1. ASSUME NEW id \in DOMAIN details
      PROVE  /\ Reported(told', details[id].client) <= executed[details[id].client]
             /\ Reported(told', details[id].client) + OnTheWay(id)' + AtHand(id)' <= executed[details[id].client]
  <2> DEFINE c == details[id].client
  <2>1. Reported(told, c) + OnTheWay(id) + AtHand(id) <= executed[c]
    BY DEF Backed
  <2>2. /\ c \in DOMAIN told /\ Reported(told, c) \in Nat /\ executed[c] \in Nat
        /\ OnTheWay(id) \in Nat /\ AtHand(id) \in Nat
    BY BackedNumbers
  <2>3. OnTheWay(id)' = OnTheWay(id) /\ AtHand(id)' = 0
    BY DEF OnTheWay, Unread, Answered, AtHand, At
  <2>4. Reported(told', c) <= Reported(told, c) + AtHand(id) /\ Reported(told', c) \in Nat
    BY <2>2
  <2> HIDE DEF c
  <2>5. Reported(told', c) <= executed[c] /\ Reported(told', c) + OnTheWay(id)' + AtHand(id)' <= executed[c]
    BY <2>1, <2>2, <2>3, <2>4
  <2> QED
    BY <2>5 DEF c
<1>2. ASSUME NEW c \in DOMAIN told PROVE Reported(told', c) <= executed[c]
  BY <1>1 DEF Backed
<1> QED
  BY <1>1, <1>2 DEF Backed

\* The inductive invariant of the shares reported.
ExecInv == OwnersOK /\ KnownOK /\ Backed

\* A step of a client puts no answer on the wire.
LEMMA AnsweredBefore ==
  ASSUME Unanswered PROVE \A s \in Sockets : Answered(s)' => Answered(s) /\ wire'[s] = wire[s]
<1>1. \A s \in Sockets : wire'[s] # Null /\ wire'[s].kind = "answer" => wire'[s] = wire[s]
  BY DEF Unanswered, RequestOK
<1> QED
  BY <1>1 DEF Answered

\* The steps of a request, up to its answer.
LEMMA RequestKeepsExec ==
  ASSUME SocketInv, ReportInv, WireOK, ExecInv, NEW t \in Threads, GoesOn(t), Unanswered,
         UNCHANGED <<executed, owner>>
  PROVE  ExecInv'
<1>1. /\ OwnersOK /\ KnownOK /\ Backed /\ MessagesOK /\ Counted(told)
      /\ broker_order_id_counter \in Nat
  BY DEF ExecInv, ReportInv, MapsOK, OwnersOK
<1>2. /\ Others(t) /\ UNCHANGED <<details, broker_order_id_counter, told, resting>>
      /\ call[t].at \notin {"idle", "cleanup"} /\ call'[t].request = call[t].request
      /\ call'[t].op = call[t].op
      /\ \/ call'[t].answer \in {call[t].answer, Null}
         \/ \E s \in Sockets : Answered(s) /\ call'[t].answer = wire[s] /\ wire'[s] = Null
  BY DEF GoesOn, maps
<1>3. OrdersStay
  BY <1>1, <1>2 DEF OrdersStay
<1>4. OwnersOK'
  BY <1>1, <1>2, <1>3, OwnersStay DEF OwnersOK
<1>5. KnownOK'
  BY <1>1, <1>2, <1>3, KnownGoesOn DEF Others, Idle
<1>6. \/ call'["pm"].answer = Null \/ call'["pm"].at = "cleanup"
      \/ call'["pm"].answer = call["pm"].answer /\ call["pm"].at # "cleanup"
      \/ \E s \in Sockets : Answered(s) /\ call'["pm"].answer = wire[s] /\ wire'[s] = Null
  <2>1. CASE t = "pm"
    BY <1>2, <2>1
  <2>2. CASE t # "pm"
    BY <1>2, <2>2, BrokerAssumption DEF Others
  <2> QED
    BY <2>1, <2>2
<1>7. Backed'
  BY <1>1, <1>2, <1>6, AnsweredBefore, QuietKeepsBacked
<1> QED
  BY <1>4, <1>5, <1>7 DEF ExecInv

\* A step that changes neither the maps nor the calls, and puts nothing new on
\* the wire.
LEMMA ElsewhereKeepsExec ==
  ASSUME SocketInv, ReportInv, WireOK, ExecInv, Unanswered, UNCHANGED <<maps, told, call, executed>>,
         \/ UNCHANGED <<resting, owner>>
         \/ DOMAIN resting' = {} /\ DOMAIN owner' = {}
  PROVE  ExecInv'
<1>1. /\ OwnersOK /\ KnownOK /\ Backed /\ MessagesOK /\ Counted(told)
      /\ broker_order_id_counter \in Nat
      /\ UNCHANGED <<details, broker_order_id_counter>>
  BY DEF ExecInv, ReportInv, MapsOK, OwnersOK, maps
<1>2. OrdersStay
  BY <1>1 DEF OrdersStay
<1>3. OwnersOK'
  BY <1>1, <1>2, OwnersStay DEF OwnersOK
<1>4. KnownOK'
  BY <1>1, <1>2, KnownGoesOn DEF Idle
<1>5. Backed'
  BY <1>1, AnsweredBefore, QuietKeepsBacked
<1> QED
  BY <1>3, <1>4, <1>5 DEF ExecInv

\* The API's answer is thrown away, a failed cancel is not reported, the order
\* that is over leaves the maps, and a stop is over.
LEMMA QuietAnswerKeepsExec ==
  ASSUME SocketInv, ReportInv, WireOK, ExecInv, NEW t \in Threads,
         CancelFailed(t) \/ InfoReturned(t) \/ Cleanup(t) \/ Stopped(t)
  PROVE  ExecInv'
<1>1. /\ OwnersOK /\ KnownOK /\ Backed /\ MessagesOK /\ Calls /\ Counted(told)
      /\ broker_order_id_counter \in Nat /\ Tracked(details, told)
  BY DEF ExecInv, ReportInv, MapsOK, OwnersOK
<1>2. /\ UNCHANGED <<wire, resting, executed, owner, told, broker_order_id_counter>>
      /\ Return(t) /\ call[t].at # "wait" /\ (At(t, "answer") \/ At(t, "cleanup"))
  BY DEF CancelFailed, InfoReturned, Cleanup, Stopped, bookVars, maps, history, At
<1>3. Others(t) /\ call'[t] = NoCall /\ NoCall.at = "idle" /\ NoCall.answer = Null
  BY <1>1, <1>2, Returns DEF NoCall
<1>4. /\ DOMAIN details' \subseteq DOMAIN details
      /\ \A id \in DOMAIN details' : details'[id].client = details[id].client
  <2>1. CASE CancelFailed(t)
    <3> DEFINE marked == [details EXCEPT ![call[t].id].status = "WORKING"]
    <3>1. call[t].id \in DOMAIN details
      BY <2>1, AtAnswer DEF CancelFailed
    <3>2. DOMAIN marked = DOMAIN details /\ \A i \in DOMAIN details : marked[i].client = details[i].client
      BY <1>1, <3>1, StatusChanges
    <3>3. details' = marked
      BY <2>1 DEF CancelFailed
    <3> HIDE DEF marked
    <3> QED
      BY <3>2, <3>3
  <2>2. CASE InfoReturned(t) \/ Stopped(t)
    BY <2>2 DEF InfoReturned, Stopped, maps
  <2>3. CASE Cleanup(t)
    <3> DEFINE cleaned == CleanedUp(details, call[t].id)
    <3>1. /\ DOMAIN cleaned = DOMAIN details \ {call[t].id}
          /\ \A i \in DOMAIN details \ {call[t].id} : cleaned[i] = details[i]
      BY <1>1, CleanUpKeeps
    <3>2. details' = cleaned
      BY <2>3 DEF Cleanup
    <3> HIDE DEF cleaned
    <3> QED
      BY <3>1, <3>2
  <2> QED
    BY <2>1, <2>2, <2>3
<1>5. OrdersStay
  BY <1>1, <1>2, <1>4 DEF OrdersStay
<1>6. OwnersOK'
  BY <1>1, <1>2, <1>5, OwnersStay DEF OwnersOK
<1>7. Unanswered
  BY <1>1, <1>2 DEF MessagesOK, Unanswered
<1>8. KnownOK'
  BY <1>1, <1>3, <1>5, <1>7, KnownGoesOn DEF Others, Idle
<1>9. \/ call'["pm"].answer = Null
      \/ call'["pm"].at = "cleanup"
      \/ call'["pm"].answer = call["pm"].answer /\ call["pm"].at # "cleanup"
  <2>1. CASE t = "pm"
    BY <1>3, <2>1
  <2>2. CASE t # "pm"
    BY <1>3, <2>2, BrokerAssumption DEF Others
  <2> QED
    BY <2>1, <2>2
<1>10. Backed'
  BY <1>1, <1>2, <1>4, <1>7, <1>9, AnsweredBefore, QuietKeepsBacked
<1> QED
  BY <1>6, <1>8, <1>10 DEF ExecInv

\* The manager's thread reports, and is done with its answer.
LEMMA ReportingKeepsExec ==
  ASSUME SocketInv, ReportInv, WireOK, ExecInv,
         UNCHANGED <<wire, resting, executed, owner, broker_order_id_counter>>,
         ~Idle("pm"), Others("pm"),
         \/ call'["pm"] = NoCall
         \/ /\ call'["pm"].at = "cleanup" /\ call'["pm"].request = call["pm"].request
            /\ call'["pm"].op = call["pm"].op /\ call'["pm"].answer = call["pm"].answer,
         DOMAIN details' \subseteq DOMAIN details,
         \A id \in DOMAIN details' : details'[id].client = details[id].client,
         DOMAIN told' = DOMAIN told, Counted(told'), \A c \in DOMAIN told : Reported(told', c) \in Nat,
         \A id \in DOMAIN details :
           Reported(told', details[id].client) <= Reported(told, details[id].client) + AtHand(id),
         \A c \in DOMAIN told :
           (\A id \in DOMAIN details : details[id].client # c) => Reported(told', c) = Reported(told, c)
  PROVE  ExecInv'
<1>1. /\ OwnersOK /\ KnownOK /\ Backed /\ MessagesOK /\ broker_order_id_counter \in Nat
      /\ NoCall.at = "idle" /\ NoCall.answer = Null
  BY DEF ExecInv, ReportInv, MapsOK, NoCall
<1>2. OrdersStay
  BY <1>1 DEF OrdersStay
<1>3. DOMAIN told' \subseteq Clients /\ DOMAIN resting' \subseteq DOMAIN owner'
  BY <1>1 DEF OwnersOK
<1>4. OwnersOK'
  BY <1>1, <1>2, <1>3, OwnersStay
<1>5. Unanswered
  BY <1>1 DEF MessagesOK, Unanswered
<1>6. KnownOK'
  BY <1>1, <1>2, <1>5, KnownGoesOn DEF Others, Idle
<1>7. call'["pm"].answer = Null \/ call'["pm"].at = "cleanup"
  BY <1>1
<1>8. Backed'
  BY <1>1, <1>7, ReportKeepsBacked
<1> QED
  BY <1>4, <1>6, <1>8 DEF ExecInv

\* A rejection and a confirmed cancel are of no shares.
LEMMA FinalReportKeepsExec ==
  ASSUME SocketInv, ReportInv, WireOK, ExecInv, NEW t \in Threads,
         SubmitFailed(t) \/ CancelAnswered(t)
  PROVE  ExecInv'
<1>1. /\ OwnersOK /\ MapsOK /\ Calls /\ Counted(told) /\ Tracked(details, told)
  BY DEF ExecInv, ReportInv, MapsOK, OwnersOK
<1>2. /\ UNCHANGED <<wire, resting, executed, owner, broker_order_id_counter>>
      /\ At(t, "answer") /\ call[t].op \in {"submit", "cancel"} /\ Goto(t, "cleanup")
      /\ \E status : told' = Tell(told, call[t].request.client, Confirmation(status, 0))
  BY DEF SubmitFailed, CancelAnswered, bookVars, maps
<1>3. /\ t = "pm" /\ ~Idle("pm") /\ call[t].id \in DOMAIN details
      /\ details[call[t].id].client = call[t].request.client
  BY <1>2, AtAnswer
<1>4. /\ Others(t) /\ call'[t].at = "cleanup" /\ call'[t].request = call[t].request
      /\ call'[t].op = call[t].op /\ call'[t].answer = call[t].answer
  BY <1>1, <1>2, GoesTo DEF At, Places
<1>5. /\ DOMAIN details' = DOMAIN details
      /\ \A id \in DOMAIN details : details'[id].client = details[id].client
  <2>1. CASE SubmitFailed(t)
    BY <2>1 DEF SubmitFailed, maps
  <2>2. CASE CancelAnswered(t)
    <3> DEFINE marked == [details EXCEPT ![call[t].id].status = "CANCELLED"]
    <3>1. DOMAIN marked = DOMAIN details /\ \A i \in DOMAIN details : marked[i].client = details[i].client
      BY <1>1, <1>3, StatusChanges
    <3>2. details' = marked
      BY <2>2 DEF CancelAnswered
    <3> HIDE DEF marked
    <3> QED
      BY <3>1, <3>2
  <2> QED
    BY <2>1, <2>2
<1>6. /\ DOMAIN told' = DOMAIN told /\ Counted(told')
      /\ \A c \in DOMAIN told : Reported(told', c) = Reported(told, c)
  <2>1. PICK status : told' = Tell(told, call[t].request.client, Confirmation(status, 0))
    BY <1>2
  <2>2. call[t].request.client \in DOMAIN told
    BY <1>1, <1>3 DEF Tracked
  <2>3. /\ DOMAIN told' = DOMAIN told /\ Counted(told')
        /\ Reported(told', call[t].request.client) = Reported(told, call[t].request.client) + 0
        /\ \A d \in DOMAIN told \ {call[t].request.client} : Reported(told', d) = Reported(told, d)
    BY <1>1, <2>1, <2>2, TellAdds
  <2>4. \A c \in DOMAIN told : Reported(told, c) \in Nat
    BY BackedNumbers, <1>1
  <2> QED
    BY <2>2, <2>3, <2>4
<1>7. /\ \A c \in DOMAIN told : Reported(told', c) \in Nat
      /\ \A id \in DOMAIN details :
           Reported(told', details[id].client) <= Reported(told, details[id].client) + AtHand(id)
  <2>1. /\ \A c \in DOMAIN told : Reported(told, c) \in Nat
        /\ \A id \in DOMAIN details : details[id].client \in DOMAIN told /\ AtHand(id) \in Nat
    BY BackedNumbers, <1>1
  <2> QED
    BY <1>6, <2>1
<1> QED
  BY <1>2, <1>3, <1>4, <1>5, <1>6, <1>7, ReportingKeepsExec

\* A submission: its fills are what the answer says was filled.
LEMMA SubmitAnsweredKeepsExec ==
  ASSUME SocketInv, ReportInv, WireOK, ExecInv, NEW t \in Threads, SubmitAnswered(t)
  PROVE  ExecInv'
<1> DEFINE id == call[t].id
           final == call[t].answer.final
           base == [details |-> [details EXCEPT ![id].status = "ACKNOWLEDGED"], told |-> told]
           after == FoldLeft(ApplyFill, base, call[t].answer.fills)
           known == id \in DOMAIN after.details
           forced == known /\ final = "FILLED" /\ after.details[id].status # "FILLED"
           killed == known /\ final = "REJECTED_BY_BOOK"
           mark(status) == [after.details EXCEPT ![id].status = status]
<1>1. /\ At(t, "answer") /\ call[t].op = "submit" /\ Ok(t)
      /\ UNCHANGED <<wire, resting, executed, owner, broker_order_id_counter>>
      /\ \/ /\ forced \/ killed
            /\ details' = mark(IF killed THEN "CANCELLED" ELSE "FILLED")
            /\ told' = IF killed
                         THEN Tell(after.told, call[t].request.client, Confirmation("CANCELLED", 0))
                         ELSE after.told
            /\ Goto(t, "cleanup")
         \/ /\ details' = IF known /\ after.details[id].status = "ACKNOWLEDGED"
                            THEN mark("WORKING") ELSE after.details
            /\ told' = after.told
            /\ Return(t)
  BY Zenon DEF SubmitAnswered, bookVars
<1>2. /\ t = "pm" /\ ~Idle("pm") /\ ~At("pm", "cleanup") /\ id \in DOMAIN details
      /\ details[id].client = call[t].request.client
      /\ \A i \in DOMAIN details : ~Finished(told, details[i].client)
      /\ MapsOK /\ CallersOK /\ Calls /\ OwnersOK /\ Counted(told)
      /\ Tracked(details, told) /\ Unfilled(details) /\ FinalLast(told)
  BY <1>1, AtAnswer, Zenon DEF ReportInv, MapsOK, ExecInv, OwnersOK
<1>3. Applied(base) /\ base.told = told
  <2>1. /\ Tracked([details EXCEPT ![id].status = "ACKNOWLEDGED"], told)
        /\ Unfilled([details EXCEPT ![id].status = "ACKNOWLEDGED"])
        /\ DOMAIN [details EXCEPT ![id].status = "ACKNOWLEDGED"] = DOMAIN details
        /\ \A i \in DOMAIN details :
             [details EXCEPT ![id].status = "ACKNOWLEDGED"][i].client = details[i].client
    BY <1>2, StatusChanges
  <2> QED
    BY <1>2, <2>1 DEF Applied
<1>4. FillsOK(call[t].answer) /\ call[t].answer # Null
  BY <1>1, Zenon DEF ReportInv, MessagesOK, Ok
<1> HIDE DEF base
<1>5. Applied(after)
  BY <1>3, <1>4, FillsApplied
<1>6. /\ DOMAIN after.told = DOMAIN told /\ Counted(after.told)
      /\ \A c \in DOMAIN told :
           /\ \A i \in DOMAIN details : details[i].client = c =>
                Reported(after.told, c) <= Reported(told, c) + FilledIn(call[t].answer, i)
           /\ (\A i \in DOMAIN details : details[i].client # c) =>
                Reported(after.told, c) = Reported(told, c)
  <2>1. \A c \in DOMAIN base.told :
          /\ DOMAIN after.told = DOMAIN base.told /\ Counted(after.told)
          /\ \A i \in DOMAIN details : details[i].client = c =>
               Reported(after.told, c) <= Reported(base.told, c) + FilledIn(call[t].answer, i)
          /\ (\A i \in DOMAIN details : details[i].client # c) =>
               Reported(after.told, c) = Reported(base.told, c)
    <3> HIDE DEF after
    <3>1. after = FoldLeft(ApplyFill, base, call[t].answer.fills) /\ Counted(base.told)
          /\ Tracked(details, base.told)
      BY <1>2, <1>3 DEF after
    <3> QED
      BY <1>3, <1>4, <3>1, FillsAdd
  <2>2. details[id].client \in DOMAIN told
    BY <1>2 DEF Tracked
  <2> HIDE DEF after, base
  <2> QED
    BY <1>3, <2>1, <2>2
<1>7. \A i : AtHand(i) = FilledIn(call[t].answer, i)
  BY <1>2, <1>4 DEF AtHand
<1> HIDE DEF after, final
<1>8. /\ Tracked(after.details, after.told) /\ DOMAIN after.details \subseteq DOMAIN details
      /\ \A i \in DOMAIN after.details : after.details[i].client = details[i].client
  BY <1>5 DEF Applied
<1>9. ASSUME known, NEW status, details' = mark(status)
      PROVE  /\ DOMAIN details' = DOMAIN after.details
             /\ \A i \in DOMAIN details' : details'[i].client = after.details[i].client
  <2>1. \A o, i : Tracked(o, after.told) /\ i \in DOMAIN o =>
                    /\ DOMAIN [o EXCEPT ![i].status = status] = DOMAIN o
                    /\ \A k \in DOMAIN o : [o EXCEPT ![i].status = status][k].client = o[k].client
    BY StatusChanges
  <2>2. /\ DOMAIN mark(status) = DOMAIN after.details
        /\ \A i \in DOMAIN after.details : mark(status)[i].client = after.details[i].client
    BY <1>8, <1>9, <2>1
  <2> HIDE DEF mark
  <2> QED
    BY <1>9, <2>2
<1>10. /\ DOMAIN details' \subseteq DOMAIN details
       /\ \A i \in DOMAIN details' : details'[i].client = details[i].client
  <2>1. \/ details' = after.details
        \/ known /\ \E status : details' = mark(status)
    BY <1>1
  <2> HIDE DEF mark, known
  <2>2. /\ DOMAIN details' = DOMAIN after.details
        /\ \A i \in DOMAIN details' : details'[i].client = after.details[i].client
    BY <1>9, <2>1
  <2> QED
    BY <1>8, <2>2
<1>11. /\ DOMAIN told' = DOMAIN told /\ Counted(told')
       /\ \A c \in DOMAIN told : Reported(told', c) = Reported(after.told, c)
       /\ \A c \in DOMAIN told : Reported(after.told, c) \in Nat
  <2>1. \A c \in DOMAIN told : Reported(after.told, c) \in Nat
    BY <1>6, <1>8, ReportedIsNat
  <2>2. CASE told' = after.told
    BY <1>6, <2>1, <2>2
  <2>3. CASE told' = Tell(after.told, call[t].request.client, Confirmation("CANCELLED", 0))
    <3>1. call[t].request.client \in DOMAIN after.told
      BY <1>2, <1>6 DEF Tracked
    <3>2. /\ DOMAIN told' = DOMAIN after.told /\ Counted(told')
          /\ Reported(told', call[t].request.client) = Reported(after.told, call[t].request.client) + 0
          /\ \A d \in DOMAIN after.told \ {call[t].request.client} :
               Reported(told', d) = Reported(after.told, d)
      <4>1. Counted(after.told) /\ Tracked(after.details, after.told) /\ 0 \in Nat
        BY <1>6, <1>8
      <4> QED
        BY <2>3, <3>1, <4>1, TellAdds
    <3> QED
      BY <1>6, <2>1, <3>1, <3>2
  <2> QED
    BY <1>1, <2>2, <2>3
<1>12. \/ call'["pm"] = NoCall
       \/ /\ call'["pm"].at = "cleanup" /\ call'["pm"].request = call["pm"].request
          /\ call'["pm"].op = call["pm"].op /\ call'["pm"].answer = call["pm"].answer
  BY <1>1, <1>2, GoesTo, Returns DEF At, Places
<1>13. Others("pm")
  BY <1>1, <1>2, GoesTo, Returns DEF At, Places
<1>14. /\ \A i \in DOMAIN details :
            Reported(told', details[i].client) <= Reported(told, details[i].client) + AtHand(i)
       /\ \A c \in DOMAIN told :
            (\A i \in DOMAIN details : details[i].client # c) => Reported(told', c) = Reported(told, c)
  <2>1. \A i \in DOMAIN details : details[i].client \in DOMAIN told
    BY <1>2 DEF Tracked
  <2> QED
    BY <1>6, <1>7, <1>11, <2>1
<1> QED
  BY <1>1, <1>2, <1>10, <1>11, <1>12, <1>13, <1>14, ReportingKeepsExec

-----------------------------------------------------------------------------
(* Calls that begin *)

\* A call that begins has no answer.
LEMMA BeginsUnanswered ==
  ASSUME Calls, NEW t \in Threads, NEW op, NEW id, NEW request, Begin(t, op, id, request)
  PROVE  /\ Others(t) /\ call'[t].request = request /\ call'[t].answer = Null
<1>1. PICK Seen : call \in [Threads -> CallOf(Seen)]
  BY DEF Calls
<1> QED
  BY <1>1, BeginCall DEF Begin, Others

\* A cancel and a question about the market report nothing and add no order.
LEMMA AskKeepsExec ==
  ASSUME SocketInv, ReportInv, WireOK, ExecInv,
         \/ \E id : Cancel(id)
         \/ "api" \in Threads /\ GetMarketDataSnapshot
  PROVE  ExecInv'
<1>1. /\ OwnersOK /\ KnownOK /\ Backed /\ MessagesOK /\ Calls /\ Counted(told)
      /\ broker_order_id_counter \in Nat /\ Tracked(details, told) /\ "pm" \in Threads
  BY BrokerAssumption DEF ExecInv, ReportInv, MapsOK, OwnersOK
<1>2. UNCHANGED <<wire, resting, executed, owner, told, broker_order_id_counter>>
  BY DEF Cancel, GetMarketDataSnapshot, bookVars, maps, history
<1>3. \E t \in Threads : /\ Idle(t) /\ Others(t) /\ call'[t].answer = Null
                         /\ call'[t].request.command # "ADD_ORDER"
  <2>1. CASE \E id : Cancel(id)
    <3>0. PICK id : Cancel(id)
      BY <2>1
    <3> DEFINE request == [kind |-> "request", command |-> "CANCEL_ORDER", id |-> id, order |-> Null,
                           client |-> details[id].client]
    <3>1. Begin("pm", "cancel", id, request) /\ Idle("pm")
      BY <3>0 DEF Cancel, MayCall
    <3>2. request.command # "ADD_ORDER"
      OBVIOUS
    <3> HIDE DEF request
    <3> QED
      BY <1>1, <3>1, <3>2, BeginsUnanswered
  <2>2. CASE "api" \in Threads /\ GetMarketDataSnapshot
    <3> DEFINE request == [kind |-> "request", command |-> "GET_BOOK_INFO", id |-> Null,
                           order |-> Null, client |-> Null]
    <3>1. Begin("api", "info", Null, request) /\ Idle("api")
      BY <2>2 DEF GetMarketDataSnapshot, MayCall
    <3>2. request.command # "ADD_ORDER"
      OBVIOUS
    <3> HIDE DEF request
    <3> QED
      BY <1>1, <2>2, <3>1, <3>2, BeginsUnanswered
  <2> QED
    BY <2>1, <2>2
<1>4. /\ DOMAIN details' = DOMAIN details
      /\ \A i \in DOMAIN details : details'[i].client = details[i].client
  <2>1. CASE \E id : Cancel(id)
    <3>0. PICK id : Cancel(id)
      BY <2>1
    <3> DEFINE marked == [details EXCEPT ![id].status = "PENDING_CANCEL"]
    <3>1. id \in DOMAIN details /\ details' = marked
      BY <3>0 DEF Cancel
    <3>2. DOMAIN marked = DOMAIN details /\ \A i \in DOMAIN details : marked[i].client = details[i].client
      BY <1>1, <3>1, StatusChanges
    <3> HIDE DEF marked
    <3> QED
      BY <3>1, <3>2
  <2>2. CASE GetMarketDataSnapshot
    BY <2>2 DEF GetMarketDataSnapshot, maps
  <2> QED
    BY <2>1, <2>2
<1>5. OrdersStay
  BY <1>1, <1>2, <1>4 DEF OrdersStay
<1>6. OwnersOK'
  BY <1>1, <1>2, <1>5, OwnersStay DEF OwnersOK
<1>7. Unanswered
  BY <1>1, <1>2 DEF MessagesOK, Unanswered
<1>8. KnownOK'
  <2>1. ASSUME NEW u \in Threads
        PROVE  /\ call'[u].at # "idle" /\ call'[u].op # "stop" =>
                    \/ ~Idle(u) /\ call[u].op # "stop" /\ call'[u].request = call[u].request
                    \/ AddsKnown(call'[u].request, details', broker_order_id_counter')
               /\ call'[u].answer \in {call[u].answer, Null}
    BY <1>3 DEF Others, Idle, AddsKnown
  <2> QED
    BY <1>1, <1>5, <1>7, <2>1, KnownGoesOn
<1>9. \/ call'["pm"].answer = Null \/ call'["pm"].at = "cleanup"
      \/ call'["pm"].answer = call["pm"].answer /\ call["pm"].at # "cleanup"
  BY <1>1, <1>3 DEF Others
<1>10. Backed'
  BY <1>1, <1>2, <1>4, <1>7, <1>9, AnsweredBefore, QuietKeepsBacked
<1> QED
  BY <1>6, <1>8, <1>10 DEF ExecInv

\* A stop asks for nothing.
LEMMA StopKeepsExec ==
  ASSUME SocketInv, ReportInv, WireOK, ExecInv, NEW t \in Threads, Stop(t) PROVE ExecInv'
<1>1. /\ OwnersOK /\ KnownOK /\ Backed /\ MessagesOK /\ Calls /\ Counted(told)
      /\ broker_order_id_counter \in Nat
  BY DEF ExecInv, ReportInv, MapsOK, OwnersOK
<1>2. UNCHANGED <<wire, resting, executed, owner, told, details, broker_order_id_counter>>
  BY DEF Stop, bookVars, maps, history
<1>3. Others(t) /\ call'[t].op = "stop" /\ call'[t].answer = Null
  BY <1>1, StopShape DEF Moves
<1>4. OrdersStay
  BY <1>1, <1>2 DEF OrdersStay
<1>5. OwnersOK'
  BY <1>1, <1>2, <1>4, OwnersStay DEF OwnersOK
<1>6. Unanswered
  BY <1>1, <1>2 DEF MessagesOK, Unanswered
<1>7. KnownOK'
  BY <1>1, <1>3, <1>4, <1>6, KnownGoesOn DEF Others, Idle
<1>8. call'["pm"].answer = Null \/ call'["pm"] = call["pm"]
  BY <1>3, BrokerAssumption DEF Others
<1>9. \/ call'["pm"].answer = Null \/ call'["pm"].at = "cleanup"
      \/ call'["pm"].answer = call["pm"].answer /\ call["pm"].at # "cleanup"
  BY <1>8
<1>10. Backed'
  BY <1>1, <1>2, <1>6, <1>9, AnsweredBefore, QuietKeepsBacked
<1> QED
  BY <1>5, <1>7, <1>10 DEF ExecInv

\* Nobody was told of shares who was told nothing yet, or that the order was
\* rejected.
LEMMA NothingReported ==
  ASSUME NEW reports, NEW c, NEW n \in {0, 1}, DOMAIN reports[c] = 1 .. n,
         \A i \in 1 .. n : reports[c][i].filled_quantity = 0
  PROVE  Reported(reports, c) = 0
<1>1. PICK h : /\ h[0] = 0 /\ \A i \in 1 .. n : h[i] = PlusReported(h[i - 1], reports[c][i])
               /\ h[n] = Count!Folded(0, reports[c])
  BY Count!FoldInSteps
<1>2. CASE n = 0
  BY <1>1, <1>2, ReportedFold
<1>3. CASE n = 1
  <2>1. 1 \in 1 .. n /\ 1 - 1 = 0
    BY <1>3
  <2>2. h[1] = 0 + 0
    BY <1>1, <2>1 DEF PlusReported
  <2> QED
    BY <1>1, <1>3, <2>2, ReportedFold
<1> QED
  BY <1>2, <1>3

\* What it takes for a client to be known, who was told of no shares.
LEMMA OneMoreClient ==
  ASSUME NEW c, c \notin DOMAIN told, NEW said, told' = Put(told, c, said), Counted(told),
         NEW n \in {0, 1}, DOMAIN said = 1 .. n, \A i \in 1 .. n : said[i].filled_quantity = 0
  PROVE  /\ DOMAIN told' = DOMAIN told \cup {c} /\ Counted(told') /\ Reported(told', c) = 0
         /\ \A d \in DOMAIN told : Reported(told', d) = Reported(told, d)
<1>1. /\ DOMAIN told' = DOMAIN told \cup {c} /\ told'[c] = said
      /\ \A d \in DOMAIN told : told'[d] = told[d]
  BY DEF Put
<1>2. Reported(told', c) = 0
  <2>1. \A reports : reports[c] = said => Reported(reports, c) = 0
    BY NothingReported
  <2> QED
    BY <1>1, <2>1
<1>3. \A d \in DOMAIN told : Reported(told', d) = Reported(told, d)
  BY <1>1 DEF Reported
<1>4. Counted(told')
  BY <1>1 DEF Counted
<1> QED
  BY <1>1, <1>2, <1>3, <1>4

\* A new order has an id that no message is about.
LEMMA SubmitKeepsExec ==
  ASSUME SocketInv, ReportInv, WireOK, ExecInv,
         NEW c \in Clients, NEW type \in OrderTypes, NEW side \in Book!Sides, NEW price \in Prices,
         NEW quantity \in Quantities, Submit(c, type, side, price, quantity)
  PROVE  ExecInv'
<1> DEFINE order == [id |-> NextId, type |-> type, side |-> side, price |-> price,
                     initial |-> quantity, remaining |-> quantity]
           request == [kind |-> "request", command |-> "ADD_ORDER", id |-> NextId, order |-> order,
                       client |-> c]
           new == [client |-> c, quantity |-> quantity, filled_quantity |-> 0,
                   status |-> "PENDING_ACK"]
<1>1. /\ Idle("pm") /\ c \notin DOMAIN told /\ broker_order_id_counter' = NextId
      /\ details' = Put(details, NextId, new) /\ told' = Put(told, c, << >>)
      /\ Begin("pm", "submit", NextId, request) /\ UNCHANGED <<wire, resting, executed, owner>>
  BY DEF Submit, bookVars, MayCall
<1>2. /\ "pm" \in Threads /\ Calls /\ OwnersOK /\ KnownOK /\ Backed /\ MessagesOK
      /\ broker_order_id_counter \in Nat /\ DOMAIN details \subseteq 1 .. broker_order_id_counter
      /\ Tracked(details, told) /\ Counted(told) /\ IsFiniteSet(Unread)
  BY BrokerAssumption, UnreadIsFinite DEF ExecInv, ReportInv, MapsOK, OwnersOK
<1>3. Others("pm") /\ call'["pm"].request = request /\ call'["pm"].answer = Null
  BY <1>1, <1>2, BeginsUnanswered
<1>4. /\ NextId = broker_order_id_counter + 1 /\ NextId \in 1 .. NextId
      /\ NextId \notin 1 .. broker_order_id_counter /\ NextId \in Nat
  BY <1>2 DEF NextId
<1>5. /\ DOMAIN details' = DOMAIN details \cup {NextId} /\ details'[NextId].client = c
      /\ \A id \in DOMAIN details : details'[id] = details[id]
  BY <1>1, <1>2, <1>4 DEF Put
<1>6. /\ DOMAIN told' = DOMAIN told \cup {c} /\ Counted(told') /\ Reported(told', c) = 0
      /\ \A d \in DOMAIN told : Reported(told', d) = Reported(told, d)
  <2>1. \E n \in {0, 1} : DOMAIN << >> = 1 .. n /\ \A i \in 1 .. n : (<< >>)[i].filled_quantity = 0
    <3>1. DOMAIN << >> = 1 .. 0 /\ 1 .. 0 = {}
      OBVIOUS
    <3> QED
      BY <3>1
  <2> QED
    BY <1>1, <1>2, <2>1, OneMoreClient
<1>7. AddsKnown(request, details', broker_order_id_counter')
  <2>1. order \in [id : Nat, type : OrderTypes, side : Book!Sides, price : Prices,
                   initial : Nat, remaining : Nat]
    BY <1>4, BrokerAssumption
  <2> QED
    BY <1>1, <1>4, <1>5, <2>1 DEF AddsKnown
<1> HIDE DEF request, new
<1>8. OrdersStay
  BY <1>1, <1>2, <1>4, <1>5 DEF OrdersStay
<1>9. OwnersOK'
  BY <1>1, <1>2, <1>6, <1>8, OwnersStay DEF OwnersOK
<1>10. Unanswered
  BY <1>1, <1>2 DEF MessagesOK, Unanswered
<1>11. KnownOK'
  <2>1. ASSUME NEW u \in Threads
        PROVE  /\ call'[u].at # "idle" /\ call'[u].op # "stop" =>
                    \/ ~Idle(u) /\ call[u].op # "stop" /\ call'[u].request = call[u].request
                    \/ AddsKnown(call'[u].request, details', broker_order_id_counter')
               /\ call'[u].answer \in {call[u].answer, Null}
    BY <1>3, <1>7 DEF Others, Idle
  <2> QED
    BY <1>2, <1>8, <1>10, <2>1, KnownGoesOn
<1>12. \A id : OnTheWay(id)' = OnTheWay(id) /\ AtHand(id)' = 0
  BY <1>1, <1>3 DEF OnTheWay, Unread, Answered, AtHand
<1>13. \A d \in DOMAIN told' : executed'[d] \in Nat /\ Reported(told', d) <= executed'[d]
  BY <1>1, <1>2, <1>6 DEF Backed, OwnersOK
<1>14. ASSUME NEW id \in DOMAIN details'
       PROVE  Reported(told', details'[id].client) + OnTheWay(id)' + AtHand(id)' <= executed'[details'[id].client]
  <2>1. CASE id = NextId
    <3>1. OnTheWay(id) = 0
      <4>1. AnswersOK /\ NextId \notin 1 .. broker_order_id_counter
        BY <1>2, <1>4 DEF MessagesOK, AnswersOK
      <4> QED
        BY <1>2, <1>4, <2>1, <4>1, NothingOnTheWay DEF KnownOK, IdsKnown
    <3> QED
      BY <1>5, <1>6, <1>12, <1>13, <2>1, <3>1
  <2>2. CASE id \in DOMAIN details
    <3> DEFINE d == details[id].client
    <3>1. Reported(told, d) + OnTheWay(id) + AtHand(id) <= executed[d]
      BY <1>2, <2>2 DEF Backed
    <3>2. /\ d \in DOMAIN told /\ Reported(told, d) \in Nat /\ executed[d] \in Nat
          /\ OnTheWay(id) \in Nat /\ AtHand(id) \in Nat
      BY <1>2, <2>2, BackedNumbers
    <3>3. Reported(told', d) = Reported(told, d) /\ details'[id].client = d /\ executed' = executed
      BY <1>1, <1>5, <1>6, <2>2, <3>2
    <3> HIDE DEF d
    <3>4. Reported(told', d) + OnTheWay(id)' + AtHand(id)' <= executed[d]
      BY <1>12, <3>1, <3>2, <3>3
    <3> QED
      BY <3>3, <3>4
  <2> QED
    BY <1>5, <2>1, <2>2
<1>15. Backed'
  BY <1>13, <1>14 DEF Backed
<1> QED
  BY <1>9, <1>11, <1>15 DEF ExecInv

\* An order without a price is never in the maps.
LEMMA SubmitUnpricedKeepsExec ==
  ASSUME SocketInv, ReportInv, WireOK, ExecInv, NEW c \in Clients, SubmitUnpriced(c)
  PROVE  ExecInv'
<1> DEFINE said == <<Confirmation("REJECTED", 0)>>
<1>1. /\ c \notin DOMAIN told /\ told' = Put(told, c, said)
      /\ UNCHANGED <<wire, resting, executed, owner, call, details, broker_order_id_counter>>
  BY DEF SubmitUnpriced, bookVars, maps
<1>2. /\ OwnersOK /\ KnownOK /\ Backed /\ MessagesOK
      /\ broker_order_id_counter \in Nat /\ Tracked(details, told) /\ Counted(told)
  BY DEF ExecInv, ReportInv, MapsOK, OwnersOK
<1>3. DOMAIN said = 1 .. 1 /\ \A i \in 1 .. 1 : said[i].filled_quantity = 0
  BY DEF Confirmation
<1> HIDE DEF said
<1>4. /\ DOMAIN told' = DOMAIN told \cup {c} /\ Counted(told') /\ Reported(told', c) = 0
      /\ \A d \in DOMAIN told : Reported(told', d) = Reported(told, d)
  <2>1. 1 \in {0, 1}
    OBVIOUS
  <2> QED
    BY <1>1, <1>2, <1>3, <2>1, OneMoreClient
<1>5. OrdersStay
  BY <1>1, <1>2 DEF OrdersStay
<1>6. OwnersOK'
  BY <1>1, <1>2, <1>4, <1>5, OwnersStay DEF OwnersOK
<1>7. KnownOK'
  <2>1. Unanswered
    BY <1>1, <1>2 DEF MessagesOK, Unanswered
  <2> QED
    BY <1>1, <1>2, <1>5, <2>1, KnownGoesOn DEF Idle
<1>8. \A id : OnTheWay(id)' = OnTheWay(id) /\ AtHand(id)' = AtHand(id)
  BY <1>1 DEF OnTheWay, Unread, Answered, AtHand, At
<1>9. Backed'
  <2>1. \A d \in DOMAIN told' : Reported(told', d) <= executed'[d]
    BY <1>1, <1>2, <1>4 DEF Backed, OwnersOK
  <2>2. ASSUME NEW id \in DOMAIN details
        PROVE  Reported(told', details[id].client) + OnTheWay(id)' + AtHand(id)' <= executed[details[id].client]
    <3>1. details[id].client \in DOMAIN told
      BY <1>2 DEF Tracked
    <3> QED
      BY <1>2, <1>4, <1>8, <3>1 DEF Backed
  <2> QED
    BY <1>1, <2>1, <2>2 DEF Backed
<1> QED
  BY <1>6, <1>7, <1>9 DEF ExecInv

-----------------------------------------------------------------------------
(* A turn of the server *)

\* What the book has executed when an answer leaves the server: the orders it
\* names have owners, who are credited with what it says was filled.
Served(answer) ==
  /\ DOMAIN resting' \subseteq DOMAIN owner' /\ DOMAIN owner' \subseteq 1 .. broker_order_id_counter
  /\ \A id \in DOMAIN owner' :
       owner'[id] \in Clients /\ (id \in DOMAIN details => details[id].client = owner'[id])
  /\ executed' \in [Clients -> Nat] /\ \A c \in Clients : executed[c] <= executed'[c]
  /\ \A n \in DOMAIN answer.fills : answer.fills[n].id \in DOMAIN owner'
  /\ \A id \in DOMAIN owner' : executed[owner'[id]] + FilledIn(answer, id) <= executed'[owner'[id]]

\* An order is added.
LEMMA AddServed ==
  ASSUME MessagesOK, OwnersOK, KnownOK, NEW s \in Sockets, ServeRequest(s), Requested(s),
         wire[s].command = "ADD_ORDER", Book!Add(wire[s].order)
  PROVE  Served(Answer(reply'))
<1> DEFINE o == wire[s].order
           trades == reply'.trades
           k == Len(reply'.trades)
<1>1. /\ wire[s].id = o.id /\ o.id \in 1 .. broker_order_id_counter /\ wire[s].client \in Clients
      /\ o.id \in DOMAIN details => details[o.id].client = wire[s].client
      /\ o \in [id : Nat, type : OrderTypes, side : Book!Sides, price : Prices,
                initial : Nat, remaining : Nat]
  BY DEF KnownOK, AddsKnown
<1>2. PICK Seen : o \in AnyOrder(Seen)
  BY DEF MessagesOK, RequestOK
<1>3. /\ reply'.call = "AddOrder"
      /\ \E rest \in Int : reply'.order = [o EXCEPT !.remaining = rest]
      /\ DOMAIN resting' \subseteq DOMAIN resting \cup {o.id}
      /\ k \in Nat /\ DOMAIN trades = 1 .. k
      /\ \A n \in 1 .. k :
           /\ trades[n].bid.quantity \in Nat /\ trades[n].ask.quantity \in Nat
           /\ {trades[n].bid.id, trades[n].ask.id} \subseteq DOMAIN resting \cup {o.id}
  <2>1. BookOK /\ Book!Add(o)
    BY DEF MessagesOK
  <2> HIDE DEF o
  <2> QED
    BY <1>2, <2>1, AddAnswers
<1>4. reply'.order # Null
  <2>1. PICK rest \in Int : reply'.order = [o EXCEPT !.remaining = rest]
    BY <1>3
  <2>2. reply'.order \in [id : Nat, type : OrderTypes, side : Book!Sides, price : Prices,
                          initial : Nat, remaining : Int]
    BY <1>1, <2>1
  <2> QED
    BY <2>2, BrokerAssumption
<1>5. owner' = Put(owner, o.id, wire[s].client)
  BY <1>1, <1>4, Zenon DEF ServeRequest
<1>6. executed' = FoldLeft(Executing, executed, trades)
  BY <1>4, Zenon DEF ServeRequest, Executing, Credited, FoldLeft, MapThenFoldSet, Max
<1>7. Answer(reply').fills = Fills(trades)
  BY <1>3, <1>4 DEF Answer
<1>8. /\ DOMAIN owner' = DOMAIN owner \cup {o.id} /\ owner'[o.id] = wire[s].client
      /\ \A id \in DOMAIN owner \ {o.id} : owner'[id] = owner[id]
  BY <1>5 DEF Put
<1> HIDE DEF o, trades, k
<1>9. /\ DOMAIN resting' \subseteq DOMAIN owner' /\ DOMAIN owner' \subseteq 1 .. broker_order_id_counter
      /\ DOMAIN resting \cup {o.id} \subseteq DOMAIN owner'
      /\ \A id \in DOMAIN owner' :
           owner'[id] \in Clients /\ (id \in DOMAIN details => details[id].client = owner'[id])
  BY <1>1, <1>3, <1>8 DEF OwnersOK
<1>10. \A n \in 1 .. k :
         /\ trades[n].bid.quantity \in Nat /\ trades[n].ask.quantity \in Nat
         /\ owner'[trades[n].bid.id] \in Clients
         /\ owner'[trades[n].ask.id] \in Clients
  BY <1>3, <1>9
<1>11. /\ executed' \in [Clients -> Nat] /\ \A c \in Clients : executed[c] <= executed'[c]
       /\ \A id : owner'[id] \in Clients =>
            executed[owner'[id]] + FilledIn(Answer(reply'), id) <= executed'[owner'[id]]
  <2>1. executed \in [Clients -> Nat] /\ Len(trades) = k
    BY DEF OwnersOK, trades, k
  <2> QED
    BY <1>3, <1>6, <1>7, <1>10, <2>1, TradesExecute
<1>12. \A n \in DOMAIN Answer(reply').fills : Answer(reply').fills[n].id \in DOMAIN owner'
  <2>1. Len(trades) \in Nat
        /\ \A n \in 1 .. Len(trades) : {trades[n].bid.id, trades[n].ask.id} \subseteq DOMAIN owner'
    BY <1>3, <1>9 DEF trades, k
  <2> QED
    BY <1>7, <2>1, FillsName
<1> QED
  BY <1>9, <1>11, <1>12 DEF Served

\* Nothing trades.
LEMMA OtherServed ==
  ASSUME MessagesOK, OwnersOK, NEW s \in Sockets, ServeRequest(s), NEW id,
         \/ wire[s].command = "ADD_ORDER" /\ Book!AddDuplicate(id)
         \/ wire[s].command = "CANCEL_ORDER" /\ Book!Cancel(id)
         \/ wire[s].command = "GET_BOOK_INFO" /\ Book!Report
  PROVE  Served(Answer(reply'))
<1>1. ~(wire[s].command = "ADD_ORDER" /\ reply'.order # Null)
  BY DEF Book!AddDuplicate
<1>2. owner' = owner /\ executed' = executed
  BY <1>1, Zenon DEF ServeRequest
<1>3. Answer(reply').fills = << >>
  BY DEF Book!AddDuplicate, Book!Cancel, Book!Report, Answer
<1>4. DOMAIN resting' \subseteq DOMAIN resting
  <2>1. CASE Book!Cancel(id)
    <3>1. resting' = [i \in DOMAIN resting \ {id} |-> resting[i]]
      BY <2>1 DEF Book!Cancel, Book!Restrict
    <3> QED
      BY <3>1
  <2>2. CASE Book!AddDuplicate(id) \/ Book!Report
    BY <2>2 DEF Book!AddDuplicate, Book!Report
  <2> QED
    BY <2>1, <2>2
<1>5. /\ \A n \in DOMAIN Answer(reply').fills : FALSE
      /\ FillsOK(Answer(reply'))
  <2>1. DOMAIN << >> = 1 .. 0 /\ 1 .. 0 = {}
    OBVIOUS
  <2> QED
    BY <1>3, <2>1 DEF FillsOK
<1>6. \A i : FilledIn(Answer(reply'), i) = 0
  BY <1>5, NothingFilled
<1> QED
  BY <1>2, <1>4, <1>5, <1>6 DEF Served, OwnersOK

\* A turn of the server's loop: what it executes it also says, on an answer
\* that may get lost.
LEMMA ServeRequestKeepsExec ==
  ASSUME SocketInv, ReportInv, WireOK, ExecInv, NEW s \in Sockets, ServeRequest(s)
  PROVE  ExecInv'
<1> DEFINE answer == Answer(reply')
<1>1. /\ OwnersOK /\ KnownOK /\ Backed /\ MessagesOK /\ IsFiniteSet(Unread)
      /\ UNCHANGED <<details, broker_order_id_counter, told, call>>
      /\ Requested(s) /\ RequestOK(wire[s])
      /\ wire' = [wire EXCEPT ![s] = IF state[s] # "closed" THEN answer ELSE Null]
  BY UnreadIsFinite, Zenon DEF ExecInv, ReportInv, ServeRequest, Serve, MessagesOK, maps
<1>2. FillsOK(answer) /\ answer.kind = "answer"
  BY <1>1, ServeKeepsBook, Zenon DEF ServeRequest, MessagesOK
<1>3. Served(answer)
  <2>1. \/ /\ wire[s].command = "ADD_ORDER"
           /\ Book!Add(wire[s].order) \/ Book!AddDuplicate(wire[s].order.id)
        \/ wire[s].command = "CANCEL_ORDER" /\ Book!Cancel(wire[s].id)
        \/ wire[s].command = "GET_BOOK_INFO" /\ Book!Report
    BY Zenon DEF ServeRequest, Serve
  <2> QED
    BY <1>1, <2>1, AddServed, OtherServed
<1> HIDE DEF answer
<1>4. /\ wire'[s] = Null \/ wire'[s] = answer
      /\ \A w \in Sockets \ {s} : wire'[w] = wire[w]
      /\ ~Answered(s)
  BY <1>1 DEF MessagesOK, Requested, Answered
<1>5. OwnersOK'
  BY <1>1, <1>3 DEF OwnersOK, Served, Counted
<1>6. IdsKnown(answer, broker_order_id_counter)
  BY <1>3 DEF Served, IdsKnown
<1>7. KnownOK'
  <2>1. \A w \in Sockets : wire'[w] # Null /\ wire'[w].kind = "request"
                             => AddsKnown(wire'[w], details, broker_order_id_counter)
    BY <1>1, <1>2, <1>4 DEF KnownOK, Requested
  <2>2. \A w \in Sockets : wire'[w] # Null /\ wire'[w].kind = "answer"
                             => IdsKnown(wire'[w], broker_order_id_counter)
    BY <1>1, <1>4, <1>6 DEF KnownOK, Answered
  <2> QED
    BY <1>1, <2>1, <2>2 DEF KnownOK, Requested, Answered, Idle, AddsKnown, IdsKnown
<1>8. ASSUME NEW id \in DOMAIN details
      PROVE  Reported(told, details[id].client) + OnTheWay(id)' + AtHand(id)' <= executed'[details[id].client]
  <2> DEFINE c == details[id].client
             filled == FilledIn(answer, id)
  <2>1. Reported(told, c) + OnTheWay(id) + AtHand(id) <= executed[c]
    BY <1>1 DEF Backed
  <2>2. /\ c \in Clients /\ Reported(told, c) \in Nat /\ executed[c] \in Nat /\ executed'[c] \in Nat
        /\ OnTheWay(id) \in Nat /\ AtHand(id) \in Nat
    BY <1>1, <1>3, BackedNumbers DEF OwnersOK, Served
  <2>3. OnTheWay(id)' \in Nat /\ OnTheWay(id)' <= OnTheWay(id) + filled
    BY <1>1, <1>2, <1>4, MoreOnTheWay DEF MessagesOK, AnswersOK
  <2>4. AtHand(id)' = AtHand(id)
    BY <1>1 DEF AtHand, At
  <2>5. filled \in Nat /\ executed[c] + filled <= executed'[c]
    <3>1. CASE id \in DOMAIN owner'
      BY <1>2, <1>3, <3>1, FilledInIsNat DEF Served
    <3>2. CASE id \notin DOMAIN owner'
      <4>1. filled = 0
        BY <1>2, <1>3, <3>2, NothingFilled DEF Served
      <4> QED
        BY <1>3, <2>2, <4>1 DEF Served
    <3> QED
      BY <3>1, <3>2
  <2> HIDE DEF c, filled
  <2>6. Reported(told, c) + OnTheWay(id)' + AtHand(id)' <= executed'[c]
    BY <2>1, <2>2, <2>3, <2>4, <2>5
  <2> QED
    BY <2>6 DEF c
<1>9. \A c \in DOMAIN told : Reported(told, c) <= executed'[c]
  <2> SUFFICES ASSUME NEW c \in DOMAIN told PROVE Reported(told, c) <= executed'[c]
    OBVIOUS
  <2>1. /\ Reported(told, c) <= executed[c] /\ executed[c] <= executed'[c]
        /\ executed[c] \in Nat /\ executed'[c] \in Nat
    BY <1>1, <1>3 DEF Backed, OwnersOK, Served
  <2>2. Reported(told, c) \in Nat
    BY <1>1, BackedNumbers
  <2> QED
    BY <2>1, <2>2
<1>10. Backed'
  BY <1>1, <1>8, <1>9 DEF Backed
<1> QED
  BY <1>5, <1>7, <1>10 DEF ExecInv

-----------------------------------------------------------------------------
(* Every step *)

\* What is left of the bounds: the client process is not restarted.
NoRestarts == budget \in [calls : Int, timeouts : Int, crashes : Int, restarts : {0}]

\* Every step keeps it.
LEMMA NextKeepsNoRestarts ==
  ASSUME NoRestarts, [Next]_vars PROVE NoRestarts'
<1>1. /\ budget.calls \in Int /\ budget.timeouts \in Int /\ budget.crashes \in Int
      /\ budget.restarts = 0
      /\ budget \in [calls : Int, timeouts : Int, crashes : Int, restarts : {0}]
  BY DEF NoRestarts
<1>2. CASE budget' = budget
  BY <1>2 DEF NoRestarts
<1>3. CASE budget' = [budget EXCEPT !.calls = @ - 1]
  <2>1. budget.calls - 1 \in Int
    BY <1>1
  <2> QED
    BY <1>1, <1>3, <2>1 DEF NoRestarts
<1>4. CASE budget' = [budget EXCEPT !.timeouts = @ - 1]
  <2>1. budget.timeouts - 1 \in Int
    BY <1>1
  <2> QED
    BY <1>1, <1>4, <2>1 DEF NoRestarts
<1>5. CASE budget' = [budget EXCEPT !.crashes = @ - 1]
  <2>1. budget.crashes - 1 \in Int
    BY <1>1
  <2> QED
    BY <1>1, <1>5, <2>1 DEF NoRestarts
<1>6. CASE Calling
  BY <1>2, <1>3, <1>6 DEF Calling, Submit, SubmitUnpriced, Cancel, GetMarketDataSnapshot
<1>7. ASSUME NEW t \in Threads, Step(t) \/ Stopped(t) PROVE NoRestarts'
  <2>1. CASE Requests(t)
    <3>1. Looks(t) => budget' = budget
      BY LookGoes
    <3>2. budget' = budget \/ budget' = [budget EXCEPT !.timeouts = @ - 1]
      BY <2>1, <3>1, Zenon DEF Requests, Open, Send, NoSocket, Recv, Receive, ReceiveBroken, Timeout,
                               CloseSocket, Forget, ReturnNone
    <3> QED
      BY <1>2, <1>4, <3>2
  <2>2. CASE Answers(t) \/ Stopped(t)
    BY <1>2, <2>2, AnswersLeave
  <2> QED
    BY <1>7, <2>1, <2>2, StepIs
<1>8. CASE (\E t \in Threads : Stop(t)) \/ (\E s \in Sockets : ServeRequest(s) \/ Linger(s)) \/ UNCHANGED vars
  BY <1>2, <1>8, Zenon DEF Stop, ServeRequest, Linger, vars
<1>9. CASE ServerRestarts
  BY <1>5, <1>9 DEF ServerRestarts
<1>10. ~ClientRestarts
  BY <1>1 DEF ClientRestarts
<1> QED
  BY <1>6, <1>7, <1>8, <1>9, <1>10 DEF Next

\* Nothing is executed in a request's step.
LEMMA RequestExecutes ==
  ASSUME NEW t, Requests(t) PROVE UNCHANGED <<executed, owner>>
<1>1. CASE Looks(t)
  BY <1>1, LookGoes DEF history
<1>2. CASE ~Looks(t)
  BY <1>2, Zenon DEF Requests, Open, Send, NoSocket, Recv, Receive, ReceiveBroken, Timeout, CloseSocket,
                     Forget, ReturnNone, history
<1> QED
  BY <1>1, <1>2

\* Every step but a restart of the client keeps the invariant.
LEMMA NextKeepsExec ==
  ASSUME SocketInv, ReportInv, WireOK, NoRestarts, ExecInv, [Next]_vars PROVE ExecInv'
<1>0. Calls /\ SocketsOK /\ MessagesOK /\ CallersOK
  BY DEF SocketInv, ReportInv
<1>1. CASE Calling
  BY <1>1, SubmitKeepsExec, SubmitUnpricedKeepsExec, AskKeepsExec DEF Calling
<1>2. ASSUME NEW t \in Threads, Step(t) \/ Stopped(t) PROVE ExecInv'
  <2>1. CASE Requests(t)
    <3>1. UNCHANGED <<executed, owner>>
      BY <2>1, RequestExecutes
    <3> QED
      BY <1>0, <2>1, <3>1, RequestGoesOn, RequestKeepsExec
  <2>2. CASE Answers(t) \/ Stopped(t)
    BY <2>2, FinalReportKeepsExec, SubmitAnsweredKeepsExec, QuietAnswerKeepsExec DEF Answers
  <2> QED
    BY <1>2, <2>1, <2>2, StepIs
<1>3. ASSUME NEW t \in Threads, Stop(t) PROVE ExecInv'
  BY <1>3, StopKeepsExec
<1>4. ASSUME NEW s \in Sockets, ServeRequest(s) PROVE ExecInv'
  BY <1>4, ServeRequestKeepsExec
<1>5. ASSUME NEW s \in Sockets, Linger(s) PROVE ExecInv'
  <2>1. /\ UNCHANGED <<maps, told, call, executed, resting, owner>>
        /\ wire' = [wire EXCEPT ![s] = Null]
    BY <1>5 DEF Linger, bookVars, history
  <2>2. Unanswered
    BY <1>0, <2>1 DEF MessagesOK, Unanswered
  <2> QED
    BY <2>1, <2>2, ElsewhereKeepsExec
<1>6. CASE ServerRestarts
  <2>1. PICK lost : RestartServer(lost)
    BY <1>6 DEF ServerRestarts
  <2>2. /\ wire' = [s \in Sockets |-> IF s \in lost THEN Null ELSE wire[s]]
        /\ resting' = << >> /\ owner' = << >> /\ UNCHANGED <<maps, told, call, executed>>
    BY <1>6, <2>1 DEF RestartServer, ServerRestarts
  <2>3. DOMAIN resting' = {} /\ DOMAIN owner' = {}
    BY <2>2
  <2>4. Unanswered
    BY <2>2 DEF Unanswered
  <2> QED
    BY <2>2, <2>3, <2>4, ElsewhereKeepsExec
<1>7. CASE UNCHANGED vars
  <2>1. UNCHANGED <<maps, told, call, executed, resting, owner, wire>>
    BY <1>7 DEF vars, bookVars, history
  <2>2. Unanswered
    BY <1>0, <2>1 DEF MessagesOK, Unanswered
  <2> QED
    BY <2>1, <2>2, ElsewhereKeepsExec
<1>8. ~ClientRestarts
  BY DEF NoRestarts, ClientRestarts
<1> QED
  BY <1>1, <1>2, <1>3, <1>4, <1>5, <1>6, <1>7, <1>8 DEF Next

\* It holds initially.
LEMMA ExecInit == Init => ExecInv
<1> SUFFICES ASSUME Init PROVE ExecInv
  OBVIOUS
<1>1. /\ details = << >> /\ told = << >> /\ broker_order_id_counter = 0
      /\ resting = << >> /\ owner = << >> /\ executed = [c \in Clients |-> 0]
      /\ call = [t \in Threads |-> NoCall] /\ wire = [s \in Sockets |-> Null]
  BY DEF Init, InitServer, Book!Init
<1>2. /\ DOMAIN details = {} /\ DOMAIN told = {} /\ DOMAIN resting = {} /\ DOMAIN owner = {}
      /\ \A s \in Sockets : wire[s] = Null
      /\ \A t \in Threads : call[t].at = "idle" /\ call[t].answer = Null
  BY <1>1 DEF NoCall
<1>3. OwnersOK
  BY <1>1, <1>2 DEF OwnersOK, Counted
<1>4. KnownOK
  BY <1>2 DEF KnownOK, Requested, Answered, Idle
<1>5. Backed
  BY <1>2 DEF Backed
<1> QED
  BY <1>3, <1>4, <1>5 DEF ExecInv

\* While the client process lives, no confirmation reports shares that were not
\* executed for that order: not the fills of an answer that another thread's
\* request brought, or that came after its order was reported as rejected,
\* whatever gets lost on the way, however the server restarts and whichever
\* threads share the socket (cpp_ob_broker.py:159).  A new client process counts
\* its ids from 1 again (cpp_ob_broker.py:24), and a request of the old one that
\* is served late makes the conclusion false: the book then has an order under an
\* id that the new process takes for its own.
THEOREM ReportsAlwaysExecutions ==
  ASSUME MaxRestarts = 0 PROVE Spec => []ReportsAreExecutions
<1>1. Init => SocketInv /\ ReportInv /\ WireOK /\ NoRestarts /\ ExecInv
  <2>1. Init => WireOK /\ NoRestarts
    BY BrokerAssumption DEF Init, InitServer, WireOK, Answered, NoRestarts
  <2> QED
    BY <2>1, SocketsInit, ReportsInit, ExecInit
<1>2. SocketInv /\ ReportInv /\ WireOK /\ NoRestarts /\ ExecInv /\ [Next]_vars
        => (SocketInv /\ ReportInv /\ WireOK /\ NoRestarts /\ ExecInv)'
  BY NextKeepsSockets, NextKeepsReports, NextKeepsWire, NextKeepsNoRestarts, NextKeepsExec
<1>3. ExecInv => ReportsAreExecutions
  <2>1. \A c : Filled(c) = Reported(told, c)
    BY Zenon DEF Filled, Reported, PlusReported
  <2> QED
    BY <2>1 DEF ExecInv, Backed, ReportsAreExecutions
<1> QED
  BY <1>1, <1>2, <1>3, PTL DEF Spec

-----------------------------------------------------------------------------
(* What becomes of an order *)

\* The statuses after which an order is not in the book, and what the book
\* says then.
Over == {"FILLED", "CANCELLED"}
Verdicts == {"CANCELLED", "REJECTED_BY_BOOK"}

\* A request to add an order is on the wire,
Adds(s) == Requested(s) /\ wire[s].command = "ADD_ORDER"

\* or not sent yet.
Unsent == call["pm"].op = "submit" /\ call["pm"].at \in Opening \cup {"send"}

\* Somebody takes the id for that of the client's order.
Names(id, c) ==
  \/ id \in DOMAIN owner /\ owner[id] = c
  \/ id \in DOMAIN details /\ details[id].client = c
  \/ \E s \in Sockets : Adds(s) /\ wire[s].id = id /\ wire[s].client = c

\* A client has one order, and is known before its order is.
NamesOK ==
  /\ \A c, i, j : Names(i, c) /\ Names(j, c) => i = j
  /\ \A i, c : Names(i, c) => c \in DOMAIN told
  /\ \A c \in Clients \ DOMAIN told : executed[c] = 0

\* The order that is to be added is the one of the maps.
Sized(request) ==
  /\ request.order.initial > 0
  /\ request.id \in DOMAIN details => request.order.initial = details[request.id].quantity

\* So are those of the book.
SizesOK ==
  /\ \A s \in Sockets : Adds(s) => Sized(wire[s])
  /\ Unsent => Sized(call["pm"].request)
  /\ \A id \in DOMAIN resting \cap DOMAIN details : resting[id].initial = details[id].quantity

\* Nothing was done with an order.
Untouched(id, c) == id \notin DOMAIN owner /\ executed[c] = 0 /\ LastStatus(c) \notin Over

\* An order is added once.
OnceOK ==
  /\ \A s, w \in Sockets : Adds(s) /\ Adds(w) /\ wire[s].id = wire[w].id => s = w
  /\ \A s \in Sockets : Adds(s) => Untouched(wire[s].id, wire[s].client)
  /\ Unsent => /\ Untouched(call["pm"].id, call["pm"].request.client)
               /\ \A s \in Sockets : Adds(s) => wire[s].id # call["pm"].id

\* What is left of an order of the book is what was not executed of it.
Accounts ==
  \A id \in DOMAIN resting :
    /\ resting[id].remaining > 0
    /\ executed[owner[id]] + resting[id].remaining = resting[id].initial

\* What the maps say was filled of an order is what its client was told.
TalliedIn(orders, reports) ==
  \A id \in DOMAIN orders : orders[id].filled_quantity = Reported(reports, orders[id].client)

\* What is known of the orders.
FateOK == NamesOK /\ SizesOK /\ OnceOK /\ Accounts /\ FinishedIsGone

\* The client's order is not in the book and never will be.
Past(c) ==
  /\ \A id \in DOMAIN resting : owner[id] # c
  /\ \A s \in Sockets : Adds(s) => wire[s].client # c

\* A step that adds no order to the book, to the maps or to the wire.
LEMMA FewerKeepFate ==
  ASSUME FateOK, SocketInv, ReportInv, OwnersOK,
         executed' = executed, DOMAIN told \subseteq DOMAIN told',
         \A c \in DOMAIN told' : LastStatus(c)' \in Over
           => c \in DOMAIN told /\ (LastStatus(c) \in Over \/ Past(c)),
         DOMAIN resting' \subseteq DOMAIN resting, DOMAIN owner' \subseteq DOMAIN owner,
         DOMAIN resting' \subseteq DOMAIN owner', DOMAIN details' \subseteq DOMAIN details,
         \A id \in DOMAIN resting' : resting'[id] = resting[id],
         \A id \in DOMAIN owner' : owner'[id] = owner[id],
         \A id \in DOMAIN details' : /\ details'[id].client = details[id].client
                                     /\ details'[id].quantity = details[id].quantity,
         \A s \in Sockets : Adds(s)' => Adds(s) /\ wire'[s] = wire[s],
         Unsent' => /\ Unsent /\ told' = told
                    /\ call'["pm"].id = call["pm"].id /\ call'["pm"].request = call["pm"].request
  PROVE  FateOK'
<1>0. NamesOK /\ SizesOK /\ OnceOK /\ Accounts /\ FinishedIsGone /\ DOMAIN resting \subseteq DOMAIN owner
  BY DEF FateOK, OwnersOK
<1>1. \A i, c : Names(i, c)' => Names(i, c)
  BY DEF Names
<1>2. NamesOK'
  <2>1. \A c, i, j : Names(i, c)' /\ Names(j, c)' => i = j
    BY <1>0, <1>1 DEF NamesOK
  <2>2. \A i, c : Names(i, c)' => c \in DOMAIN told'
    BY <1>0, <1>1 DEF NamesOK
  <2>3. \A c \in Clients \ DOMAIN told' : executed'[c] = 0
    BY <1>0 DEF NamesOK
  <2> QED
    BY <2>1, <2>2, <2>3 DEF NamesOK
<1>a. ASSUME NEW s \in Sockets, Adds(s)'
      PROVE  Adds(s) /\ wire'[s] = wire[s]
  BY <1>a
<1>3. SizesOK'
  <2>1. ASSUME NEW s \in Sockets, Adds(s)' PROVE Sized(wire[s])'
    <3>1. Adds(s) /\ wire'[s] = wire[s] /\ Sized(wire[s])
      BY <1>0, <1>a, <2>1 DEF SizesOK
    <3> QED
      BY <3>1 DEF Sized
  <2>2. ASSUME Unsent' PROVE Sized(call["pm"].request)'
    <3>1. call'["pm"].request = call["pm"].request /\ Sized(call["pm"].request)
      BY <1>0, <2>2 DEF SizesOK
    <3> QED
      BY <3>1 DEF Sized
  <2>3. ASSUME NEW id \in DOMAIN resting' \cap DOMAIN details'
        PROVE  resting'[id].initial = details'[id].quantity
    BY <1>0 DEF SizesOK
  <2> QED
    BY <2>1, <2>2, <2>3 DEF SizesOK
<1>4. ASSUME NEW s \in Sockets, Adds(s)' PROVE Untouched(wire[s].id, wire[s].client)'
  <2>1. Adds(s) /\ wire'[s] = wire[s]
    BY <1>a, <1>4
  <2>2. Untouched(wire[s].id, wire[s].client)
    BY <1>0, <2>1 DEF OnceOK
  <2>3. ~Past(wire[s].client)
    BY <2>1 DEF Past
  <2>4. Names(wire[s].id, wire[s].client)'
    BY <1>4 DEF Names
  <2>5. wire[s].client \in DOMAIN told'
    BY <1>2, <2>1, <2>4 DEF NamesOK
  <2>6. LastStatus(wire[s].client)' \notin Over
    BY <2>1, <2>2, <2>3, <2>5 DEF Untouched, LastStatus
  <2> QED
    BY <2>1, <2>2, <2>6 DEF Untouched
<1>5. OnceOK'
  <2>1. ASSUME NEW s \in Sockets, NEW w \in Sockets, Adds(s)', Adds(w)', wire'[s].id = wire'[w].id
        PROVE  s = w
    <3>1. Adds(s) /\ wire'[s] = wire[s] /\ Adds(w) /\ wire'[w] = wire[w]
      BY <1>a, <2>1
    <3> QED
      BY <1>0, <2>1, <3>1 DEF OnceOK
  <2>2. ASSUME Unsent'
        PROVE  /\ Untouched(call["pm"].id, call["pm"].request.client)'
               /\ \A s \in Sockets : Adds(s)' => wire'[s].id # call'["pm"].id
    <3>1. /\ Unsent /\ UNCHANGED <<told, executed>>
          /\ call'["pm"].id = call["pm"].id /\ call'["pm"].request = call["pm"].request
      BY <2>2
    <3>2. /\ Untouched(call["pm"].id, call["pm"].request.client)
          /\ \A s \in Sockets : Adds(s) => wire[s].id # call["pm"].id
      BY <1>0, <3>1 DEF OnceOK
    <3>3. LastStatus(call["pm"].request.client)' = LastStatus(call["pm"].request.client)
      BY <3>1 DEF LastStatus
    <3>4. Untouched(call["pm"].id, call["pm"].request.client)'
      BY <3>1, <3>2, <3>3 DEF Untouched
    <3>5. ASSUME NEW s \in Sockets, Adds(s)' PROVE wire'[s].id # call'["pm"].id
      BY <1>a, <3>1, <3>2, <3>5
    <3> QED
      BY <3>4, <3>5
  <2> QED
    BY <1>4, <2>1, <2>2 DEF OnceOK
<1>6. Accounts'
  BY <1>0 DEF Accounts
<1>7. FinishedIsGone'
  <2> SUFFICES ASSUME NEW id \in DOMAIN resting' PROVE LastStatus(owner[id])' \notin Over
    BY DEF FinishedIsGone, Over
  <2>1. id \in DOMAIN resting /\ owner'[id] = owner[id] /\ id \in DOMAIN owner
    BY <1>0
  <2>2. LastStatus(owner[id]) \notin Over
    BY <1>0, <2>1 DEF FinishedIsGone, Over
  <2>3. ~Past(owner[id])
    BY <2>1 DEF Past
  <2>4. Names(id, owner[id])
    BY <2>1 DEF Names
  <2>5. owner[id] \in DOMAIN told'
    BY <1>0, <2>4 DEF NamesOK
  <2> QED
    BY <2>1, <2>2, <2>3, <2>5
<1> QED
  BY <1>2, <1>3, <1>5, <1>6, <1>7 DEF FateOK
-----------------------------------------------------------------------------
(* How the reports end *)

\* The status a client was told last, Null before the first.
LastOf(reports, c) == IF reports[c] = << >> THEN Null ELSE Last(reports[c]).status

\* A confirmation is the last one of its client.
LEMMA TellEnds ==
  ASSUME NEW orders, NEW reports, Tracked(orders, reports), NEW c \in DOMAIN reports,
         NEW status, NEW quantity,
         NEW after, after = Tell(reports, c, Confirmation(status, quantity))
  PROVE  /\ DOMAIN after = DOMAIN reports
         /\ LastOf(after, c) = status
         /\ \A d \in DOMAIN reports \ {c} : LastOf(after, d) = LastOf(reports, d)
<1> DEFINE conf == Confirmation(status, quantity)
<1>1. PICK Seen : reports \in [DOMAIN reports -> Seq(ReportOf(Seen))]
  BY DEF Tracked
<1>2. /\ DOMAIN after = DOMAIN reports
      /\ \A d \in DOMAIN reports \ {c} : after[d] = reports[d]
      /\ after[c] = Append(reports[c], conf)
  BY <1>1 DEF Tell
<1>3. conf.status = status
  BY DEF Confirmation
<1> HIDE DEF conf
<1>4. after[c] # << >> /\ Last(after[c]) = conf
  <2>1. reports[c] \in Seq(ReportOf(Seen))
    BY <1>1
  <2> QED
    BY <1>2, <2>1 DEF Last
<1> QED
  BY <1>2, <1>3, <1>4 DEF LastOf

\* While the fills of an answer are applied: what the maps say was filled was
\* reported, and no order is over but those whose shares were all reported.
Settled(s) ==
  /\ Applied(s) /\ Counted(s.told) /\ TalliedIn(s.details, s.told)
  /\ \A id \in DOMAIN s.details : s.details[id].quantity = details[id].quantity
  /\ \A c \in DOMAIN s.told : LastOf(s.told, c) \in Over =>
       \/ LastStatus(c) \in Over
       \/ \E id \in DOMAIN details :
            details[id].client = c /\ details[id].quantity <= Reported(s.told, c)

\* One fill: its order is FILLED when all of it was reported.
LEMMA ApplyFillSettles ==
  ASSUME NEW s, Settled(s), NEW fill, fill.quantity \in Nat PROVE Settled(ApplyFill(s, fill))
<1>1. CASE fill.id \notin DOMAIN s.details
  <2>1. ApplyFill(s, fill) = s
    BY <1>1 DEF ApplyFill
  <2> QED
    BY <2>1
<1>2. CASE fill.id \in DOMAIN s.details
  <2> DEFINE id == fill.id
             order == s.details[id]
             c == order.client
             filled == order.filled_quantity + fill.quantity
             status == IF filled >= order.quantity THEN "FILLED" ELSE "PARTIALLY_FILLED"
             kept == IF status = "FILLED" THEN status ELSE "WORKING"
             updated == [s.details EXCEPT ![id].filled_quantity = filled, ![id].status = kept]
             fewer == IF status = "FILLED" THEN CleanedUp(updated, id) ELSE updated
             after == ApplyFill(s, fill)
  <2>0. Applied(s) /\ Counted(s.told) /\ Tracked(s.details, s.told) /\ id \in DOMAIN s.details
    BY <1>2 DEF Settled, Applied
  <2>1. after.details = fewer /\ after.told = Tell(s.told, c, Confirmation(status, fill.quantity))
    BY <1>2 DEF ApplyFill, ReportedQuantity
  <2>2. Applied(after) /\ Counted(after.told) /\ DOMAIN after.told = DOMAIN s.told
    <3> HIDE DEF after
    <3>1. Applied(ApplyFill(s, fill))
      BY <2>0, ApplyFillKeeps
    <3>2. DOMAIN after.told = DOMAIN s.told /\ Counted(after.told)
      BY <2>0, ApplyFillAdds DEF after
    <3> QED
      BY <3>1, <3>2 DEF after
  <2>3. PICK Seen : s.details \in [DOMAIN s.details -> OrderOf(Seen)]
    BY <2>0 DEF Tracked
  <2>4. c \in DOMAIN s.told /\ order.filled_quantity \in Nat /\ order.quantity \in Nat
    <3>1. order \in OrderOf(Seen)
      BY <2>0, <2>3
    <3> QED
      BY <2>0, <3>1 DEF OrderOf, Tracked
  <2>5. /\ updated[id].filled_quantity = filled /\ updated[id].quantity = order.quantity
        /\ updated[id].client = c /\ DOMAIN updated = DOMAIN s.details
        /\ \A i \in DOMAIN s.details \ {id} : updated[i] = s.details[i]
    <3>1. order \in OrderOf(Seen)
      BY <2>0, <2>3
    <3> QED
      BY <2>0, <2>3, <3>1 DEF OrderOf
  <2>6. /\ DOMAIN fewer \subseteq DOMAIN s.details
        /\ \A i \in DOMAIN fewer : fewer[i] = updated[i]
    <3> HIDE DEF updated, id, status
    <3>1. /\ DOMAIN CleanedUp(updated, id) \subseteq DOMAIN updated
          /\ \A i \in DOMAIN CleanedUp(updated, id) : CleanedUp(updated, id)[i] = updated[i]
      BY DEF CleanedUp, Restrict
    <3> QED
      BY <2>5, <3>1
  <2>7. /\ Reported(after.told, c) = Reported(s.told, c) + fill.quantity
        /\ \A d \in DOMAIN s.told \ {c} : Reported(after.told, d) = Reported(s.told, d)
    <3> HIDE DEF c, status, after
    <3> QED
      BY <2>0, <2>1, <2>4, TellAdds
  <2>8. /\ LastOf(after.told, c) = status
        /\ \A d \in DOMAIN s.told \ {c} : LastOf(after.told, d) = LastOf(s.told, d)
    <3> HIDE DEF c, status, after
    <3> QED
      BY <2>0, <2>1, <2>4, TellEnds
  <2>9. \A i \in DOMAIN s.details : /\ s.details[i].filled_quantity = Reported(s.told, s.details[i].client)
                                   /\ s.details[i].quantity = details[i].quantity
                                   /\ s.details[i].client = details[i].client
                                   /\ i \in DOMAIN details
    BY DEF Settled, TalliedIn, Applied
  <2>10. \A i \in DOMAIN s.details \ {id} : s.details[i].client \in DOMAIN s.told \ {c}
    BY <2>0 DEF Tracked
  <2> HIDE DEF updated, fewer, after, status, kept, c, filled
  <2>11. ASSUME NEW i \in DOMAIN fewer
         PROVE  /\ fewer[i].filled_quantity = Reported(after.told, fewer[i].client)
                /\ fewer[i].quantity = details[i].quantity
    <3>1. i \in DOMAIN s.details /\ fewer[i] = updated[i]
      BY <2>6
    <3>2. CASE i = id
      BY <2>0, <2>5, <2>7, <2>9, <3>1, <3>2 DEF filled, c
    <3>3. CASE i # id
      BY <2>5, <2>7, <2>9, <2>10, <3>1, <3>3
    <3> QED
      BY <3>2, <3>3
  <2>12. ASSUME NEW d \in DOMAIN s.told, LastOf(after.told, d) \in Over
         PROVE  \/ LastStatus(d) \in Over
                \/ \E i \in DOMAIN details :
                     details[i].client = d /\ details[i].quantity <= Reported(after.told, d)
    <3>1. CASE d = c
      <4>1. status = "FILLED"
        BY <2>8, <2>12, <3>1 DEF status, Over
      <4>2. order.quantity <= filled
        BY <2>4, <4>1 DEF status, filled
      <4>3. Reported(after.told, d) = filled /\ order.quantity = details[id].quantity
            /\ details[id].client = d /\ id \in DOMAIN details
        BY <2>0, <2>7, <2>9, <3>1 DEF filled, c
      <4> QED
        BY <4>2, <4>3
    <3>2. CASE d # c
      <4>1. /\ LastOf(s.told, d) \in Over
            /\ Reported(after.told, d) = Reported(s.told, d)
        BY <2>7, <2>8, <2>12, <3>2
      <4> QED
        BY <4>1 DEF Settled
    <3> QED
      BY <3>1, <3>2
  <2> QED
    BY <2>1, <2>2, <2>11, <2>12 DEF Settled, TalliedIn, after
<1> QED
  BY <1>1, <1>2

\* The facts about folds, for ApplyFill and what is settled.
Settle == INSTANCE FoldTheorems WITH Op <- ApplyFill, Holds <- Settled

\* The fills of an answer, one by one.
LEMMA FillsSettle ==
  ASSUME NEW base, Settled(base), NEW answer, FillsOK(answer)
  PROVE  Settled(FoldLeft(ApplyFill, base, answer.fills))
<1> DEFINE fills == answer.fills
<1>0. IsFiniteSet(DOMAIN fills) /\ DOMAIN fills \subseteq Int
  BY FS_Interval DEF FillsOK
<1>1. FoldLeft(ApplyFill, base, fills) = Settle!Folded(base, fills)
  BY DEF FoldLeft, MapThenFoldSet, Max, Settle!Folded, Settle!Folds, Settle!FoldOver, Settle!Greatest
<1>2. \A r : \A n \in DOMAIN fills : Settled(r) => Settled(ApplyFill(r, fills[n]))
  BY ApplyFillSettles DEF FillsOK
<1> QED
  BY <1>0, <1>1, <1>2, Settle!FoldKeeps DEF IsFiniteSet, Settle!IsFiniteSet
-----------------------------------------------------------------------------
(* What is executed of one order *)

\* What the client does in the trades, it does with one order.
OneOrder(trades, c, id) ==
  \A n \in DOMAIN trades : /\ owner'[trades[n].bid.id] = c <=> trades[n].bid.id = id
                           /\ owner'[trades[n].ask.id] = c <=> trades[n].ask.id = id

\* Both orders of every trade have an owner.
Owned(trades) ==
  \A n \in DOMAIN trades : /\ trades[n].bid.quantity \in Nat /\ trades[n].ask.quantity \in Nat
                           /\ owner'[trades[n].bid.id] \in Clients
                           /\ owner'[trades[n].ask.id] \in Clients

\* A client with one order is credited with the trades of that order only.
LEMMA TradesExecuteFor ==
  ASSUME executed \in [Clients -> Nat],
         NEW trades, NEW k \in Nat, Len(trades) = k, DOMAIN trades = 1 .. k,
         Owned(trades),
         NEW after, after = FoldLeft(Executing, executed, trades),
         NEW answer, answer.fills = Fills(trades),
         NEW c \in Clients, NEW id, OneOrder(trades, c, id)
  PROVE  after[c] = executed[c] + FilledIn(answer, id)
<1>0. \A n \in 1 .. k : /\ trades[n].bid.quantity \in Nat /\ trades[n].ask.quantity \in Nat
                        /\ owner'[trades[n].bid.id] \in Clients
                        /\ owner'[trades[n].ask.id] \in Clients
                        /\ owner'[trades[n].bid.id] = c <=> trades[n].bid.id = id
                        /\ owner'[trades[n].ask.id] = c <=> trades[n].ask.id = id
  BY DEF Owned, OneOrder
<1> DEFINE fills == Fills(trades)
<1>1. after = Execute!Folded(executed, trades)
  BY DEF FoldLeft, MapThenFoldSet, Max, Execute!Folded, Execute!Folds, Execute!FoldOver,
         Execute!Greatest
<1>2. PICK h : /\ h[0] = executed
               /\ \A i \in 1 .. k : h[i] = Executing(h[i - 1], trades[i])
               /\ h[k] = Execute!Folded(executed, trades)
  BY Execute!FoldInSteps
<1>3. /\ \A x : FilledBy(fills, 0, x) = 0
      /\ \A i \in 1 .. k : \A x :
           /\ FilledBy(fills, 2 * (i - 1), x) \in Nat
           /\ FilledBy(fills, 2 * i, x)
                = FilledBy(fills, 2 * (i - 1), x)
                    + (IF trades[i].bid.id = x THEN trades[i].bid.quantity ELSE 0)
                    + (IF trades[i].ask.id = x THEN trades[i].ask.quantity ELSE 0)
  <2>1. \A x : FilledBy(fills, 0, x) = 0
    <3>1. 0 \in Nat /\ \A m \in 1 .. 0 : fills[m].quantity \in Nat
      OBVIOUS
    <3> HIDE DEF fills
    <3> QED
      BY <3>1, FilledByNext
  <2> QED
    BY <1>0, <2>1, FilledByTrade
<1> HIDE DEF fills
<1> DEFINE Fine(i) == h[i] \in [Clients -> Nat] /\ h[i][c] = executed[c] + FilledBy(fills, 2 * i, id)
           Good == {i \in 0 .. k : Fine(i)}
<1>4. 0 \in Good
  <2>1. 2 * 0 = 0
    OBVIOUS
  <2>2. Fine(0)
    BY <1>2, <1>3, <2>1
  <2> HIDE DEF Fine
  <2> QED
    BY <2>2
<1>5. ASSUME NEW i \in 1 .. k, i - 1 \in Good PROVE i \in Good
  <2> DEFINE e == h[i - 1]
             trade == trades[i]
             done == FilledBy(fills, 2 * (i - 1), id)
  <2>1. Fine(i - 1)
    BY <1>5
  <2>2. /\ h[i] = Executing(e, trade) /\ e \in [Clients -> Nat]
        /\ trade.bid.quantity \in Nat /\ trade.ask.quantity \in Nat
        /\ owner'[trade.bid.id] \in Clients /\ owner'[trade.ask.id] \in Clients
    BY <1>0, <1>2, <2>1
  <2>3. h[i] \in [Clients -> Nat] /\ h[i][c] = e[c] + SidesOf(trade, c)
    <3> HIDE DEF e, trade
    <3>1. /\ Executing(e, trade) \in [Clients -> Nat]
          /\ \A d \in Clients : Executing(e, trade)[d] = e[d] + SidesOf(trade, d)
      BY <2>2, TradeExecutes
    <3> QED
      BY <2>2, <3>1
  <2>4. /\ SideOf(trade.bid, c) = IF trade.bid.id = id THEN trade.bid.quantity ELSE 0
        /\ SideOf(trade.ask, c) = IF trade.ask.id = id THEN trade.ask.quantity ELSE 0
    BY <1>0 DEF SideOf
  <2>5. done \in Nat /\ FilledBy(fills, 2 * i, id) = done + SideOf(trade.bid, c) + SideOf(trade.ask, c)
    BY <1>3, <2>4
  <2>6. e[c] = executed[c] + done /\ executed[c] \in Nat
    BY <2>1
  <2>7. SideOf(trade.bid, c) \in Nat /\ SideOf(trade.ask, c) \in Nat
    BY <2>2, <2>4
  <2>8. Fine(i)
    <3> HIDE DEF e, trade, done
    <3> QED
      BY <2>3, <2>5, <2>6, <2>7 DEF SidesOf
  <2> HIDE DEF Fine
  <2> QED
    BY <2>8
<1>6. Fine(k)
  <2> HIDE DEF Fine
  <2>1. \A i \in 0 .. k : i \in Good
    <3> HIDE DEF Good
    <3> QED
      BY <1>4, <1>5, CountingUp
  <2>2. k \in 0 .. k
    OBVIOUS
  <2> QED
    BY <2>1, <2>2
<1>7. FilledIn(answer, id) = FilledBy(fills, 2 * k, id)
  <2>1. FillsOK(answer)
    BY <1>0, FillsOfTrades
  <2>2. 2 * k \in Nat /\ DOMAIN answer.fills = 1 .. 2 * k
    BY DEF Fills
  <2> QED
    BY <2>1, <2>2, FilledInIsNat DEF fills
<1> QED
  BY <1>1, <1>2, <1>6, <1>7
\* The answer says what is executed of each order when an order is added, which
\* is a new one.
ExecutedExactly(s, answer) ==
  LET o == wire[s].order
  IN  /\ wire[s].id = o.id /\ o.id \notin DOMAIN owner /\ wire[s].client \in Clients
      /\ o \in [id : Nat, type : OrderTypes, side : Book!Sides, price : Prices,
                initial : Nat, remaining : Nat]
      /\ executed[wire[s].client] = 0
      /\ DOMAIN owner' = DOMAIN owner \cup {o.id} /\ owner'[o.id] = wire[s].client
      /\ \A id \in DOMAIN owner : owner'[id] = owner[id]
      /\ DOMAIN resting' \subseteq DOMAIN resting \cup {o.id}
      /\ \A id \in DOMAIN owner' :
           executed'[owner'[id]] = executed[owner'[id]] + FilledIn(answer, id)
      /\ \A c \in Clients : (\A id \in DOMAIN owner' : owner'[id] # c) => executed'[c] = executed[c]

\* It does, as no two orders are of one client.
LEMMA AddExecutes ==
  ASSUME ReportInv, OwnersOK, KnownOK, FateOK,
         NEW s \in Sockets, ServeRequest(s), Requested(s),
         wire[s].command = "ADD_ORDER", Book!Add(wire[s].order),
         NEW answer, answer.fills = Fills(reply'.trades)
  PROVE  ExecutedExactly(s, answer)
<1> DEFINE o == wire[s].order
           trades == reply'.trades
           k == Len(reply'.trades)
<1>1. /\ wire[s].id = o.id /\ o.id \in 1 .. broker_order_id_counter /\ wire[s].client \in Clients
      /\ o \in [id : Nat, type : OrderTypes, side : Book!Sides, price : Prices,
                initial : Nat, remaining : Nat]
  BY DEF KnownOK, AddsKnown
<1>2. Adds(s) /\ Untouched(wire[s].id, wire[s].client)
  BY DEF FateOK, OnceOK, Adds
<1>3. PICK Seen : o \in AnyOrder(Seen)
  BY DEF ReportInv, MessagesOK, RequestOK
<1>4. BookOK /\ Book!Add(o)
  BY DEF ReportInv, MessagesOK
<1>5. /\ \E rest \in Int : reply'.order = [o EXCEPT !.remaining = rest]
      /\ DOMAIN resting' \subseteq DOMAIN resting \cup {o.id}
      /\ k \in Nat /\ DOMAIN trades = 1 .. k
      /\ \A n \in 1 .. k :
           /\ trades[n].bid.quantity \in Nat /\ trades[n].ask.quantity \in Nat
           /\ {trades[n].bid.id, trades[n].ask.id} \subseteq DOMAIN resting \cup {o.id}
  <2> HIDE DEF o
  <2> QED
    BY <1>3, <1>4, AddAnswers
<1>6. reply'.order # Null
  <2>1. PICK rest \in Int : reply'.order = [o EXCEPT !.remaining = rest]
    BY <1>5
  <2>2. reply'.order \in [id : Nat, type : OrderTypes, side : Book!Sides, price : Prices,
                          initial : Nat, remaining : Int]
    BY <1>1, <2>1
  <2> QED
    BY <2>2, BrokerAssumption
<1>7. owner' = Put(owner, o.id, wire[s].client)
  BY <1>1, <1>6, Zenon DEF ServeRequest
<1>8. executed' = FoldLeft(Executing, executed, trades)
  BY <1>6, Zenon DEF ServeRequest, Executing, Credited, FoldLeft, MapThenFoldSet, Max
<1>9. /\ DOMAIN owner' = DOMAIN owner \cup {o.id} /\ owner'[o.id] = wire[s].client
      /\ o.id \notin DOMAIN owner /\ \A id \in DOMAIN owner : owner'[id] = owner[id]
      /\ executed[wire[s].client] = 0
  BY <1>1, <1>2, <1>7 DEF Put, Untouched
<1>10. \A id \in DOMAIN owner' : Names(id, owner'[id])
  BY <1>1, <1>2, <1>9 DEF Names
<1>11. \A i, j \in DOMAIN owner' : owner'[i] = owner'[j] => i = j
  BY <1>10 DEF FateOK, NamesOK
<1> HIDE DEF o, trades, k
<1>12. \A id \in DOMAIN owner' : owner'[id] \in Clients
  BY <1>1, <1>9 DEF OwnersOK
<1>13. /\ Owned(trades)
       /\ \A n \in DOMAIN trades : {trades[n].bid.id, trades[n].ask.id} \subseteq DOMAIN owner'
       /\ executed \in [Clients -> Nat] /\ Len(trades) = k /\ answer.fills = Fills(trades)
  BY <1>5, <1>9, <1>12 DEF OwnersOK, trades, k, Owned
<1>14. k \in Nat /\ DOMAIN trades = 1 .. k
  BY <1>5
<1>15. ASSUME NEW id \in DOMAIN owner'
       PROVE  executed'[owner'[id]] = executed[owner'[id]] + FilledIn(answer, id)
  <2>1. owner'[id] \in Clients
    BY <1>12
  <2>2. OneOrder(trades, owner'[id], id)
    BY <1>11, <1>13 DEF OneOrder
  <2> QED
    BY <1>8, <1>13, <1>14, <2>1, <2>2, TradesExecuteFor
<1>16. ASSUME NEW c \in Clients, \A id \in DOMAIN owner' : owner'[id] # c
       PROVE  executed'[c] = executed[c]
  <2> DEFINE id == broker_order_id_counter + 1
  <2>1. id \notin DOMAIN owner' /\ id \notin DOMAIN resting \cup {o.id}
    <3>1. /\ broker_order_id_counter \in Nat /\ DOMAIN owner \subseteq 1 .. broker_order_id_counter
          /\ DOMAIN resting \subseteq DOMAIN owner
      BY DEF OwnersOK, ReportInv, MapsOK
    <3>2. id \notin 1 .. broker_order_id_counter
      BY <3>1
    <3> HIDE DEF id
    <3> QED
      BY <1>1, <1>9, <3>1, <3>2 DEF o
  <2>2. FilledIn(answer, id) = 0
    <3>1. FilledExactly(o, answer)
      BY <1>3, <1>4, AddExact
    <3> HIDE DEF id
    <3> QED
      BY <2>1, <3>1 DEF FilledExactly
  <2>3. OneOrder(trades, c, id)
    BY <1>13, <1>16, <2>1 DEF OneOrder
  <2> HIDE DEF id
  <2>4. executed'[c] = executed[c] + FilledIn(answer, id)
    BY <1>8, <1>13, <1>14, <2>3, TradesExecuteFor
  <2>5. executed[c] \in Nat
    BY <1>13
  <2> QED
    BY <2>2, <2>4, <2>5
<1> QED
  BY <1>1, <1>5, <1>9, <1>15, <1>16 DEF o, ExecutedExactly

\* So the accounts of the book go on, and with them what is known of the orders.
LEMMA AddKeepsFate ==
  ASSUME ReportInv, OwnersOK, KnownOK, FateOK, NEW s \in Sockets, ServeRequest(s), Requested(s),
         wire[s].command = "ADD_ORDER", Book!Add(wire[s].order)
  PROVE  FateOK'
<1> DEFINE o == wire[s].order
           i == wire[s].id
           c == wire[s].client
           answer == [fills |-> Fills(reply'.trades)]
<1>1. NamesOK /\ SizesOK /\ OnceOK /\ Accounts /\ FinishedIsGone /\ CallersOK
  BY DEF FateOK, ReportInv
<1>2. Adds(s) /\ Sized(wire[s]) /\ Untouched(i, c)
  BY <1>1 DEF OnceOK, SizesOK, Adds
<1>3. /\ i = o.id /\ i \notin DOMAIN owner /\ c \in Clients /\ executed[c] = 0
      /\ o \in [id : Nat, type : OrderTypes, side : Book!Sides, price : Prices,
                initial : Nat, remaining : Nat]
      /\ DOMAIN owner' = DOMAIN owner \cup {i} /\ owner'[i] = c
      /\ \A id \in DOMAIN owner : owner'[id] = owner[id]
      /\ DOMAIN resting' \subseteq DOMAIN resting \cup {i}
      /\ \A id \in DOMAIN owner' : executed'[owner'[id]] = executed[owner'[id]] + FilledIn(answer, id)
      /\ \A d \in Clients : (\A id \in DOMAIN owner' : owner'[id] # d) => executed'[d] = executed[d]
  <2>1. ExecutedExactly(s, answer)
    <3>1. answer.fills = Fills(reply'.trades)
      OBVIOUS
    <3> HIDE DEF answer
    <3> QED
      BY <3>1, AddExecutes
  <2> HIDE DEF answer
  <2> QED
    BY <2>1 DEF ExecutedExactly
<1>4. FilledExactly(o, answer)
  <2>1. PICK Seen : o \in AnyOrder(Seen)
    BY DEF ReportInv, MessagesOK, RequestOK
  <2>2. BookOK /\ answer.fills = Fills(reply'.trades)
    BY DEF ReportInv, MessagesOK
  <2> HIDE DEF answer
  <2> QED
    BY <2>1, <2>2, AddExact
<1>5. /\ UNCHANGED <<details, told, call>>
      /\ wire' = [wire EXCEPT ![s] = IF state[s] # "closed" THEN Answer(reply') ELSE Null]
      /\ Answer(reply').kind = "answer" /\ wire = [w \in Sockets |-> wire[w]]
  BY ServeKeepsBook, Zenon DEF ServeRequest, Serve, maps, ReportInv, MessagesOK
<1>6. \A w \in Sockets : Adds(w)' => Adds(w) /\ wire'[w] = wire[w] /\ w # s
  BY <1>5 DEF Adds, Requested
<1>7. \A x, d : Names(x, d)' => Names(x, d)
  BY <1>2, <1>3, <1>5, <1>6 DEF Names
<1>8. \A x \in DOMAIN owner' : Names(x, owner'[x])
  BY <1>2, <1>3 DEF Names
<1> HIDE DEF o, i, c, answer
<1>9. ASSUME NEW x, x \notin DOMAIN owner', NEW d \in Clients, Names(x, d) PROVE executed'[d] = executed[d]
  <2>1. \A y \in DOMAIN owner' : owner'[y] # d
    BY <1>1, <1>8, <1>9 DEF NamesOK
  <2> QED
    BY <1>3, <2>1
<1>10. NamesOK'
  <2>1. \A d, x, y : Names(x, d)' /\ Names(y, d)' => x = y
    BY <1>1, <1>7 DEF NamesOK
  <2>2. \A x, d : Names(x, d)' => d \in DOMAIN told'
    BY <1>1, <1>5, <1>7 DEF NamesOK
  <2>3. ASSUME NEW d \in Clients \ DOMAIN told' PROVE executed'[d] = 0
    <3>1. \A y \in DOMAIN owner' : owner'[y] # d
      BY <1>1, <1>5, <1>8 DEF NamesOK
    <3> QED
      BY <1>1, <1>3, <1>5, <3>1 DEF NamesOK
  <2> QED
    BY <2>1, <2>2, <2>3 DEF NamesOK
<1>11. /\ \A id \in DOMAIN resting : id # i
       /\ DOMAIN resting \subseteq DOMAIN owner
  BY <1>3 DEF OwnersOK
<1>12. i \in DOMAIN resting' =>
         /\ resting'[i].initial = o.initial /\ resting'[i].remaining = o.initial - FilledIn(answer, i)
         /\ FilledIn(answer, i) \in Int /\ FilledIn(answer, i) < o.initial /\ o.initial \in Nat
  <2> SUFFICES ASSUME i \in DOMAIN resting'
               PROVE  /\ resting'[i].initial = o.initial
                      /\ resting'[i].remaining = o.initial - FilledIn(answer, i)
                      /\ FilledIn(answer, i) \in Int /\ FilledIn(answer, i) < o.initial /\ o.initial \in Nat
    OBVIOUS
  <2>1. resting'[i] = [o EXCEPT !.remaining = o.initial - FilledIn(answer, i)]
    BY <1>3, <1>4 DEF FilledExactly
  <2>2. resting'[i].initial = o.initial /\ resting'[i].remaining = o.initial - FilledIn(answer, i)
    BY <1>3, <2>1
  <2>3. o.initial > 0 /\ o.initial \in Nat
    BY <1>2, <1>3 DEF Sized, o
  <2> QED
    BY <1>3, <1>4, <2>2, <2>3 DEF FilledExactly
<1>13. SizesOK'
  <2>1. ASSUME NEW w \in Sockets, Adds(w)' PROVE Sized(wire[w])'
    <3>1. wire'[w] = wire[w] /\ Sized(wire[w])
      BY <1>1, <1>6, <2>1 DEF SizesOK
    <3> QED
      BY <1>5, <3>1 DEF Sized
  <2>2. Unsent' => Sized(call["pm"].request)'
    BY <1>1, <1>5 DEF SizesOK, Unsent, Sized
  <2>3. ASSUME NEW id \in DOMAIN resting' \cap DOMAIN details'
        PROVE  resting'[id].initial = details'[id].quantity
    <3>1. CASE id = i
      BY <1>2, <1>5, <1>12, <2>3, <3>1 DEF Sized, o, i
    <3>2. CASE id # i
      <4>1. id \in DOMAIN resting /\ resting'[id].initial = resting[id].initial
        BY <1>3, <1>4, <2>3, <3>2 DEF FilledExactly
      <4> QED
        BY <1>1, <1>5, <4>1 DEF SizesOK
    <3> QED
      BY <3>1, <3>2
  <2> QED
    BY <2>1, <2>2, <2>3 DEF SizesOK
<1>14. ASSUME NEW x, x # i, NEW d \in Clients, Names(x, d), Untouched(x, d) PROVE Untouched(x, d)'
  <2>1. x \notin DOMAIN owner' /\ executed[d] = 0
    BY <1>3, <1>14 DEF Untouched
  <2>2. executed'[d] = 0
    BY <1>9, <1>14, <2>1
  <2> QED
    BY <1>5, <1>14, <2>1, <2>2 DEF Untouched, LastStatus
<1>15. OnceOK'
  <2>1. ASSUME NEW v \in Sockets, NEW w \in Sockets, Adds(v)', Adds(w)', wire'[v].id = wire'[w].id
        PROVE  v = w
    BY <1>1, <1>6, <2>1 DEF OnceOK
  <2>2. ASSUME NEW w \in Sockets, Adds(w)' PROVE Untouched(wire[w].id, wire[w].client)'
    <3>1. Adds(w) /\ wire'[w] = wire[w] /\ w # s
      BY <1>6, <2>2
    <3>2. /\ wire[w].id # i /\ Untouched(wire[w].id, wire[w].client)
          /\ Names(wire[w].id, wire[w].client)
      BY <1>1, <1>2, <3>1 DEF OnceOK, Names, i
    <3>3. wire[w].client \in Clients
      BY <3>1 DEF KnownOK, AddsKnown, Adds
    <3> DEFINE x == wire[w].id
               d == wire[w].client
    <3>4. Untouched(x, d) /\ Names(x, d) /\ x # i /\ d \in Clients /\ wire'[w].id = x /\ wire'[w].client = d
      BY <3>1, <3>2, <3>3
    <3> HIDE DEF x, d
    <3>5. x \notin DOMAIN owner' /\ executed'[d] = 0
      BY <1>3, <1>9, <3>4 DEF Untouched
    <3>6. LastStatus(d) \notin Over
      BY <3>4 DEF Untouched
    <3> QED
      BY <1>5, <3>4, <3>5, <3>6 DEF Untouched, LastStatus
  <2>3. ASSUME Unsent'
        PROVE  /\ Untouched(call["pm"].id, call["pm"].request.client)'
               /\ \A w \in Sockets : Adds(w)' => wire'[w].id # call'["pm"].id
    <3> DEFINE x == call["pm"].id
               d == call["pm"].request.client
    <3>1. Unsent /\ call' = call
      BY <1>5, <2>3 DEF Unsent
    <3>2. /\ Untouched(x, d) /\ x # i
          /\ \A w \in Sockets : Adds(w) => wire[w].id # x
      BY <1>1, <1>2, <3>1 DEF OnceOK, i
    <3>3. x \in DOMAIN details /\ details[x].client = d
      BY <1>1, <3>1 DEF CallersOK, Unsent, Opening, Idle
    <3>4. Names(x, d) /\ d \in DOMAIN told
      BY <1>1, <3>3 DEF Names, NamesOK
    <3>5. d \in Clients
      BY <3>4 DEF OwnersOK
    <3> HIDE DEF x, d
    <3>6. x \notin DOMAIN owner' /\ executed'[d] = 0
      BY <1>3, <1>9, <3>2, <3>4, <3>5 DEF Untouched
    <3>7. LastStatus(d) \notin Over
      BY <3>2 DEF Untouched
    <3>8. Untouched(x, d)'
      BY <1>5, <3>1, <3>6, <3>7 DEF Untouched, LastStatus, x, d
    <3>9. \A w \in Sockets : Adds(w)' => wire'[w].id # x
      BY <1>6, <3>2
    <3> QED
      BY <3>1, <3>8, <3>9 DEF x, d
  <2> QED
    BY <2>1, <2>2, <2>3 DEF OnceOK
<1>16. ASSUME NEW id \in DOMAIN resting'
       PROVE  /\ resting'[id].remaining > 0
              /\ executed'[owner'[id]] + resting'[id].remaining = resting'[id].initial
  <2>1. executed'[owner'[id]] = executed[owner'[id]] + FilledIn(answer, id)
    BY <1>3, <1>11
  <2>2. CASE id = i
    <3>1. executed'[owner'[id]] = FilledIn(answer, id)
      BY <1>3, <1>12, <2>1, <2>2
    <3> QED
      BY <1>12, <2>2, <3>1
  <2>3. CASE id # i
    <3>1. id \in DOMAIN resting
      BY <1>3, <2>3
    <3>2. /\ resting[id].remaining > 0
          /\ executed[owner[id]] + resting[id].remaining = resting[id].initial
          /\ owner'[id] = owner[id]
      BY <1>1, <1>3, <1>11, <3>1 DEF Accounts
    <3>3. /\ resting'[id].initial = resting[id].initial
          /\ resting'[id].remaining = resting[id].remaining - FilledIn(answer, id)
          /\ FilledIn(answer, id) \in 0 .. resting[id].remaining
          /\ FilledIn(answer, id) < resting[id].remaining
      BY <1>4, <3>1, <3>2 DEF FilledExactly
    <3>4. resting[id].remaining \in Nat /\ executed[owner[id]] \in Nat
      <4>1. BookOK /\ owner[id] \in Clients /\ executed \in [Clients -> Nat]
        BY <1>11, <3>1 DEF ReportInv, MessagesOK, OwnersOK
      <4> QED
        BY <3>1, <4>1, RestingTyped
    <3> QED
      BY <2>1, <3>2, <3>3, <3>4
  <2> QED
    BY <2>2, <2>3
<1>17. FinishedIsGone'
  <2> SUFFICES ASSUME NEW id \in DOMAIN resting' PROVE LastStatus(owner[id])' \notin Over
    BY DEF FinishedIsGone, Over
  <2>1. CASE id = i
    BY <1>2, <1>3, <1>5, <2>1 DEF Untouched, LastStatus
  <2>2. CASE id # i
    <3>1. id \in DOMAIN resting /\ owner'[id] = owner[id]
      BY <1>3, <1>11, <2>2
    <3>2. LastStatus(owner[id]) \notin Over
      BY <1>1, <3>1 DEF FinishedIsGone, Over
    <3> QED
      BY <1>5, <3>1, <3>2 DEF LastStatus
  <2> QED
    BY <2>1, <2>2
<1> QED
  BY <1>10, <1>13, <1>15, <1>16, <1>17 DEF FateOK, Accounts
-----------------------------------------------------------------------------
(* What the calls ask for *)

\* The manager's thread adds or cancels the order of its call, the API's asks
\* for the book; a stop asks for nothing.
RequestsOK ==
  /\ ~Idle("pm") /\ call["pm"].op # "stop" =>
       /\ call["pm"].request.id = call["pm"].id
       /\ call["pm"].request.command = IF call["pm"].op = "submit" THEN "ADD_ORDER" ELSE "CANCEL_ORDER"
  /\ \A t \in Threads \ {"pm"} :
       ~Idle(t) /\ call[t].op # "stop" => call[t].request.command = "GET_BOOK_INFO"

\* A step of a call that was under way.
Continues ==
  \A t \in Threads : call'[t].at # "idle" =>
    /\ ~Idle(t) /\ call'[t].op = call[t].op /\ call'[t].id = call[t].id
    /\ call'[t].request = call[t].request

\* It changes nothing of what the call asks for.
LEMMA ContinuesKeepsRequests ==
  ASSUME RequestsOK, Continues PROVE RequestsOK'
BY BrokerAssumption DEF RequestsOK, Continues, Idle

\* What is done with an answer is a step of the call.
LEMMA AnswerContinues ==
  ASSUME Calls, NEW t \in Threads, Answers(t) \/ Stopped(t)
  PROVE  /\ Continues /\ Others(t) /\ ~Idle(t)
         /\ call'[t].at \in {"idle", "cleanup"}
<1>1. call[t].at \in {"answer", "cleanup"} /\ (Goto(t, "cleanup") \/ Return(t))
  BY AnswersLeave DEF At
<1>2. "cleanup" \in Places \ {"wait"}
  BY DEF Places
<1>3. CASE Goto(t, "cleanup")
  BY <1>1, <1>2, <1>3, GoesTo DEF Continues, Others, Idle
<1>4. CASE Return(t)
  BY <1>1, <1>4, Returns DEF Continues, Others, Idle
<1> QED
  BY <1>1, <1>3, <1>4

\* A call that begins asks for what it is for.
LEMMA CallingKeepsRequests ==
  ASSUME Calls, RequestsOK, Calling PROVE RequestsOK'
<1>1. PICK Seen : call \in [Threads -> CallOf(Seen)]
  BY DEF Calls
<1>2. ASSUME NEW op, NEW id, NEW request, Begin("pm", op, id, request), request.id = id,
             request.command = IF op = "submit" THEN "ADD_ORDER" ELSE "CANCEL_ORDER"
      PROVE  RequestsOK'
  <2>1. /\ call'["pm"].op = op /\ call'["pm"].id = id /\ call'["pm"].request = request
        /\ \A u \in Threads \ {"pm"} : call'[u] = call[u]
    BY <1>1, <1>2, BrokerAssumption, BeginCall DEF Begin
  <2> QED
    BY <1>2, <2>1 DEF RequestsOK, Idle
<1>3. CASE \E c \in Clients, type \in OrderTypes, side \in Book!Sides, price \in Prices,
              quantity \in Quantities : Submit(c, type, side, price, quantity)
  <2>1. PICK request : /\ Begin("pm", "submit", NextId, request)
                       /\ request.id = NextId /\ request.command = "ADD_ORDER"
    BY <1>3 DEF Submit
  <2> QED
    BY <1>2, <2>1
<1>4. CASE \E c \in Clients : SubmitUnpriced(c)
  BY <1>4 DEF SubmitUnpriced, RequestsOK, Idle
<1>5. CASE \E id \in OrderIds : Cancel(id)
  <2>1. PICK id, request : /\ Begin("pm", "cancel", id, request)
                           /\ request.id = id /\ request.command = "CANCEL_ORDER"
    BY <1>5 DEF Cancel
  <2> QED
    BY <1>2, <2>1
<1>6. CASE "api" \in Threads /\ GetMarketDataSnapshot
  <2>1. PICK request : Begin("api", "info", Null, request) /\ request.command = "GET_BOOK_INFO"
    BY <1>6 DEF GetMarketDataSnapshot
  <2>2. call'["api"].request = request /\ \A u \in Threads \ {"api"} : call'[u] = call[u]
    BY <1>1, <1>6, <2>1, BeginCall DEF Begin
  <2> QED
    BY <2>1, <2>2, BrokerAssumption DEF RequestsOK, Idle
<1> QED
  BY <1>3, <1>4, <1>5, <1>6 DEF Calling

\* Every step keeps it.
LEMMA NextKeepsRequests ==
  ASSUME SocketInv, ReportInv, RequestsOK, [Next]_vars PROVE RequestsOK'
<1>0. Calls /\ SocketsOK /\ MessagesOK /\ CallersOK
  BY DEF SocketInv, ReportInv
<1>1. ASSUME NEW t \in Threads, Step(t) \/ Stopped(t) PROVE Continues
  <2>1. CASE Requests(t)
    <3>1. GoesOn(t)
      BY <1>0, <2>1, RequestGoesOn
    <3> QED
      BY <3>1 DEF GoesOn, Others, Continues, Idle
  <2>2. CASE Answers(t) \/ Stopped(t)
    BY <1>0, <2>2, AnswerContinues
  <2> QED
    BY <1>1, <2>1, <2>2, StepIs
<1>2. CASE \/ \E s \in Sockets : ServeRequest(s) \/ Linger(s)
           \/ ServerRestarts \/ UNCHANGED vars
  <2>1. call' = call
    BY <1>2, Zenon DEF ServeRequest, Linger, ServerRestarts, vars
  <2> QED
    BY <2>1 DEF RequestsOK, Idle
<1>4. ASSUME NEW t \in Threads, Stop(t) PROVE RequestsOK'
  <2>1. Others(t) /\ call'[t].op = "stop"
    BY <1>0, <1>4, StopShape DEF Moves
  <2> QED
    BY <2>1, BrokerAssumption DEF RequestsOK, Others, Idle
<1>3. CASE ClientRestarts
  <2>1. \A t \in Threads : call'[t].at = "idle"
    BY <1>3 DEF ClientRestarts, NoCall
  <2> QED
    BY <2>1, BrokerAssumption DEF RequestsOK, Idle
<1> QED
  BY <1>0, <1>1, <1>2, <1>3, <1>4, CallingKeepsRequests, ContinuesKeepsRequests DEF Next

-----------------------------------------------------------------------------
(* Steps that add no order *)

\* Nothing trades, so at most an order leaves the book.
LEMMA OtherServeKeepsFate ==
  ASSUME SocketInv, ReportInv, OwnersOK, FateOK, NEW s \in Sockets, ServeRequest(s), NEW id,
         \/ wire[s].command = "ADD_ORDER" /\ Book!AddDuplicate(id)
         \/ wire[s].command = "CANCEL_ORDER" /\ Book!Cancel(id)
         \/ wire[s].command = "GET_BOOK_INFO" /\ Book!Report
  PROVE  FateOK'
<1>1. ~(wire[s].command = "ADD_ORDER" /\ reply'.order # Null)
  BY DEF Book!AddDuplicate
<1>2. owner' = owner /\ executed' = executed
  BY <1>1, Zenon DEF ServeRequest
<1>3. /\ UNCHANGED <<details, told, call>>
      /\ wire' = [wire EXCEPT ![s] = IF state[s] # "closed" THEN Answer(reply') ELSE Null]
      /\ Answer(reply').kind = "answer" /\ wire = [w \in Sockets |-> wire[w]]
  BY ServeKeepsBook, Zenon DEF ServeRequest, Serve, maps, ReportInv, MessagesOK
<1>4. DOMAIN resting' \subseteq DOMAIN resting /\ \A i \in DOMAIN resting' : resting'[i] = resting[i]
  <2>1. CASE Book!Cancel(id)
    <3>1. resting' = [i \in DOMAIN resting \ {id} |-> resting[i]] \/ resting' = resting
      BY <2>1 DEF Book!Cancel, Book!Restrict
    <3> QED
      BY <3>1
  <2>2. CASE Book!AddDuplicate(id) \/ Book!Report
    BY <2>2 DEF Book!AddDuplicate, Book!Report
  <2> QED
    BY <2>1, <2>2
<1>5. \A w \in Sockets : Adds(w)' => Adds(w) /\ wire'[w] = wire[w]
  BY <1>3 DEF Adds, Requested
<1>6. Unsent' => /\ Unsent /\ told' = told
                 /\ call'["pm"].id = call["pm"].id /\ call'["pm"].request = call["pm"].request
  BY <1>3 DEF Unsent
<1>7. \A c \in DOMAIN told' : LastStatus(c)' \in Over => c \in DOMAIN told /\ (LastStatus(c) \in Over \/ Past(c))
  BY <1>3 DEF LastStatus
<1> QED
  BY <1>2, <1>3, <1>4, <1>5, <1>6, <1>7, FewerKeepFate DEF OwnersOK

\* Messages only get lost.
Loses == \A s \in Sockets : wire'[s] \in {wire[s], Null}

\* Then no order is added to the wire.
LEMMA LosesAdds ==
  ASSUME Loses PROVE \A s \in Sockets : Adds(s)' => Adds(s) /\ wire'[s] = wire[s]
BY DEF Loses, Adds, Requested

\* Closing a socket, or replacing it, loses at most its message.
LEMMA ClosingLoses ==
  ASSUME SocketsOK, MessagesOK, NEW t, CloseSocket(t) \/ (\E s : SetSocket(t, s)) PROVE Loses
<1>1. CASE CloseSocket(t)
  <2>1. socket \in Sockets
    BY <1>1 DEF CloseSocket, SocketsOK
  <2> QED
    BY <1>1, <2>1 DEF MessagesOK, CloseSocket, Loses
<1>2. CASE \E s : SetSocket(t, s)
  BY <1>2 DEF SetSocket, Loses
<1> QED
  BY <1>1, <1>2

\* So do the steps of a request other than its sending.
LEMMA RequestLoses ==
  ASSUME SocketsOK, MessagesOK, NEW t \in Threads, Requests(t), ~Send(t)
  PROVE  Loses
<1>1. CASE \/ Looks(t) \/ NoSocket(t) \/ Recv(t) \/ ReceiveBroken(t) \/ Timeout(t) \/ ReturnNone(t)
  <2>1. wire' = wire
    BY <1>1, LookGoes, Zenon DEF NoSocket, Recv, ReceiveBroken, Timeout, ReturnNone
  <2> QED
    BY <2>1 DEF Loses
<1>2. CASE Open(t) \/ CloseSocket(t) \/ Forget(t)
  <2>1. CloseSocket(t) \/ \E s : SetSocket(t, s)
    BY <1>2 DEF Open, Forget
  <2> QED
    BY <2>1, ClosingLoses
<1>3. CASE Receive(t)
  <2>1. wire' = [wire EXCEPT ![call[t].on] = Null]
    BY <1>3 DEF Receive
  <2> QED
    BY <2>1 DEF Loses, MessagesOK
<1> QED
  BY <1>1, <1>2, <1>3, Zenon DEF Requests

\* A step of the client that loses messages and reports nothing.
LEMMA QuietKeepsFate ==
  ASSUME FateOK, SocketInv, ReportInv, OwnersOK, Loses,
         UNCHANGED <<resting, owner, executed, told>>,
         DOMAIN details' \subseteq DOMAIN details,
         \A id \in DOMAIN details' : /\ details'[id].client = details[id].client
                                     /\ details'[id].quantity = details[id].quantity,
         Unsent' => /\ Unsent
                    /\ call'["pm"].id = call["pm"].id /\ call'["pm"].request = call["pm"].request
  PROVE  FateOK'
<1>1. \A c \in DOMAIN told' : LastStatus(c)' \in Over => c \in DOMAIN told /\ (LastStatus(c) \in Over \/ Past(c))
  BY DEF LastStatus
<1>2. \A s \in Sockets : Adds(s)' => Adds(s) /\ wire'[s] = wire[s]
  BY LosesAdds
<1>3. DOMAIN resting' \subseteq DOMAIN owner'
  BY DEF OwnersOK
<1> QED
  BY <1>1, <1>2, <1>3, FewerKeepFate

\* The order of the manager's call goes on the wire.
LEMMA SendKeepsFate ==
  ASSUME FateOK, SocketInv, ReportInv, OwnersOK, RequestsOK, NEW t \in Threads, Send(t) PROVE FateOK'
<1>0. /\ Calls /\ SocketsOK /\ MessagesOK /\ CallersOK
      /\ NamesOK /\ SizesOK /\ OnceOK /\ Accounts /\ FinishedIsGone
  BY DEF SocketInv, ReportInv, FateOK
<1>1. /\ At(t, "send") /\ socket \in Sockets /\ wire' = [wire EXCEPT ![socket] = call[t].request]
      /\ UNCHANGED <<resting, owner, executed, told, details>>
      /\ call[t].at = "send" /\ Goto(t, "recv")
  BY <1>0 DEF Send, bookVars, maps, history, SocketsOK, At
<1>2. Others(t) /\ call'[t].at = "recv"
  BY <1>0, <1>1, GoesTo DEF Places
<1>3. wire'[socket] = call[t].request /\ \A s \in Sockets \ {socket} : wire'[s] = wire[s]
  BY <1>0, <1>1 DEF MessagesOK
<1>4. CASE t = "pm" /\ call["pm"].op = "submit"
  <2> DEFINE request == call["pm"].request
  <2>1. Unsent /\ ~Unsent'
    BY <1>1, <1>2, <1>4 DEF Unsent, Opening
  <2>2. /\ request.id = call["pm"].id /\ request.id \in DOMAIN details
        /\ details[request.id].client = request.client
    BY <1>0, <1>1, <1>4 DEF RequestsOK, CallersOK, Idle
  <2>3. \A s \in Sockets : Adds(s)' => \/ Adds(s) /\ wire'[s] = wire[s]
                                       \/ s = socket /\ wire'[s] = request
    BY <1>3, <1>4 DEF Adds, Requested
  <2> HIDE DEF request
  <2>4. \A i, c : Names(i, c)' => Names(i, c)
    BY <1>1, <2>2, <2>3 DEF Names
  <2>5. NamesOK'
    BY <1>0, <1>1, <2>4 DEF NamesOK
  <2>6. SizesOK'
    <3>1. ASSUME NEW s \in Sockets, Adds(s)' PROVE Sized(wire[s])'
      <4>1. Sized(wire'[s])
        BY <1>0, <2>1, <2>3, <3>1 DEF SizesOK, request
      <4>2. Sized(wire[s])' <=> Sized(wire'[s])
        BY <1>1 DEF Sized
      <4> QED
        BY <4>1, <4>2
    <3> QED
      BY <1>0, <1>1, <2>1, <3>1 DEF SizesOK
  <2>7. OnceOK'
    <3>1. /\ Untouched(request.id, request.client)
          /\ \A s \in Sockets : Adds(s) => wire[s].id # request.id
      BY <1>0, <2>1, <2>2 DEF OnceOK, request
    <3>2. ASSUME NEW s \in Sockets, NEW w \in Sockets, Adds(s)', Adds(w)', wire'[s].id = wire'[w].id
          PROVE  s = w
      BY <1>0, <2>3, <3>1, <3>2 DEF OnceOK
    <3>3. ASSUME NEW s \in Sockets, Adds(s)' PROVE Untouched(wire[s].id, wire[s].client)'
      <4>1. Untouched(wire'[s].id, wire'[s].client)
        BY <1>0, <2>3, <3>1, <3>3 DEF OnceOK
      <4> QED
        BY <1>1, <4>1 DEF Untouched, LastStatus
    <3> QED
      BY <2>1, <3>2, <3>3 DEF OnceOK
  <2>8. Accounts' /\ FinishedIsGone'
    BY <1>0, <1>1 DEF Accounts, FinishedIsGone, LastStatus
  <2> QED
    BY <2>5, <2>6, <2>7, <2>8 DEF FateOK
<1>5. CASE ~(t = "pm" /\ call["pm"].op = "submit")
  <2>1. call[t].request.command # "ADD_ORDER"
    BY <1>0, <1>1, <1>5 DEF RequestsOK, CallersOK, StopPlaces, Idle
  <2>2. \A s \in Sockets : Adds(s)' => Adds(s) /\ wire'[s] = wire[s]
    BY <1>3, <2>1 DEF Adds, Requested
  <2>3. Unsent' => /\ Unsent /\ told' = told
                   /\ call'["pm"].id = call["pm"].id /\ call'["pm"].request = call["pm"].request
    BY <1>1, <1>2, BrokerAssumption DEF Unsent, Opening, Others
  <2>4. \A c \in DOMAIN told' : LastStatus(c)' \in Over
          => c \in DOMAIN told /\ (LastStatus(c) \in Over \/ Past(c))
    BY <1>1 DEF LastStatus
  <2> QED
    BY <1>1, <2>2, <2>3, <2>4, FewerKeepFate DEF OwnersOK
<1> QED
  BY <1>4, <1>5

\* The status of an order of the maps is all that changes.
LEMMA StatusKeeps ==
  ASSUME NEW orders, NEW reports, Tracked(orders, reports), NEW id \in DOMAIN orders, NEW status,
         NEW after, after = [orders EXCEPT ![id].status = status]
  PROVE  /\ DOMAIN after = DOMAIN orders
         /\ \A i \in DOMAIN orders : /\ after[i].client = orders[i].client
                                     /\ after[i].quantity = orders[i].quantity
                                     /\ after[i].filled_quantity = orders[i].filled_quantity
<1>1. PICK Seen : orders \in [DOMAIN orders -> OrderOf(Seen)]
  BY DEF Tracked
<1>2. orders[id] \in OrderOf(Seen)
  BY <1>1
<1> DEFINE changed == [orders[id] EXCEPT !.status = status]
<1>3. /\ changed.client = orders[id].client /\ changed.quantity = orders[id].quantity
      /\ changed.filled_quantity = orders[id].filled_quantity
  BY <1>2 DEF OrderOf
<1>4. after = [orders EXCEPT ![id] = changed]
  BY <1>1
<1> HIDE DEF changed
<1> QED
  BY <1>1, <1>3, <1>4

\* A new order has an id nobody knows and a client nothing was done for.
LEMMA SubmitKeepsFate ==
  ASSUME SocketInv, ReportInv, ExecInv, FateOK,
         NEW c \in Clients, NEW type \in OrderTypes, NEW side \in Book!Sides, NEW price \in Prices,
         NEW quantity \in Quantities, Submit(c, type, side, price, quantity)
  PROVE  FateOK'
<1> DEFINE order == [id |-> NextId, type |-> type, side |-> side, price |-> price,
                     initial |-> quantity, remaining |-> quantity]
           request == [kind |-> "request", command |-> "ADD_ORDER", id |-> NextId, order |-> order,
                       client |-> c]
           new == [client |-> c, quantity |-> quantity, filled_quantity |-> 0,
                   status |-> "PENDING_ACK"]
<1>1. /\ c \notin DOMAIN told /\ details' = Put(details, NextId, new) /\ told' = Put(told, c, << >>)
      /\ Begin("pm", "submit", NextId, request) /\ UNCHANGED <<wire, resting, executed, owner>>
  BY DEF Submit, bookVars
<1>2. /\ "pm" \in Threads /\ Calls /\ OwnersOK /\ KnownOK
      /\ broker_order_id_counter \in Nat /\ DOMAIN details \subseteq 1 .. broker_order_id_counter
      /\ NamesOK /\ SizesOK /\ OnceOK /\ Accounts /\ FinishedIsGone
  BY BrokerAssumption DEF ExecInv, ReportInv, MapsOK, FateOK
<1>3. call'["pm"].request = request /\ call'["pm"].id = NextId
  BY <1>1, <1>2, BeginCall
<1>4. NextId \notin 1 .. broker_order_id_counter
  BY <1>2 DEF NextId
<1>5. /\ request.client = c /\ request.id = NextId /\ request.order.initial = quantity
      /\ new.client = c /\ new.quantity = quantity /\ quantity > 0
  BY BrokerAssumption
<1> HIDE DEF request, new
<1>6. /\ DOMAIN details' = DOMAIN details \cup {NextId} /\ details'[NextId] = new
      /\ \A id \in DOMAIN details : details'[id] = details[id]
  BY <1>1, <1>2, <1>4 DEF Put
<1>7. /\ DOMAIN told' = DOMAIN told \cup {c} /\ told'[c] = << >>
      /\ \A d \in DOMAIN told : told'[d] = told[d]
  BY <1>1 DEF Put
<1>8. LastStatus(c)' \notin Over /\ \A d \in DOMAIN told : LastStatus(d)' = LastStatus(d)
  BY <1>7, NullAssumption DEF LastStatus, Over, Terminal
<1>9. /\ NextId \notin DOMAIN owner /\ NextId \notin DOMAIN resting
      /\ \A s \in Sockets : Adds(s) => wire[s].id # NextId
      /\ NextId \notin DOMAIN details
  BY <1>2, <1>4 DEF OwnersOK, KnownOK, AddsKnown, Adds
<1>10. \A s \in Sockets : Adds(s)' <=> Adds(s)
  BY <1>1 DEF Adds, Requested
<1>11. \A i, d : Names(i, d)' => Names(i, d) \/ (i = NextId /\ d = c)
  BY <1>1, <1>5, <1>6, <1>9, <1>10 DEF Names
<1>12. \A i : ~Names(i, c)
  BY <1>1, <1>2 DEF NamesOK
<1>13. NamesOK'
  <2>1. \A d, i, j : Names(i, d)' /\ Names(j, d)' => i = j
    BY <1>2, <1>11, <1>12 DEF NamesOK
  <2>2. \A i, d : Names(i, d)' => d \in DOMAIN told'
    BY <1>2, <1>7, <1>11 DEF NamesOK
  <2>3. \A d \in Clients \ DOMAIN told' : executed'[d] = 0
    BY <1>1, <1>2, <1>7 DEF NamesOK
  <2> QED
    BY <2>1, <2>2, <2>3 DEF NamesOK
<1>14. SizesOK'
  <2>1. ASSUME NEW s \in Sockets, Adds(s)' PROVE Sized(wire[s])'
    <3>1. Adds(s) /\ wire'[s] = wire[s] /\ Sized(wire[s]) /\ wire[s].id # NextId
      BY <1>1, <1>2, <1>9, <1>10, <2>1 DEF SizesOK
    <3> QED
      BY <1>6, <3>1 DEF Sized
  <2>2. Sized(call["pm"].request)'
    BY <1>3, <1>5, <1>6 DEF Sized
  <2>3. \A id \in DOMAIN resting' \cap DOMAIN details' : resting'[id].initial = details'[id].quantity
    BY <1>1, <1>2, <1>6, <1>9 DEF SizesOK
  <2> QED
    BY <2>1, <2>2, <2>3 DEF SizesOK
<1>15. OnceOK'
  <2>1. \A s, w \in Sockets : Adds(s)' /\ Adds(w)' /\ wire'[s].id = wire'[w].id => s = w
    BY <1>1, <1>2, <1>10 DEF OnceOK
  <2>2. ASSUME NEW s \in Sockets, Adds(s)' PROVE Untouched(wire[s].id, wire[s].client)'
    <3>1. Adds(s) /\ Untouched(wire[s].id, wire[s].client) /\ Names(wire[s].id, wire[s].client)
      BY <1>2, <1>10, <2>2 DEF OnceOK, Names
    <3>2. wire[s].client \in DOMAIN told
      BY <1>2, <3>1 DEF NamesOK
    <3> QED
      BY <1>1, <1>8, <3>1, <3>2 DEF Untouched
  <2>3. Untouched(call["pm"].id, call["pm"].request.client)'
    <3>1. executed[c] = 0
      BY <1>1, <1>2 DEF NamesOK
    <3> QED
      BY <1>1, <1>3, <1>5, <1>8, <1>9, <3>1 DEF Untouched
  <2>4. \A s \in Sockets : Adds(s)' => wire'[s].id # call'["pm"].id
    BY <1>1, <1>3, <1>9, <1>10
  <2> QED
    BY <2>1, <2>2, <2>3, <2>4 DEF OnceOK
<1>16. Accounts'
  BY <1>1, <1>2 DEF Accounts
<1>17. FinishedIsGone'
  <2> SUFFICES ASSUME NEW id \in DOMAIN resting' PROVE LastStatus(owner[id])' \notin Over
    BY DEF FinishedIsGone, Over
  <2>1. id \in DOMAIN owner /\ LastStatus(owner[id]) \notin Over
    BY <1>1, <1>2 DEF OwnersOK, FinishedIsGone, Over
  <2>2. owner[id] \in DOMAIN told
    BY <1>2, <2>1 DEF NamesOK, Names
  <2> QED
    BY <1>1, <1>8, <2>1, <2>2
<1> QED
  BY <1>13, <1>14, <1>15, <1>16, <1>17 DEF FateOK

\* A client whose order has no price has none.
LEMMA SubmitUnpricedKeepsFate ==
  ASSUME SocketInv, ReportInv, ExecInv, FateOK, NEW c, SubmitUnpriced(c) PROVE FateOK'
<1> DEFINE said == <<Confirmation("REJECTED", 0)>>
<1>1. /\ c \notin DOMAIN told /\ told' = Put(told, c, said) /\ Idle("pm")
      /\ UNCHANGED <<wire, resting, executed, owner, call, details>>
  BY DEF SubmitUnpriced, bookVars, maps, MayCall
<1>2. said # << >> /\ Last(said).status = "REJECTED"
  BY DEF Last, Confirmation
<1> HIDE DEF said
<1>3. /\ DOMAIN told' = DOMAIN told \cup {c} /\ told'[c] = said
      /\ \A d \in DOMAIN told : told'[d] = told[d]
  BY <1>1 DEF Put
<1>4. LastStatus(c)' \notin Over /\ \A d \in DOMAIN told : LastStatus(d)' = LastStatus(d)
  BY <1>2, <1>3 DEF LastStatus, Over
<1>5. \A d \in DOMAIN told' : LastStatus(d)' \in Over => d \in DOMAIN told /\ (LastStatus(d) \in Over \/ Past(d))
  BY <1>3, <1>4
<1>6. ~Unsent'
  BY <1>1 DEF Unsent, Opening, Idle
<1>7. OwnersOK /\ DOMAIN resting' \subseteq DOMAIN owner' /\ DOMAIN told \subseteq DOMAIN told'
  BY <1>1, <1>3 DEF ExecInv, OwnersOK
<1>8. \A s \in Sockets : Adds(s)' => Adds(s) /\ wire'[s] = wire[s]
  BY <1>1 DEF Adds, Requested
<1> QED
  BY <1>1, <1>5, <1>6, <1>7, <1>8, FewerKeepFate

\* A call to cancel, or to ask for the book, begins.
LEMMA AskKeepsFate ==
  ASSUME SocketInv, ReportInv, ExecInv, FateOK,
         \/ \E id : Cancel(id)
         \/ "api" \in Threads /\ GetMarketDataSnapshot
  PROVE  FateOK'
<1>1. /\ OwnersOK /\ Calls /\ Tracked(details, told) /\ "pm" \in Threads
  BY BrokerAssumption DEF ExecInv, ReportInv, MapsOK
<1>2. UNCHANGED <<wire, resting, executed, owner, told>>
  BY DEF Cancel, GetMarketDataSnapshot, bookVars, maps, history
<1>3. Loses
  BY <1>2 DEF Loses
<1>4. CASE \E id : Cancel(id)
  <2>0. PICK id : Cancel(id)
    BY <1>4
  <2>1. PICK request : Begin("pm", "cancel", id, request)
    BY <2>0 DEF Cancel
  <2>2. ~Unsent'
    BY <1>1, <2>1, BeginCall DEF Unsent
  <2> DEFINE marked == [details EXCEPT ![id].status = "PENDING_CANCEL"]
  <2>3. id \in DOMAIN details /\ details' = marked
    BY <2>0 DEF Cancel
  <2>4. /\ DOMAIN marked = DOMAIN details
        /\ \A i \in DOMAIN details : marked[i].client = details[i].client /\ marked[i].quantity = details[i].quantity
    BY <1>1, <2>3, StatusKeeps
  <2> HIDE DEF marked
  <2> QED
    BY <1>1, <1>2, <1>3, <2>2, <2>3, <2>4, QuietKeepsFate
<1>5. CASE "api" \in Threads /\ GetMarketDataSnapshot
  <2>1. PICK request : Begin("api", "info", Null, request)
    BY <1>5 DEF GetMarketDataSnapshot
  <2>2. call'["pm"] = call["pm"]
    BY <1>1, <1>5, <2>1, BeginCall
  <2>3. details' = details
    BY <1>5 DEF GetMarketDataSnapshot, maps
  <2> QED
    BY <1>1, <1>2, <1>3, <2>2, <2>3, QuietKeepsFate DEF Unsent
<1> QED
  BY <1>4, <1>5

\* A stop begins.
LEMMA StopKeepsFate ==
  ASSUME SocketInv, ReportInv, OwnersOK, FateOK, NEW t \in Threads, Stop(t) PROVE FateOK'
<1>1. Calls /\ UNCHANGED <<wire, resting, executed, owner, told, details>>
  BY DEF ReportInv, Stop, bookVars, maps, history
<1>2. Others(t) /\ call'[t].op = "stop"
  BY <1>1, StopShape DEF Moves
<1>3. Unsent' => Unsent /\ call'["pm"] = call["pm"]
  BY <1>2, BrokerAssumption DEF Unsent, Others
<1>4. Loses
  BY <1>1 DEF Loses
<1> QED
  BY <1>1, <1>3, <1>4, QuietKeepsFate

-----------------------------------------------------------------------------
(* Steps that report *)

\* The order is neither in the book nor on its way to it.
Gone(id) == id \notin DOMAIN resting /\ \A s \in Sockets : Adds(s) => wire[s].id # id

\* Then its client has none in either.
LEMMA GoneIsPast ==
  ASSUME NamesOK, OwnersOK, NEW id \in DOMAIN details, Gone(id) PROVE Past(details[id].client)
<1>1. Names(id, details[id].client)
  BY DEF Names
<1>2. \A x \in DOMAIN resting : owner[x] # details[id].client
  <2> SUFFICES ASSUME NEW x \in DOMAIN resting, owner[x] = details[id].client PROVE FALSE
    OBVIOUS
  <2>1. Names(x, details[id].client)
    BY DEF Names, OwnersOK
  <2> QED
    BY <1>1, <2>1 DEF NamesOK, Gone
<1>3. \A s \in Sockets : Adds(s) => wire[s].client # details[id].client
  <2> SUFFICES ASSUME NEW s \in Sockets, Adds(s), wire[s].client = details[id].client PROVE FALSE
    OBVIOUS
  <2>1. Names(wire[s].id, details[id].client)
    BY DEF Names
  <2> QED
    BY <1>1, <2>1 DEF NamesOK, Gone
<1> QED
  BY <1>2, <1>3 DEF Past

\* So it is when all of its order was executed.
LEMMA FilledIsPast ==
  ASSUME FateOK, OwnersOK, BookOK, NEW id \in DOMAIN details, details[id].quantity \in Nat,
         details[id].client \in Clients, details[id].quantity <= executed[details[id].client]
  PROVE  Past(details[id].client)
<1>0. /\ NamesOK /\ SizesOK /\ OnceOK /\ Accounts
      /\ executed[details[id].client] \in Nat
  BY DEF FateOK, OwnersOK
<1>1. Names(id, details[id].client)
  BY DEF Names
<1>2. \A x \in DOMAIN resting : owner[x] # details[id].client
  <2> SUFFICES ASSUME NEW x \in DOMAIN resting, owner[x] = details[id].client PROVE FALSE
    OBVIOUS
  <2>1. Names(x, details[id].client)
    BY DEF Names, OwnersOK
  <2>2. x = id
    BY <1>0, <1>1, <2>1 DEF NamesOK
  <2>3. /\ resting[id].initial = details[id].quantity /\ resting[id].remaining > 0
        /\ executed[details[id].client] + resting[id].remaining = resting[id].initial
    BY <1>0, <2>2 DEF SizesOK, Accounts
  <2>4. resting[id].remaining \in Nat
    BY <2>2, RestingTyped
  <2> QED
    BY <1>0, <2>3, <2>4
<1>3. \A s \in Sockets : Adds(s) => wire[s].client # details[id].client
  <2> SUFFICES ASSUME NEW s \in Sockets, Adds(s), wire[s].client = details[id].client PROVE FALSE
    OBVIOUS
  <2>1. Names(wire[s].id, details[id].client)
    BY DEF Names
  <2>2. wire[s].id = id
    BY <1>0, <1>1, <2>1 DEF NamesOK
  <2>3. Sized(wire[s]) /\ Untouched(wire[s].id, wire[s].client)
    BY <1>0 DEF SizesOK, OnceOK
  <2>4. details[id].quantity > 0 /\ executed[details[id].client] = 0
    BY <2>2, <2>3 DEF Sized, Untouched
  <2> QED
    BY <2>4
<1> QED
  BY <1>2, <1>3 DEF Past

\* The manager's thread is done with its answer, and the orders it reports as
\* over are.
LEMMA ReportKeepsFate ==
  ASSUME FateOK, SocketInv, ReportInv, OwnersOK, UNCHANGED <<wire, resting, executed, owner>>,
         DOMAIN details' \subseteq DOMAIN details,
         \A id \in DOMAIN details' : /\ details'[id].client = details[id].client
                                     /\ details'[id].quantity = details[id].quantity,
         DOMAIN told' = DOMAIN told,
         \A c \in DOMAIN told : LastStatus(c)' \in Over => LastStatus(c) \in Over \/ Past(c),
         ~Unsent'
  PROVE  FateOK'
<1>1. \A s \in Sockets : Adds(s)' => Adds(s) /\ wire'[s] = wire[s]
  BY DEF Adds, Requested
<1>2. DOMAIN resting' \subseteq DOMAIN owner'
  BY DEF OwnersOK
<1>3. \A c \in DOMAIN told' : LastStatus(c)' \in Over => c \in DOMAIN told /\ (LastStatus(c) \in Over \/ Past(c))
  OBVIOUS
<1> QED
  BY <1>1, <1>2, <1>3, FewerKeepFate

\* What the maps say was filled is what was reported.
Tallied == TalliedIn(details, told)

\* The maps lose orders, and nothing is reported of shares.
LEMMA QuietKeepsTallied ==
  ASSUME Tallied, DOMAIN details' \subseteq DOMAIN details,
         \A id \in DOMAIN details' : /\ details'[id].client = details[id].client
                                     /\ details'[id].filled_quantity = details[id].filled_quantity
                                     /\ Reported(told', details[id].client) = Reported(told, details[id].client)
  PROVE  Tallied'
<1>1. \A id \in DOMAIN details' : details'[id].filled_quantity = Reported(told', details'[id].client)
  BY DEF Tallied, TalliedIn
<1> QED
  BY <1>1 DEF Tallied, TalliedIn

\* A rejection, and a cancel that the book has confirmed.
LEMMA FinalReportKeepsFate ==
  ASSUME SocketInv, ReportInv, WireOK, ExecInv, FateOK, Tallied, NEW t \in Threads,
         \/ SubmitFailed(t)
         \/ CancelAnswered(t) /\ Gone(call["pm"].id)
  PROVE  FateOK' /\ Tallied'
<1>1. /\ OwnersOK /\ MapsOK /\ Calls /\ Counted(told) /\ Tracked(details, told) /\ NamesOK
  BY DEF ExecInv, ReportInv, MapsOK, OwnersOK, FateOK
<1>2. /\ UNCHANGED <<wire, resting, executed, owner>>
      /\ At(t, "answer") /\ call[t].op \in {"submit", "cancel"} /\ Goto(t, "cleanup")
  BY DEF SubmitFailed, CancelAnswered, bookVars, maps
<1>3. /\ t = "pm" /\ call[t].id \in DOMAIN details
      /\ details[call[t].id].client = call[t].request.client
  BY <1>2, AtAnswer
<1> DEFINE c == call[t].request.client
<1>4. ~Unsent'
  <2>1. call'[t].at = "cleanup"
    BY <1>1, <1>2, GoesTo DEF At, Places
  <2> QED
    BY <1>3, <2>1 DEF Unsent, Opening
<1>5. PICK status : /\ told' = Tell(told, c, Confirmation(status, 0))
                    /\ status \in Over => Past(c)
  <2>1. CASE SubmitFailed(t)
    BY <2>1 DEF SubmitFailed, Over
  <2>2. CASE CancelAnswered(t) /\ Gone(call["pm"].id)
    <3>1. Past(c)
      BY <1>1, <1>3, <2>2, GoneIsPast
    <3> QED
      BY <2>2, <3>1 DEF CancelAnswered
  <2> QED
    BY <2>1, <2>2
<1>6. c \in DOMAIN told
  BY <1>1, <1>3 DEF Tracked
<1>7. /\ DOMAIN told' = DOMAIN told
      /\ LastOf(told', c) = status
      /\ \A d \in DOMAIN told \ {c} : LastOf(told', d) = LastOf(told, d)
  BY <1>1, <1>5, <1>6, TellEnds
<1>8. \A d \in DOMAIN told : Reported(told', d) = Reported(told, d)
  <2>1. /\ Reported(told', c) = Reported(told, c) + 0
        /\ \A d \in DOMAIN told \ {c} : Reported(told', d) = Reported(told, d)
    BY <1>1, <1>5, <1>6, TellAdds
  <2>2. \A d \in DOMAIN told : Reported(told, d) \in Nat
    BY BackedNumbers, <1>1
  <2> QED
    BY <1>6, <2>1, <2>2
<1>9. \A d \in DOMAIN told : LastStatus(d)' \in Over => LastStatus(d) \in Over \/ Past(d)
  <2>1. \A d : LastStatus(d)' = LastOf(told', d) /\ LastStatus(d) = LastOf(told, d)
    BY DEF LastStatus, LastOf
  <2> QED
    BY <1>5, <1>7, <2>1
<1>10. /\ DOMAIN details' = DOMAIN details
       /\ \A i \in DOMAIN details : /\ details'[i].client = details[i].client
                                    /\ details'[i].quantity = details[i].quantity
                                    /\ details'[i].filled_quantity = details[i].filled_quantity
  <2>1. CASE SubmitFailed(t)
    BY <2>1 DEF SubmitFailed, maps
  <2>2. CASE CancelAnswered(t)
    <3>1. details' = [details EXCEPT ![call[t].id].status = "CANCELLED"]
      BY <2>2 DEF CancelAnswered
    <3> QED
      BY <1>1, <1>3, <3>1, StatusKeeps
  <2> QED
    BY <2>1, <2>2
<1>11. FateOK'
  BY <1>1, <1>2, <1>4, <1>7, <1>9, <1>10, ReportKeepsFate
<1>12. Tallied'
  BY <1>1, <1>8, <1>10, QuietKeepsTallied DEF Tracked
<1> QED
  BY <1>11, <1>12

\* A failed cancel, the API's answer, a stop, and the end of a call.
LEMMA QuietAnswerKeepsFate ==
  ASSUME SocketInv, ReportInv, WireOK, ExecInv, FateOK, Tallied, NEW t \in Threads,
         CancelFailed(t) \/ InfoReturned(t) \/ Stopped(t) \/ Cleanup(t)
  PROVE  FateOK' /\ Tallied'
<1>1. OwnersOK /\ Calls /\ Tracked(details, told)
  BY DEF ExecInv, ReportInv, MapsOK
<1>2. /\ UNCHANGED <<wire, resting, executed, owner, told>>
      /\ Return(t) /\ call[t].at # "wait"
  BY DEF CancelFailed, InfoReturned, Stopped, Cleanup, bookVars, maps, history, At
<1>3. /\ DOMAIN details' \subseteq DOMAIN details
      /\ \A i \in DOMAIN details' : /\ details'[i].client = details[i].client
                                    /\ details'[i].quantity = details[i].quantity
                                    /\ details'[i].filled_quantity = details[i].filled_quantity
  <2>1. CASE CancelFailed(t)
    <3>1. call[t].id \in DOMAIN details
      BY <2>1, AtAnswer DEF CancelFailed
    <3>2. details' = [details EXCEPT ![call[t].id].status = "WORKING"]
      BY <2>1 DEF CancelFailed
    <3> QED
      BY <1>1, <3>1, <3>2, StatusKeeps
  <2>2. CASE InfoReturned(t) \/ Stopped(t)
    BY <2>2 DEF InfoReturned, Stopped, maps
  <2>3. CASE Cleanup(t)
    <3> DEFINE cleaned == CleanedUp(details, call[t].id)
    <3>1. /\ DOMAIN cleaned = DOMAIN details \ {call[t].id}
          /\ \A i \in DOMAIN details \ {call[t].id} : cleaned[i] = details[i]
      BY <1>1, CleanUpKeeps
    <3>2. details' = cleaned
      BY <2>3 DEF Cleanup
    <3> HIDE DEF cleaned
    <3> QED
      BY <3>1, <3>2
  <2> QED
    BY <2>1, <2>2, <2>3
<1>4. Unsent' => Unsent /\ call'["pm"].id = call["pm"].id /\ call'["pm"].request = call["pm"].request
  BY <1>1, <1>2, Returns, BrokerAssumption DEF Unsent, Opening, Others
<1>5. FateOK'
  BY <1>1, <1>2, <1>3, <1>4, QuietKeepsFate DEF Loses
<1>6. Tallied'
  BY <1>2, <1>3, QuietKeepsTallied
<1> QED
  BY <1>5, <1>6

\* A submission: its fills, then what the book says of the order in the end.
LEMMA SubmitAnsweredKeepsFate ==
  ASSUME SocketInv, ReportInv, WireOK, ExecInv, FateOK, Tallied, NEW t \in Threads, SubmitAnswered(t),
         call["pm"].answer.final = "REJECTED_BY_BOOK" => Gone(call["pm"].id)
  PROVE  FateOK' /\ Tallied'
<1> DEFINE id == call[t].id
           final == call[t].answer.final
           base == [details |-> [details EXCEPT ![id].status = "ACKNOWLEDGED"], told |-> told]
           after == FoldLeft(ApplyFill, base, call[t].answer.fills)
           known == id \in DOMAIN after.details
           forced == known /\ final = "FILLED" /\ after.details[id].status # "FILLED"
           killed == known /\ final = "REJECTED_BY_BOOK"
           mark(status) == [after.details EXCEPT ![id].status = status]
           c == call[t].request.client
<1>1. /\ At(t, "answer") /\ call[t].op = "submit" /\ Ok(t)
      /\ UNCHANGED <<wire, resting, executed, owner>>
      /\ \/ /\ forced \/ killed
            /\ details' = mark(IF killed THEN "CANCELLED" ELSE "FILLED")
            /\ told' = IF killed THEN Tell(after.told, c, Confirmation("CANCELLED", 0)) ELSE after.told
            /\ Goto(t, "cleanup")
         \/ /\ details' = IF known /\ after.details[id].status = "ACKNOWLEDGED"
                            THEN mark("WORKING") ELSE after.details
            /\ told' = after.told
            /\ Return(t)
  BY Zenon DEF SubmitAnswered, bookVars
<1>2. /\ t = "pm" /\ ~Idle("pm") /\ ~At("pm", "cleanup") /\ id \in DOMAIN details
      /\ details[id].client = c
      /\ \A i \in DOMAIN details : ~Finished(told, details[i].client)
      /\ Calls /\ OwnersOK /\ Backed /\ BookOK /\ Counted(told) /\ NamesOK
      /\ Tracked(details, told) /\ Unfilled(details) /\ FinalLast(told)
  BY <1>1, AtAnswer, Zenon DEF ReportInv, MapsOK, MessagesOK, ExecInv, OwnersOK, FateOK
<1>3. FillsOK(call[t].answer) /\ call[t].answer # Null
  BY <1>1, Zenon DEF ReportInv, MessagesOK, Ok
<1>4. ~Unsent'
  <2>1. call[t].at # "wait" /\ "cleanup" \in Places \ {"wait"} /\ (Goto(t, "cleanup") \/ Return(t))
    BY <1>1, Zenon DEF At, Places
  <2>2. call'[t].at \in {"idle", "cleanup"}
    BY <1>2, <2>1, GoesTo, Returns
  <2> QED
    BY <1>2, <2>2 DEF Unsent, Opening
<1>5. \A d : LastStatus(d) = LastOf(told, d) /\ LastStatus(d)' = LastOf(told', d)
  BY DEF LastStatus, LastOf
<1>6. Settled(base) /\ base.told = told
  <2> DEFINE marked == [details EXCEPT ![id].status = "ACKNOWLEDGED"]
  <2>1. Tracked(marked, told) /\ Unfilled(marked)
    BY <1>2, StatusChanges
  <2>2. /\ DOMAIN marked = DOMAIN details
        /\ \A i \in DOMAIN details : /\ marked[i].client = details[i].client
                                     /\ marked[i].quantity = details[i].quantity
                                     /\ marked[i].filled_quantity = details[i].filled_quantity
    BY <1>2, StatusKeeps
  <2>3. base.details = marked /\ base.told = told
    OBVIOUS
  <2> HIDE DEF marked, base
  <2>4. Applied(base)
    BY <1>2, <2>1, <2>2, <2>3 DEF Applied
  <2>5. TalliedIn(base.details, base.told)
    BY <2>2, <2>3 DEF Tallied, TalliedIn
  <2> QED
    BY <1>2, <1>5, <2>2, <2>3, <2>4, <2>5 DEF Settled
<1> HIDE DEF base
<1>7. Settled(after)
  BY <1>3, <1>6, FillsSettle
<1>8. \A d \in DOMAIN told :
        /\ DOMAIN after.told = DOMAIN told
        /\ \A i \in DOMAIN details : details[i].client = d =>
             Reported(after.told, d) <= Reported(told, d) + FilledIn(call[t].answer, i)
  <2> HIDE DEF after
  <2>1. /\ after = FoldLeft(ApplyFill, base, call[t].answer.fills) /\ Applied(base)
        /\ Counted(base.told) /\ Tracked(details, base.told)
    BY <1>2, <1>6 DEF after, Settled
  <2> QED
    BY <1>3, <1>6, <2>1, FillsAdd
<1>9. \A i : AtHand(i) = FilledIn(call[t].answer, i)
  BY <1>2, <1>3 DEF AtHand
<1> HIDE DEF after, final
<1>10. /\ Tracked(after.details, after.told) /\ DOMAIN after.details \subseteq DOMAIN details
       /\ Counted(after.told) /\ TalliedIn(after.details, after.told)
       /\ \A i \in DOMAIN after.details : /\ after.details[i].client = details[i].client
                                          /\ after.details[i].quantity = details[i].quantity
  BY <1>7 DEF Settled, Applied
<1>11. c \in DOMAIN told /\ DOMAIN after.told = DOMAIN told
  <2>1. details[id].client \in DOMAIN told
    BY <1>2 DEF Tracked
  <2> QED
    BY <1>2, <1>8, <2>1
<1>12. ASSUME NEW d \in DOMAIN told, LastOf(after.told, d) \in Over
       PROVE  LastStatus(d) \in Over \/ Past(d)
  <2>1. CASE LastStatus(d) \in Over
    BY <2>1
  <2>2. CASE LastStatus(d) \notin Over
    <3>1. PICK i \in DOMAIN details :
            details[i].client = d /\ details[i].quantity <= Reported(after.told, d)
      BY <1>7, <1>11, <1>12, <2>2 DEF Settled
    <3>2. Reported(told, d) + OnTheWay(i) + AtHand(i) <= executed[d]
      BY <1>2, <3>1 DEF Backed
    <3>3. /\ Reported(told, d) \in Nat /\ executed[d] \in Nat
          /\ OnTheWay(i) \in Nat /\ AtHand(i) \in Nat
      BY <1>2, BackedNumbers
    <3>4. Reported(after.told, d) <= Reported(told, d) + AtHand(i)
      BY <1>8, <1>9, <3>1
    <3>5. Reported(after.told, d) \in Nat
      BY <1>10, <1>11, ReportedIsNat
    <3>6. details[i].quantity \in Nat
      BY <1>2 DEF Tracked, OrderOf
    <3>7. details[i].quantity <= executed[d]
      BY <3>1, <3>2, <3>3, <3>4, <3>5, <3>6
    <3>8. d \in Clients
      BY <1>2 DEF OwnersOK
    <3> QED
      BY <1>2, <3>1, <3>6, <3>7, <3>8, FilledIsPast
  <2> QED
    BY <2>1, <2>2
<1>13. killed => Past(c)
  BY <1>2, GoneIsPast DEF final
<1>14. /\ DOMAIN told' = DOMAIN told
       /\ \A d \in DOMAIN told : LastStatus(d)' \in Over => LastStatus(d) \in Over \/ Past(d)
       /\ \A d \in DOMAIN told : Reported(told', d) = Reported(after.told, d)
  <2>1. CASE told' = after.told
    BY <1>5, <1>11, <1>12, <2>1
  <2>2. CASE killed /\ told' = Tell(after.told, c, Confirmation("CANCELLED", 0))
    <3>1. /\ DOMAIN told' = DOMAIN after.told
          /\ \A d \in DOMAIN after.told \ {c} : LastOf(told', d) = LastOf(after.told, d)
      BY <1>10, <1>11, <2>2, TellEnds
    <3>2. /\ Reported(told', c) = Reported(after.told, c) + 0
          /\ \A d \in DOMAIN after.told \ {c} : Reported(told', d) = Reported(after.told, d)
      <4>1. 0 \in Nat /\ c \in DOMAIN after.told
        BY <1>11
      <4> QED
        BY <1>10, <2>2, <4>1, TellAdds
    <3>3. \A d \in DOMAIN after.told : Reported(after.told, d) \in Nat
      BY <1>10, ReportedIsNat
    <3> QED
      BY <1>5, <1>11, <1>12, <1>13, <2>2, <3>1, <3>2, <3>3
  <2> QED
    BY <1>1, <2>1, <2>2
<1>15. ASSUME known, NEW status, details' = mark(status)
       PROVE  /\ DOMAIN details' = DOMAIN after.details
              /\ \A i \in DOMAIN after.details : /\ details'[i].client = after.details[i].client
                                                 /\ details'[i].quantity = after.details[i].quantity
                                                 /\ details'[i].filled_quantity = after.details[i].filled_quantity
  BY <1>10, <1>15, StatusKeeps
<1>16. /\ DOMAIN details' = DOMAIN after.details
       /\ \A i \in DOMAIN after.details : /\ details'[i].client = after.details[i].client
                                          /\ details'[i].quantity = after.details[i].quantity
                                          /\ details'[i].filled_quantity = after.details[i].filled_quantity
  <2>1. \/ details' = after.details
        \/ known /\ \E status : details' = mark(status)
    BY <1>1
  <2> HIDE DEF mark, known
  <2> QED
    BY <1>15, <2>1
<1> HIDE DEF known, killed, forced, mark, c
<1>17. FateOK'
  BY <1>1, <1>2, <1>4, <1>10, <1>14, <1>16, ReportKeepsFate
<1>18. Tallied'
  <2>1. ASSUME NEW i \in DOMAIN details'
        PROVE  details'[i].filled_quantity = Reported(told', details'[i].client)
    <3>1. /\ i \in DOMAIN after.details /\ details'[i].client = after.details[i].client
          /\ details'[i].filled_quantity = after.details[i].filled_quantity
      BY <1>16, <2>1
    <3>2. after.details[i].client \in DOMAIN told
      BY <1>10, <1>11, <3>1 DEF Tracked
    <3>3. after.details[i].filled_quantity = Reported(after.told, after.details[i].client)
      BY <1>10, <3>1 DEF TalliedIn
    <3> QED
      BY <1>14, <3>1, <3>2, <3>3
  <2> QED
    BY <2>1 DEF Tallied, TalliedIn
<1> QED
  BY <1>17, <1>18

-----------------------------------------------------------------------------
(* The verdict of the book *)

\* A message about the order of a call of the manager's thread: a request to add
\* or to cancel it, or an answer that says that it is over.
Own(s) ==
  \/ Requested(s) /\ wire[s].command # "GET_BOOK_INFO"
  \/ Answered(s) /\ wire[s].final \in Verdicts

\* One that can still be received.
Live(s) == state[s] # "closed" /\ Own(s)

\* The call of the manager's thread expects an answer from the socket,
Expected(s) == (At("pm", "recv") /\ s = socket) \/ call["pm"].on = s

\* or has given up, and finds the socket waiting.
LeftOver(s) == call["pm"].at \notin {"recv", "wait"} \cup Replacing /\ s = socket

\* What a call receives is about its own order, and true when it says that the
\* order is over.
Traffic ==
  /\ \A s \in Sockets : Live(s) =>
       \/ /\ Expected(s)
          /\ Requested(s) => wire[s] = call["pm"].request
          /\ Answered(s) => Gone(call["pm"].id)
       \/ LeftOver(s)
  /\ At("pm", "answer") /\ call["pm"].answer # Null /\ call["pm"].answer.final \in Verdicts
       => Gone(call["pm"].id)

\* A step of the client or a loss leaves fewer messages about orders.
Fades ==
  \A s \in Sockets : /\ Adds(s)' => Adds(s) /\ wire'[s] = wire[s]
                     /\ Live(s)' => Live(s) /\ wire'[s] = wire[s]

\* Then an order that is gone stays so.
LEMMA GoneStays ==
  ASSUME Fades, DOMAIN resting' \subseteq DOMAIN resting, NEW id, Gone(id) PROVE Gone(id)'
BY DEF Gone, Fades

\* While the call of the manager's thread rests, only the other thread, which
\* does not hold its socket, replaces self.socket.
LEMMA OthersKeepTraffic ==
  ASSUME Calls, Traffic, Fades, DOMAIN resting' \subseteq DOMAIN resting,
         call'["pm"] = call["pm"],
         \A s \in Sockets : Live(s)' /\ s = socket => s = socket' \/ call["pm"].on = s
  PROVE  Traffic'
<1>1. \A id : Gone(id) => Gone(id)'
  BY GoneStays
<1>2. ASSUME NEW s \in Sockets, Live(s)'
      PROVE  \/ /\ Expected(s)'
                /\ Requested(s)' => wire'[s] = call'["pm"].request
                /\ Answered(s)' => Gone(call["pm"].id)'
             \/ LeftOver(s)'
  <2>1. Live(s) /\ wire'[s] = wire[s]
    BY <1>2 DEF Fades
  <2>2. (Requested(s)' <=> Requested(s)) /\ (Answered(s)' <=> Answered(s))
    BY <2>1 DEF Requested, Answered
  <2>3. s = socket => s = socket' \/ call["pm"].on = s
    BY <1>2
  <2>4. CASE /\ Expected(s)
             /\ Requested(s) => wire[s] = call["pm"].request
             /\ Answered(s) => Gone(call["pm"].id)
    <3>1. Expected(s)'
      BY <2>3, <2>4 DEF Expected, At
    <3>2. Answered(s)' => Gone(call["pm"].id)'
      BY <1>1, <2>2, <2>4
    <3> QED
      BY <2>1, <2>2, <2>4, <3>1, <3>2
  <2>5. CASE LeftOver(s)
    <3>1. call["pm"].on # s
      BY <2>5, BrokerAssumption DEF LeftOver, Calls
    <3> QED
      BY <2>3, <2>5, <3>1 DEF LeftOver
  <2> QED
    BY <2>1, <2>4, <2>5 DEF Traffic
<1>3. At("pm", "answer")' /\ call'["pm"].answer # Null /\ call'["pm"].answer.final \in Verdicts
        => Gone(call["pm"].id)'
  BY <1>1 DEF Traffic, At
<1> QED
  BY <1>2, <1>3 DEF Traffic

\* The manager's thread asks the server nothing: what is on its socket is left
\* over from an earlier call.
LEMMA RestKeepsTraffic ==
  ASSUME Calls, Traffic, Fades,
         call["pm"].at \notin {"recv", "wait"}, call'["pm"].at \notin {"recv", "wait"} \cup Replacing,
         At("pm", "answer")' => call'["pm"].answer = Null,
         \A s \in Sockets : Live(s)' /\ s = socket => s = socket'
  PROVE  Traffic'
<1>1. \A s \in Sockets : ~Expected(s)
  BY BrokerAssumption DEF Expected, Calls, At
<1>2. ASSUME NEW s \in Sockets, Live(s)' PROVE LeftOver(s)'
  <2>1. LeftOver(s)
    BY <1>1, <1>2 DEF Fades, Traffic
  <2> QED
    BY <1>2, <2>1 DEF LeftOver
<1> QED
  BY <1>2 DEF Traffic, At

\* Nothing about its order is left on a socket.
LEMMA NoneKeepsTraffic ==
  ASSUME \A s \in Sockets : ~Live(s)',
         At("pm", "answer")' => call'["pm"].answer = Null
  PROVE  Traffic'
BY DEF Traffic, At

\* What a message of a live socket looks like.
LEMMA LiveMessage ==
  ASSUME WireOK, NEW s \in Sockets, Live(s), SocketsOK
  PROVE  wire[s] # Null /\ state[s] = "awaiting"
<1>1. wire[s] # Null
  BY DEF Live, Own, Requested, Answered
<1> QED
  BY <1>1 DEF WireOK, SocketsOK, Live

\* Less is live when messages get lost and no closed socket is opened.
LEMMA LosesFades ==
  ASSUME Loses, \A s \in Sockets : state'[s] # "closed" => state[s] # "closed" \/ wire'[s] = Null
  PROVE  Fades
<1> SUFFICES ASSUME NEW s \in Sockets, Live(s)' PROVE Live(s) /\ wire'[s] = wire[s]
  BY LosesAdds DEF Fades
<1>1. wire'[s] # Null /\ state'[s] # "closed"
  BY DEF Live, Own, Requested, Answered
<1>2. wire'[s] = wire[s] /\ state[s] # "closed"
  BY <1>1 DEF Loses
<1> QED
  BY <1>2 DEF Live, Own, Requested, Answered

\* Closing self.socket.
LEMMA ClosingFades ==
  ASSUME SocketsOK, MessagesOK, NEW t, CloseSocket(t)
  PROVE  Fades /\ \A s \in Sockets : Live(s)' => s # socket
<1>1. Loses
  BY ClosingLoses
<1>2. /\ \A s \in Sockets : state'[s] # "closed" => state[s] # "closed"
      /\ \A s \in Sockets : state'[s] # "closed" => s # socket
  BY BrokerAssumption DEF CloseSocket, SocketsOK
<1>3. Fades
  BY <1>1, <1>2, LosesFades
<1> QED
  BY <1>2, <1>3 DEF Live

\* Assigning self.socket closes the socket it was, unless it is held.
LEMMA AssigningFades ==
  ASSUME SocketsOK, MessagesOK, NEW t, Open(t) \/ Forget(t)
  PROVE  /\ Fades
         /\ \A s \in Sockets : Live(s)' /\ s = socket => s = socket' \/ Held(s, t)
<1>1. PICK s \in Sockets \cup {Null} : SetSocket(t, s) /\ (s # Null => wire[s] = Null)
  BY DEF Open, Forget
<1>2. Loses
  BY <1>1, ClosingLoses
<1>3. \A w \in Sockets : state'[w] # "closed" =>
        w = s \/ (state[w] # "closed" /\ (w = socket => Held(w, t)))
  BY <1>1 DEF SetSocket, SocketsOK
<1>4. \A w \in Sockets : w = s => wire'[w] = Null
  BY <1>1, <1>2, BrokerAssumption DEF Loses
<1>5. Fades
  BY <1>2, <1>3, <1>4, LosesFades
<1>6. socket' = s
  BY <1>1 DEF SetSocket
<1> QED
  BY <1>3, <1>5, <1>6 DEF Live

\* The steps of a request other than its sending.
LEMMA RequestFades ==
  ASSUME SocketInv, MessagesOK, NEW t \in Threads, Requests(t), ~Send(t)
  PROVE  Fades
<1>0. Calls /\ SocketsOK
  BY DEF SocketInv
<1>1. Loses
  BY <1>0, RequestLoses
<1>2. CASE Looks(t) \/ NoSocket(t) \/ Recv(t) \/ ReturnNone(t)
  <2>1. state' = state
    BY <1>2, LookGoes, Zenon DEF NoSocket, Recv, ReturnNone, sockets
  <2> QED
    BY <1>1, <2>1, LosesFades
<1>3. CASE Open(t) \/ Forget(t)
  BY <1>0, <1>3, AssigningFades
<1>4. CASE CloseSocket(t)
  BY <1>0, <1>4, ClosingFades
<1>5. CASE Receive(t) \/ ReceiveBroken(t) \/ Timeout(t)
  <2>1. \E then : Release(t, then) /\ (then # "closed" => state[call[t].on] # "closed")
    BY <1>5 DEF Receive, ReceiveBroken, Timeout
  <2>2. \A s \in Sockets : state'[s] # "closed" => state[s] # "closed"
    BY <1>0, <2>1 DEF Release, SocketsOK
  <2> QED
    BY <1>1, <2>2, LosesFades
<1> QED
  BY <1>2, <1>3, <1>4, <1>5 DEF Requests

\* A request of the other thread.
LEMMA ApiKeepsTraffic ==
  ASSUME SocketInv, ReportInv, WireOK, RequestsOK, Traffic, NEW t \in Threads \ {"pm"}, Requests(t)
  PROVE  Traffic'
<1>0. Calls /\ SocketsOK /\ MessagesOK /\ CallersOK /\ "pm" \in Threads
  BY BrokerAssumption DEF SocketInv, ReportInv
<1>1. call'["pm"] = call["pm"] /\ resting' = resting
  <2>1. GoesOn(t)
    BY <1>0, RequestGoesOn
  <2> QED
    BY <1>0, <2>1 DEF GoesOn, Others
<1>2. CASE Send(t)
  <2>1. /\ wire' = [wire EXCEPT ![socket] = call[t].request] /\ call[t].at = "send"
        /\ state' = [state EXCEPT ![socket] = "awaiting"] /\ socket \in Sockets /\ socket' = socket
    BY <1>0, <1>2 DEF Send, At, SocketsOK
  <2>2. call[t].request.command = "GET_BOOK_INFO" /\ call[t].request.kind = "request"
    <3>1. call[t].op # "stop"
      BY <1>0, <2>1 DEF CallersOK, StopPlaces
    <3> QED
      BY <1>0, <2>1, <3>1 DEF RequestsOK, Idle, CallersOK, RequestOK
  <2>3. \A s \in Sockets \ {socket} : wire'[s] = wire[s] /\ state'[s] = state[s]
    BY <1>0, <2>1 DEF MessagesOK, SocketsOK
  <2>4. wire'[socket] = call[t].request
    BY <1>0, <2>1 DEF MessagesOK
  <2>5. ~Live(socket)'
    <3>1. ~Own(socket)'
      BY <2>1, <2>2, <2>4 DEF Own, Requested, Answered
    <3> QED
      BY <3>1 DEF Live
  <2>6. \A s \in Sockets : Live(s)' => s # socket
    BY <2>1, <2>5
  <2>7. ASSUME NEW s \in Sockets, Live(s)'
        PROVE  /\ Live(s) /\ wire'[s] = wire[s] /\ s # socket
    BY <2>3, <2>6, <2>7 DEF Live, Own, Requested, Answered
  <2>8. \A s \in Sockets : Adds(s)' => Adds(s) /\ wire'[s] = wire[s]
    BY <2>2, <2>3, <2>4 DEF Adds, Requested
  <2>9. Fades
    BY <2>7, <2>8 DEF Fades
  <2> QED
    BY <1>0, <1>1, <2>1, <2>9, OthersKeepTraffic
<1>3. CASE \/ Looks(t) \/ NoSocket(t) \/ Recv(t) \/ Receive(t) \/ ReceiveBroken(t) \/ Timeout(t)
           \/ CloseSocket(t) \/ ReturnNone(t)
  <2>1. socket' = socket
    BY <1>3, LookGoes, Zenon DEF NoSocket, Recv, Receive, ReceiveBroken, Timeout, CloseSocket, ReturnNone,
                                 sockets
  <2>2. CASE ~Send(t)
    BY <1>0, <1>1, <2>1, <2>2, RequestFades, OthersKeepTraffic
  <2> QED
    BY <1>2, <2>2
<1>4. CASE Open(t) \/ Forget(t)
  <2>1. Fades /\ \A s \in Sockets : Live(s)' /\ s = socket => s = socket' \/ Held(s, t)
    BY <1>0, <1>4, AssigningFades
  <2>2. \A s : Held(s, t) => call["pm"].on = s
    BY <1>0, BrokerAssumption DEF Held
  <2> QED
    BY <1>0, <1>1, <2>1, <2>2, OthersKeepTraffic
<1> QED
  BY <1>2, <1>3, <1>4 DEF Requests

\* What a thread that is about to receive may find instead.
LEMMA RecvLooks ==
  ASSUME NEW t, Looks(t), call[t].at = "recv" PROVE RecvOutOfTurn(t)
BY Zenon DEF Looks, Check, Start, Connect, Recheck, SendOutOfTurn, SocketError, Raise, Stopping, ShutFails,
             IsNone, IsClosed, At

\* A request of the manager's thread.
LEMMA RequestKeepsTraffic ==
  ASSUME SocketInv, ReportInv, WireOK, Traffic, Requests("pm")
  PROVE  Traffic'
<1> DEFINE t == "pm"
<1>0. /\ Calls /\ SocketsOK /\ MessagesOK /\ CallersOK /\ t \in Threads
      /\ call[t].at = "wait" <=> call[t].on # Null
      /\ {"send", "recv", "connect", "forget", "failed"} \subseteq Places \ {"wait"}
  BY BrokerAssumption DEF SocketInv, ReportInv, Calls, Places
<1>1. resting' = resting
  <2>1. GoesOn(t)
    BY <1>0, RequestGoesOn
  <2> QED
    BY <2>1 DEF GoesOn
<1>2. \A s \in Sockets : Live(s) => wire[s] # Null /\ state[s] = "awaiting"
  BY <1>0, LiveMessage
<1>3. \A s \in Sockets : Live(s) => Expected(s) \/ LeftOver(s)
  BY DEF Traffic
<1>4. (~Send(t) /\ \A s \in Sockets : ~Live(s)) => \A s \in Sockets : ~Live(s)'
  BY <1>0, RequestFades DEF Fades
<1>5. CASE Looks(t)
  <2>1. /\ call[t].at # "wait" /\ call'[t].at \notin {"recv", "wait", "answer"}
        /\ UNCHANGED <<wire, sockets>>
    BY <1>0, <1>5, LookMoves
  <2>2. call'[t].at \in Replacing => call[t].at \in Replacing \/ socket = Null \/ state[socket] = "closed"
    BY <1>0, <1>5, LookMoves DEF Moves
  <2>3. Fades
    BY <2>1 DEF Fades, Adds, Live, Own, Requested, Answered, sockets
  <2>4. call[t].at = "recv" => \A s \in Sockets : ~Live(s)
    <3>1. call[t].at = "recv" => RecvOutOfTurn(t)
      BY <1>0, <1>5, RecvLooks
    <3> QED
      BY <1>0, <1>2, <1>3, <3>1, BrokerAssumption DEF Expected, LeftOver, At, RecvOutOfTurn
  <2>5. call'[t].at \in Replacing => \A s \in Sockets : ~Live(s)
    <3>1. CASE call[t].at \in Replacing
      BY <1>0, <1>3, <3>1, BrokerAssumption DEF Expected, LeftOver, At, Replacing
    <3>2. CASE socket = Null \/ state[socket] = "closed"
      BY <1>0, <1>3, <2>1, <3>2, BrokerAssumption DEF Expected, LeftOver, At, Live
    <3> QED
      BY <2>2, <3>1, <3>2
  <2>6. CASE \A s \in Sockets : ~Live(s)
    BY <2>1, <2>3, <2>6, NoneKeepsTraffic DEF Fades, At
  <2>7. CASE call[t].at # "recv" /\ call'[t].at \notin Replacing
    BY <1>0, <2>1, <2>3, <2>7, RestKeepsTraffic DEF At, sockets
  <2> QED
    BY <2>4, <2>5, <2>6, <2>7
<1>7. CASE Open(t) \/ Forget(t)
  <2>1. /\ call[t].at \in Replacing /\ (Goto(t, "connect") \/ Goto(t, "failed")) /\ ~Send(t)
        /\ call[t].at # "wait"
    BY <1>7 DEF Open, Forget, Send, At, Replacing
  <2>2. call'[t].at # "answer"
    BY <1>0, <2>1, GoesTo
  <2>3. \A s \in Sockets : ~Live(s)
    BY <1>0, <1>3, <2>1, BrokerAssumption DEF Expected, LeftOver, At, Replacing
  <2> QED
    BY <1>4, <2>1, <2>2, <2>3, NoneKeepsTraffic DEF At
<1>6. CASE Send(t)
  <2>1. /\ call[t].at = "send" /\ Goto(t, "recv") /\ socket \in Sockets /\ state[socket] = "ready"
        /\ wire' = [wire EXCEPT ![socket] = call[t].request]
        /\ state' = [state EXCEPT ![socket] = "awaiting"] /\ socket' = socket
    BY <1>0, <1>6 DEF Send, At, SocketsOK
  <2>2. call'[t].at = "recv" /\ call'[t].request = call[t].request
    BY <1>0, <2>1, GoesTo
  <2>3. \A s \in Sockets : ~Live(s)
    BY <1>0, <1>2, <1>3, <2>1, BrokerAssumption DEF Expected, LeftOver, At
  <2>4. /\ \A s \in Sockets \ {socket} : wire'[s] = wire[s] /\ state'[s] = state[s]
        /\ wire'[socket] = call[t].request /\ call[t].request.kind = "request"
    <3>1. call[t].op # "stop"
      BY <1>0, <2>1 DEF CallersOK, StopPlaces
    <3>2. call[t].request.kind = "request"
      BY <1>0, <2>1, <3>1 DEF CallersOK, RequestOK, Idle
    <3> QED
      BY <1>0, <2>1, <3>2 DEF MessagesOK, SocketsOK
  <2>5. \A s \in Sockets : Live(s)' => s = socket
    BY <2>3, <2>4 DEF Live, Own, Requested, Answered
  <2>6. ASSUME NEW s \in Sockets, Live(s)'
        PROVE  Expected(s)' /\ wire'[s] = call'["pm"].request /\ ~Answered(s)'
    BY <2>1, <2>2, <2>4, <2>5, <2>6 DEF Expected, At, Answered
  <2> QED
    BY <2>2, <2>6 DEF Traffic, At
<1>13. CASE ReturnNone(t)
  <2>1. /\ call[t].at = "failed" /\ GiveAnswer(t, Null) /\ UNCHANGED <<wire, sockets>>
    BY <1>13 DEF ReturnNone, At
  <2>2. call'[t].at = "answer" /\ call'[t].answer = Null
    BY <1>0, <2>1, AnswerGiven
  <2>3. Fades
    BY <2>1 DEF Fades, Adds, Live, Own, Requested, Answered, sockets
  <2>4. \A s \in Sockets : s = socket => s = socket'
    BY <2>1 DEF sockets
  <2>5. call[t].at \notin {"recv", "wait"} /\ call'[t].at \notin {"recv", "wait"} \cup Replacing
    BY <2>1, <2>2 DEF Replacing
  <2> QED
    BY <1>0, <2>2, <2>3, <2>4, <2>5, RestKeepsTraffic DEF At
<1>14. CASE CloseSocket(t)
  <2>1. call[t].at \in {"close", "shut"} /\ Goto(t, "forget")
    BY <1>14 DEF CloseSocket, At
  <2>2. call'[t].at = "forget"
    BY <1>0, <2>1, GoesTo
  <2>3. Fades /\ \A s \in Sockets : Live(s)' => s # socket
    BY <1>0, <1>14, ClosingFades
  <2>4. \A s \in Sockets : Live(s) => s = socket
    BY <1>0, <1>3, <2>1, BrokerAssumption DEF Expected, LeftOver, At
  <2>5. \A s \in Sockets : ~Live(s)'
    BY <2>3, <2>4 DEF Fades
  <2> QED
    BY <2>2, <2>5, NoneKeepsTraffic DEF At
<1>8. CASE NoSocket(t)
  <2>1. socket = Null /\ GiveAnswer(t, Null) /\ call[t].at \in {"send", "recv"} /\ ~Send(t)
    BY <1>8 DEF NoSocket, Send, At
  <2>2. call'[t].at = "answer" /\ call'[t].answer = Null
    BY <1>0, <2>1, AnswerGiven
  <2>3. \A s \in Sockets : ~Live(s)
    BY <1>0, <1>3, <2>1, BrokerAssumption DEF Expected, LeftOver, At
  <2> QED
    BY <1>4, <2>1, <2>2, <2>3, NoneKeepsTraffic
<1>9. CASE Recv(t)
  <2>1. /\ call[t].at = "recv" /\ socket \in Sockets /\ UNCHANGED <<wire, socket, state>>
        /\ call' = [call EXCEPT ![t].at = "wait", ![t].on = socket]
    BY <1>0, <1>9 DEF Recv, At, sockets, SocketsOK
  <2>2. /\ call'[t].at = "wait" /\ call'[t].on = socket
        /\ call'[t].request = call[t].request /\ call'[t].id = call[t].id
    BY <1>0, <2>1, WaitCall
  <2>3. ASSUME NEW s \in Sockets, Live(s)'
        PROVE  /\ Expected(s)'
               /\ Requested(s)' => wire'[s] = call'["pm"].request
               /\ Answered(s)' => Gone(call["pm"].id)'
    <3>1. Live(s)
      BY <2>1, <2>3 DEF Live, Own, Requested, Answered
    <3>2. s = socket
      BY <1>0, <1>3, <2>1, <3>1, BrokerAssumption DEF Expected, LeftOver, At
    <3>3. /\ Requested(s) => wire[s] = call["pm"].request
          /\ Answered(s) => Gone(call["pm"].id)
      BY <2>1, <3>1 DEF Traffic, LeftOver
    <3>4. Expected(s)'
      BY <2>1, <2>2, <3>2 DEF Expected
    <3>5. Gone(call["pm"].id) => Gone(call["pm"].id)'
      BY <1>1, <2>1, <2>2 DEF Gone, Adds, Requested
    <3> QED
      BY <2>1, <2>2, <3>3, <3>4, <3>5 DEF Requested, Answered
  <2> QED
    BY <2>2, <2>3 DEF Traffic, At
<1>10. CASE ReceiveBroken(t)
  <2>1. /\ call[t].at = "wait" /\ call'[t].at \in {"error", "failed"}
        /\ state[call[t].on] # "awaiting" /\ ~Send(t)
    BY <1>0, <1>10, WaitBreaks DEF ReceiveBroken, Send, At
  <2>2. \A s \in Sockets : ~Live(s)
    BY <1>0, <1>2, <1>3, <2>1 DEF Expected, LeftOver, At
  <2> QED
    BY <1>4, <2>1, <2>2, NoneKeepsTraffic DEF At
<1>11. CASE Receive(t)
  <2>0. PICK s \in Sockets : s = call[t].on
    BY <1>0, <1>11, HeldSockets DEF Receive, At
  <2>1. /\ call[t].at = "wait" /\ Answered(s) /\ state[s] = "awaiting" /\ s \in Sockets
        /\ wire' = [wire EXCEPT ![s] = Null] /\ GiveAnswer(t, wire[s])
    BY <1>11, <2>0 DEF Receive, At
  <2>2. call'[t].at = "answer" /\ call'[t].answer = wire[s] /\ call'[t].id = call[t].id
    BY <1>0, <2>1, AnswerGiven
  <2>3. Fades
    <3>1. ~Send(t)
      BY <2>1 DEF Send, At
    <3> QED
      BY <1>0, <3>1, RequestFades
  <2>4. \A w \in Sockets : ~Live(w)'
    <3>1. \A w \in Sockets : Live(w) => w = s
      BY <1>3, <2>0, <2>1 DEF Expected, LeftOver, At
    <3>2. ~Live(s)'
      BY <1>0, <2>1 DEF MessagesOK, Live, Own, Requested, Answered
    <3> QED
      BY <2>3, <3>1, <3>2 DEF Fades
  <2>5. wire[s].final \in Verdicts => Gone(call["pm"].id)
    <3>1. wire[s].final \in Verdicts => Live(s)
      BY <2>1 DEF Live, Own
    <3> QED
      BY <2>1, <3>1 DEF Traffic, LeftOver
  <2>6. Gone(call["pm"].id) => Gone(call["pm"].id)'
    <3>1. \A id : Gone(id) => Gone(id)'
      BY <1>1, <2>3, GoneStays
    <3> QED
      BY <2>2, <3>1
  <2> QED
    BY <2>2, <2>4, <2>5, <2>6 DEF Traffic
<1>12. CASE Timeout(t)
  <2> DEFINE s == call[t].on
  <2>1. /\ call[t].at = "wait" /\ s \in Sockets /\ socket' = socket
        /\ call' = [call EXCEPT ![t].at = "answer", ![t].on = Null, ![t].answer = Null]
        /\ Release(t, "awaiting")
    BY <1>0, <1>12, HeldSockets DEF Timeout, At
  <2>2. call'[t].at = "answer" /\ call'[t].answer = Null
    BY <1>0, <2>1, AnswerCall, Zenon
  <2>3. Fades
    <3>1. ~Send(t)
      BY <2>1 DEF Send, At
    <3> QED
      BY <1>0, <3>1, RequestFades
  <2>4. ASSUME NEW w \in Sockets, Live(w)' PROVE LeftOver(w)'
    <3>1. Live(w) /\ state'[w] # "closed"
      BY <2>3, <2>4 DEF Fades, Live
    <3>2. w = s
      BY <1>3, <2>1, <3>1 DEF Expected, LeftOver, At
    <3>3. s = socket \/ Held(s, t)
      BY <1>0, <2>1, <3>1, <3>2 DEF Release, SocketsOK
    <3>4. s = socket
      BY <1>0, <2>1, <3>3, BrokerAssumption DEF Held, SocketInv, Undisturbed
    <3> QED
      BY <2>1, <2>2, <3>2, <3>4 DEF LeftOver, Replacing
  <2> QED
    BY <2>2, <2>4 DEF Traffic, At
<1> QED
  BY <1>5, <1>6, <1>7, <1>8, <1>9, <1>10, <1>11, <1>12, <1>13, <1>14 DEF Requests

\* What calls do between their requests, and stop, which begins.
LEMMA CallKeepsTraffic ==
  ASSUME SocketInv, ReportInv, Traffic,
         Calling \/ \E t \in Threads : Answers(t) \/ Stop(t) \/ Stopped(t)
  PROVE  Traffic'
<1>0. Calls /\ MessagesOK /\ CallersOK /\ "pm" \in Threads
  BY BrokerAssumption DEF SocketInv, ReportInv
<1>1. UNCHANGED <<wire, socket, state, resting>>
  <2>1. CASE \E t \in Threads : Answers(t) \/ Stopped(t)
    BY <2>1, AnswersLeave DEF sockets
  <2>2. CASE Calling \/ \E t \in Threads : Stop(t)
    BY <2>2, Zenon DEF Calling, Submit, SubmitUnpriced, Cancel, GetMarketDataSnapshot, Stop, bookVars, sockets
  <2> QED
    BY <2>1, <2>2
<1>2. Fades
  BY <1>1 DEF Fades, Adds, Live, Own, Requested, Answered
<1>3. \/ call'["pm"] = call["pm"]
      \/ /\ call["pm"].at \notin {"recv", "wait"} /\ call'["pm"].at \in {"idle", "check", "stop", "cleanup"}
  <2>1. ASSUME NEW op, NEW id, NEW request, Begin("pm", op, id, request), Idle("pm")
        PROVE  call["pm"].at = "idle" /\ call'["pm"].at \in {"check", "stop"}
    BY <1>0, <2>1, BeginCall DEF Idle
  <2>2. CASE \/ \E c \in Clients, type \in OrderTypes, side \in Book!Sides, price \in Prices,
                   quantity \in Quantities : Submit(c, type, side, price, quantity)
             \/ \E id \in OrderIds : Cancel(id)
    <3>1. PICK op, id, request : Begin("pm", op, id, request) /\ Idle("pm")
      BY <2>2 DEF Submit, Cancel, MayCall
    <3> QED
      BY <2>1, <3>1
  <2>3. CASE \E c \in Clients : SubmitUnpriced(c)
    BY <2>3 DEF SubmitUnpriced
  <2>4. CASE "api" \in Threads /\ GetMarketDataSnapshot
    <3>1. PICK request : Begin("api", "info", Null, request)
      BY <2>4 DEF GetMarketDataSnapshot
    <3> QED
      BY <1>0, <2>4, <3>1, BeginCall
  <2>5. ASSUME NEW t \in Threads, Answers(t) \/ Stopped(t)
        PROVE  \/ call'["pm"] = call["pm"]
               \/ /\ call["pm"].at \notin {"recv", "wait"} /\ call'["pm"].at \in {"idle", "cleanup"}
    <3>1. Others(t) /\ call'[t].at \in {"idle", "cleanup"}
      BY <1>0, <2>5, AnswerContinues
    <3>2. call[t].at \in {"answer", "cleanup"}
      BY <2>5, AnswersLeave DEF At
    <3> QED
      BY <1>0, <3>1, <3>2 DEF Others
  <2>6. ASSUME NEW t \in Threads, Stop(t)
        PROVE  \/ call'["pm"] = call["pm"]
               \/ call["pm"].at = "idle" /\ call'["pm"].at = "stop"
    <3>1. Others(t) /\ call'[t].at = "stop" /\ call[t].at = "idle"
      BY <1>0, <2>6, StopShape DEF Moves, Stop, Idle
    <3> QED
      BY <1>0, <3>1 DEF Others
  <2> QED
    BY <2>2, <2>3, <2>4, <2>5, <2>6 DEF Calling
<1>4. CASE call'["pm"] = call["pm"]
  BY <1>0, <1>1, <1>2, <1>4, OthersKeepTraffic
<1>5. CASE call["pm"].at \notin {"recv", "wait"} /\ call'["pm"].at \in {"idle", "check", "stop", "cleanup"}
  BY <1>0, <1>1, <1>2, <1>5, RestKeepsTraffic DEF At, Replacing
<1> QED
  BY <1>3, <1>4, <1>5

\* The loss of messages and of the book.
LEMMA LossKeepsTraffic ==
  ASSUME SocketInv, ReportInv, Traffic,
         \/ \E s \in Sockets : Linger(s)
         \/ ServerRestarts \/ UNCHANGED vars
  PROVE  Traffic'
<1>0. Calls /\ MessagesOK /\ SocketsOK
  BY DEF SocketInv, ReportInv
<1>1. UNCHANGED <<call, socket, state>>
  BY DEF Linger, ServerRestarts, vars, sockets
<1>2. DOMAIN resting' \subseteq DOMAIN resting
  BY DEF Linger, ServerRestarts, RestartServer, vars, bookVars
<1>3. Loses
  <2>1. CASE \E s \in Sockets : Linger(s)
    BY <1>0, <2>1 DEF Linger, Loses, MessagesOK
  <2>2. CASE ServerRestarts
    BY <2>2 DEF ServerRestarts, RestartServer, Loses
  <2>3. CASE UNCHANGED vars
    BY <2>3 DEF vars, Loses
  <2> QED
    BY <2>1, <2>2, <2>3
<1> QED
  BY <1>0, <1>1, <1>2, <1>3, LosesFades, OthersKeepTraffic

\* What the book says of an order that is over is true of it.
LEMMA VerdictIsTrue ==
  ASSUME ReportInv, OwnersOK, KnownOK, FateOK, NEW s \in Sockets, ServeRequest(s),
         Answer(reply').final \in Verdicts
  PROVE  /\ wire[s].command # "GET_BOOK_INFO"
         /\ \A id : id = wire[s].id => Gone(id)'
<1> DEFINE o == wire[s].order
           i == wire[s].id
<1>0. /\ BookOK /\ RequestOK(wire[s]) /\ Requested(s) /\ SizesOK /\ OnceOK
      /\ DOMAIN resting \subseteq DOMAIN owner
      /\ wire' = [wire EXCEPT ![s] = IF state[s] # "closed" THEN Answer(reply') ELSE Null]
      /\ Answer(reply').kind = "answer" /\ wire = [w \in Sockets |-> wire[w]]
  BY ServeKeepsBook, Zenon DEF ReportInv, MessagesOK, ServeRequest, Serve, FateOK, OwnersOK
<1>1. \A w \in Sockets : Adds(w)' => Adds(w) /\ wire'[w] = wire[w] /\ w # s
  BY <1>0 DEF Adds, Requested
<1>2. Null \notin Verdicts /\ "FILLED" \notin Verdicts /\ "WORKING" \notin Verdicts
      /\ "CANCEL_REJECTED" \notin Verdicts
  BY NullAssumption DEF Verdicts, Terminal
<1>3. CASE wire[s].command = "ADD_ORDER" /\ Book!Add(o)
  <2>1. Adds(s) /\ Sized(wire[s]) /\ Untouched(i, wire[s].client)
    BY <1>0, <1>3 DEF SizesOK, OnceOK, Adds
  <2>2. /\ i = o.id /\ o.initial > 0
        /\ o \in [id : Nat, type : OrderTypes, side : Book!Sides, price : Prices,
                  initial : Nat, remaining : Nat]
    BY <1>0, <1>3, <2>1 DEF KnownOK, AddsKnown, Sized
  <2>3. PICK answer : answer.fills = Fills(reply'.trades)
    <3>1. [fills |-> Fills(reply'.trades)].fills = Fills(reply'.trades)
      OBVIOUS
    <3> QED
      BY <3>1
  <2>4. FilledExactly(o, answer)
    <3>1. PICK Seen : o \in AnyOrder(Seen)
      BY <1>0, <1>3 DEF RequestOK
    <3> HIDE DEF o
    <3> QED
      BY <1>0, <1>3, <2>3, <3>1, AddExact
  <2>5. /\ reply'.call = "AddOrder" /\ reply'.order = [o EXCEPT !.remaining = o.initial - FilledIn(answer, o.id)]
    BY <1>3, <2>4, Zenon DEF FilledExactly, Book!Add
  <2>6. reply'.order.type = o.type /\ FilledIn(answer, o.id) \in Int
    BY <2>2, <2>4, <2>5 DEF FilledExactly
  <2>7. reply'.order # Null
    BY <2>2, <2>5, <2>6, BrokerAssumption
  <2>8. FinalStatus(reply'.order) \in Verdicts
    BY <2>5, <2>7 DEF Answer
  <2>9. o.type = "FillAndKill"
    BY <1>2, <2>6, <2>8 DEF FinalStatus
  <2>10. i \notin DOMAIN resting'
    BY <2>2, <2>4, <2>9 DEF FilledExactly
  <2>11. \A w \in Sockets : Adds(w)' => wire'[w].id # i
    BY <1>0, <1>1, <2>1 DEF OnceOK
  <2> QED
    BY <1>3, <2>10, <2>11 DEF Gone
<1>4. CASE wire[s].command = "ADD_ORDER" /\ Book!AddDuplicate(o.id)
  BY <1>2, <1>4 DEF Book!AddDuplicate, Answer
<1>5. CASE wire[s].command = "CANCEL_ORDER" /\ Book!Cancel(i)
  <2>1. i \in DOMAIN resting /\ DOMAIN resting' = DOMAIN resting \ {i}
    <3>1. reply'.call = "CancelOrder" /\ reply'.ok = (i \in DOMAIN resting)
      BY <1>5 DEF Book!Cancel
    <3>2. i \in DOMAIN resting
      BY <1>2, <3>1 DEF Answer
    <3>3. resting' = Book!Restrict(resting, DOMAIN resting \ {i})
      BY <1>5 DEF Book!Cancel
    <3> QED
      BY <3>2, <3>3 DEF Book!Restrict
  <2>2. \A w \in Sockets : Adds(w)' => wire'[w].id # i
    BY <1>0, <1>1, <2>1 DEF OnceOK, Untouched
  <2> QED
    BY <1>5, <2>1, <2>2 DEF Gone
<1>6. CASE wire[s].command = "GET_BOOK_INFO" /\ Book!Report
  BY <1>2, <1>6 DEF Book!Report, Answer
<1> QED
  BY <1>3, <1>4, <1>5, <1>6, Zenon DEF ServeRequest, Serve

\* A turn of the server's loop.
LEMMA ServeKeepsTraffic ==
  ASSUME SocketInv, ReportInv, OwnersOK, KnownOK, FateOK, RequestsOK, Traffic,
         NEW s \in Sockets, ServeRequest(s)
  PROVE  Traffic'
<1>0. /\ Calls /\ CallersOK /\ BookOK /\ RequestOK(wire[s]) /\ Requested(s)
      /\ UNCHANGED <<call, socket, state>>
      /\ wire' = [wire EXCEPT ![s] = IF state[s] # "closed" THEN Answer(reply') ELSE Null]
      /\ Answer(reply').kind = "answer" /\ wire = [w \in Sockets |-> wire[w]]
  BY ServeKeepsBook, Zenon DEF SocketInv, ReportInv, MessagesOK, ServeRequest, Serve, sockets
<1>1. /\ \A w \in Sockets : Adds(w)' => Adds(w) /\ wire'[w] = wire[w] /\ w # s
      /\ \A w \in Sockets \ {s} : wire'[w] = wire[w]
  BY <1>0 DEF Adds, Requested
<1>2. DOMAIN resting' \subseteq DOMAIN resting \cup (IF Adds(s) THEN {wire[s].id} ELSE {})
  <2>1. CASE wire[s].command = "ADD_ORDER" /\ Book!Add(wire[s].order)
    <3>1. Adds(s) /\ wire[s].id = wire[s].order.id
      BY <1>0, <2>1 DEF Adds, KnownOK, AddsKnown
    <3>2. PICK Seen : wire[s].order \in AnyOrder(Seen)
      BY <1>0, <2>1 DEF RequestOK
    <3>3. DOMAIN resting' \subseteq DOMAIN resting \cup {wire[s].order.id}
      BY <1>0, <2>1, <3>2, AddAnswers
    <3> QED
      BY <3>1, <3>3
  <2>2. CASE Book!AddDuplicate(wire[s].order.id) \/ Book!Report
    BY <2>2 DEF Book!AddDuplicate, Book!Report
  <2>3. CASE Book!Cancel(wire[s].id)
    <3>1. resting' = Book!Restrict(resting, DOMAIN resting \ {wire[s].id})
      BY <2>3 DEF Book!Cancel
    <3> QED
      BY <3>1 DEF Book!Restrict
  <2> QED
    BY <2>1, <2>2, <2>3, Zenon DEF ServeRequest, Serve
<1>3. \A id : Gone(id) => Gone(id)'
  BY <1>1, <1>2 DEF Gone
<1>4. ASSUME NEW w \in Sockets, Live(w)'
      PROVE  \/ /\ Expected(w)'
                /\ Requested(w)' => wire'[w] = call'["pm"].request
                /\ Answered(w)' => Gone(call["pm"].id)'
             \/ LeftOver(w)'
  <2>1. CASE w = s
    <3>1. Answered(s)' /\ ~Requested(s)' /\ wire'[s] = Answer(reply')
      BY <1>0, <1>4, <2>1 DEF Live, Own, Requested, Answered
    <3>2. Answer(reply').final \in Verdicts
      BY <1>4, <2>1, <3>1 DEF Live, Own
    <3>3. /\ wire[s].command # "GET_BOOK_INFO"
          /\ \A id : id = wire[s].id => Gone(id)'
      BY <3>2, VerdictIsTrue
    <3>4. Live(s)
      BY <1>0, <1>4, <2>1, <3>3 DEF Live, Own
    <3>5. CASE Expected(s) /\ wire[s] = call["pm"].request
      <4>1. wire[s].id = call["pm"].id
        <5>1. call["pm"].at \in {"recv", "wait"}
          BY <1>0, <3>5, BrokerAssumption DEF Expected, At, Calls
        <5>2. call["pm"].op # "stop"
          BY <1>0, <5>1, BrokerAssumption DEF CallersOK, StopPlaces
        <5> QED
          BY <3>5, <5>1, <5>2 DEF RequestsOK, Idle
      <4>2. Gone(call["pm"].id)'
        BY <1>0, <3>3, <4>1
      <4>3. Expected(w)'
        BY <1>0, <2>1, <3>5 DEF Expected, At
      <4> QED
        BY <2>1, <3>1, <4>2, <4>3
    <3>6. CASE LeftOver(s)
      BY <1>0, <2>1, <3>6 DEF LeftOver
    <3> QED
      BY <1>0, <3>4, <3>5, <3>6 DEF Traffic
  <2>2. CASE w # s
    <3>1. /\ wire'[w] = wire[w]
          /\ Requested(w)' <=> Requested(w)
          /\ Answered(w)' <=> Answered(w)
      BY <1>1, <2>2 DEF Requested, Answered
    <3>2. Live(w)
      BY <1>0, <1>4, <3>1 DEF Live, Own
    <3>3. /\ Expected(w)' <=> Expected(w)
          /\ LeftOver(w)' <=> LeftOver(w)
      BY <1>0 DEF Expected, LeftOver, At
    <3>4. Gone(call["pm"].id) => Gone(call["pm"].id)'
      BY <1>0, <1>3
    <3> QED
      BY <1>0, <3>1, <3>2, <3>3, <3>4 DEF Traffic
  <2> QED
    BY <2>1, <2>2
<1>5. At("pm", "answer")' /\ call'["pm"].answer # Null /\ call'["pm"].answer.final \in Verdicts
        => Gone(call["pm"].id)'
  <2>1. Gone(call["pm"].id) => Gone(call["pm"].id)'
    BY <1>0, <1>3
  <2> QED
    BY <1>0, <2>1 DEF Traffic, At
<1> QED
  BY <1>4, <1>5 DEF Traffic

\* What is known of the fates of the orders.
FateInv == FateOK /\ RequestsOK /\ Tallied /\ Traffic

\* The invariants it rests on.
BaseInv == SocketInv /\ ReportInv /\ WireOK /\ NoRestarts /\ ExecInv

\* A call that is about to send was about to before.
LEMMA OpeningComesFrom ==
  ASSUME Calls, SocketsOK, NEW t \in Threads, Requests(t), ~Send(t), call'[t].at \in Opening \cup {"send"}
  PROVE  call[t].at \in Opening
<1>0. {"connect", "forget", "failed"} \subseteq Places \ {"wait"}
  BY DEF Places
<1>1. CASE Looks(t)
  BY <1>1, LookMoves
<1>2. CASE Open(t)
  BY <1>2 DEF Open, At, Opening
<1>3. \A answer : ~GiveAnswer(t, answer)
  BY AnswerGiven DEF Opening
<1>4. ~(NoSocket(t) \/ Receive(t) \/ ReturnNone(t))
  BY <1>3, Zenon DEF NoSocket, Receive, ReturnNone
<1>5. ~ReceiveBroken(t)
  BY WaitBreaks DEF Opening
<1>6. ~Recv(t)
  <2>1. SUFFICES ASSUME Recv(t) PROVE FALSE
    OBVIOUS
  <2>2. socket \in Sockets /\ call' = [call EXCEPT ![t].at = "wait", ![t].on = socket]
    BY <2>1 DEF Recv, SocketsOK
  <2> QED
    BY <2>2, WaitCall DEF Opening
<1>7. ~Timeout(t)
  <2>1. SUFFICES ASSUME Timeout(t) PROVE FALSE
    OBVIOUS
  <2>2. call' = [call EXCEPT ![t].at = "answer", ![t].on = Null, ![t].answer = Null]
    BY <2>1, Zenon DEF Timeout
  <2>3. call'[t].at = "answer"
    BY <2>2, AnswerCall, Zenon
  <2> QED
    BY <2>3 DEF Opening
<1>8. ~CloseSocket(t) /\ ~Forget(t)
  <2>1. SUFFICES ASSUME CloseSocket(t) \/ Forget(t) PROVE FALSE
    OBVIOUS
  <2>2. call[t].at # "wait" /\ (Goto(t, "forget") \/ Goto(t, "failed"))
    BY <2>1 DEF CloseSocket, Forget, At
  <2>3. call'[t].at \in {"forget", "failed"}
    BY <1>0, <2>2, GoesTo
  <2> QED
    BY <2>3 DEF Opening
<1> QED
  BY <1>1, <1>2, <1>4, <1>5, <1>6, <1>7, <1>8 DEF Requests

\* The steps of a request.
LEMMA RequestKeepsFate ==
  ASSUME BaseInv, FateInv, NEW t \in Threads, Requests(t)
  PROVE  FateOK' /\ Tallied' /\ Traffic'
<1>0. /\ SocketInv /\ ReportInv /\ WireOK /\ OwnersOK /\ Calls /\ SocketsOK /\ MessagesOK /\ CallersOK
      /\ FateOK /\ RequestsOK /\ Tallied /\ Traffic /\ "pm" \in Threads
  BY BrokerAssumption DEF BaseInv, FateInv, SocketInv, ReportInv, ExecInv
<1>1. GoesOn(t)
  BY <1>0, RequestGoesOn
<1>2. Traffic'
  BY <1>0, ApiKeepsTraffic, RequestKeepsTraffic
<1>3. UNCHANGED <<details, told, resting>>
  BY <1>1 DEF GoesOn, maps
<1>4. UNCHANGED <<owner, executed>>
  BY RequestExecutes
<1>5. Tallied'
  BY <1>0, <1>3 DEF Tallied, TalliedIn
<1>6. FateOK'
  <2>1. CASE Send(t)
    BY <1>0, <2>1, SendKeepsFate
  <2>2. CASE ~Send(t)
    <3>1. Loses
      BY <1>0, <2>2, RequestLoses
    <3>2. call'[t].at \in Opening \cup {"send"} => call[t].at \in Opening
      BY <1>0, <2>2, OpeningComesFrom
    <3>3. Unsent' => /\ Unsent
                     /\ call'["pm"].id = call["pm"].id /\ call'["pm"].request = call["pm"].request
      BY <1>0, <1>1, <3>2 DEF GoesOn, Others, Unsent
    <3> QED
      BY <1>0, <1>3, <1>4, <3>1, <3>3, QuietKeepsFate
  <2> QED
    BY <2>1, <2>2
<1> QED
  BY <1>2, <1>5, <1>6

\* A call that begins reports no shares.
LEMMA CallingKeepsTallied ==
  ASSUME ReportInv, ExecInv, Tallied, Calling PROVE Tallied'
<1>0. /\ OwnersOK /\ Counted(told) /\ Tracked(details, told)
      /\ broker_order_id_counter \in Nat /\ DOMAIN details \subseteq 1 .. broker_order_id_counter
  BY DEF ReportInv, MapsOK, ExecInv, OwnersOK
<1>1. ASSUME NEW c, NEW type, NEW side, NEW price, NEW quantity, Submit(c, type, side, price, quantity)
      PROVE  Tallied'
  <2> DEFINE new == [client |-> c, quantity |-> quantity, filled_quantity |-> 0,
                     status |-> "PENDING_ACK"]
  <2>1. /\ c \notin DOMAIN told /\ details' = Put(details, NextId, new) /\ told' = Put(told, c, << >>)
    BY <1>1 DEF Submit
  <2>2. new.client = c /\ new.filled_quantity = 0
    OBVIOUS
  <2> HIDE DEF new
  <2>3. NextId \notin DOMAIN details
    BY <1>0 DEF NextId
  <2>4. /\ DOMAIN details' = DOMAIN details \cup {NextId} /\ details'[NextId] = new
        /\ \A id \in DOMAIN details : details'[id] = details[id]
    BY <2>1, <2>3 DEF Put
  <2>5. /\ Reported(told', c) = 0
        /\ \A d \in DOMAIN told : Reported(told', d) = Reported(told, d)
    <3>1. \E n \in {0, 1} : DOMAIN << >> = 1 .. n /\ \A i \in 1 .. n : (<< >>)[i].filled_quantity = 0
      <4>1. DOMAIN << >> = 1 .. 0 /\ 1 .. 0 = {}
        OBVIOUS
      <4> QED
        BY <4>1
    <3> QED
      BY <1>0, <2>1, <3>1, OneMoreClient
  <2>6. \A id \in DOMAIN details' : details'[id].filled_quantity = Reported(told', details'[id].client)
    BY <1>0, <2>2, <2>4, <2>5 DEF Tallied, TalliedIn, Tracked
  <2> QED
    BY <2>6 DEF Tallied, TalliedIn
<1>2. ASSUME NEW c, SubmitUnpriced(c) PROVE Tallied'
  <2> DEFINE said == <<Confirmation("REJECTED", 0)>>
  <2>1. c \notin DOMAIN told /\ told' = Put(told, c, said) /\ details' = details
    BY <1>2 DEF SubmitUnpriced, maps
  <2>2. 1 \in {0, 1} /\ DOMAIN said = 1 .. 1 /\ \A i \in 1 .. 1 : said[i].filled_quantity = 0
    BY DEF Confirmation
  <2> HIDE DEF said
  <2>3. \A d \in DOMAIN told : Reported(told', d) = Reported(told, d)
    BY <1>0, <2>1, <2>2, OneMoreClient
  <2> QED
    BY <1>0, <2>1, <2>3, QuietKeepsTallied DEF Tracked
<1>3. ASSUME NEW id, Cancel(id) PROVE Tallied'
  <2>1. /\ id \in DOMAIN details /\ details' = [details EXCEPT ![id].status = "PENDING_CANCEL"]
        /\ told' = told
    BY <1>3 DEF Cancel, history
  <2>2. /\ DOMAIN details' = DOMAIN details
        /\ \A i \in DOMAIN details : /\ details'[i].client = details[i].client
                                     /\ details'[i].filled_quantity = details[i].filled_quantity
    BY <1>0, <2>1, StatusKeeps
  <2> QED
    BY <2>1, <2>2, QuietKeepsTallied
<1>4. CASE GetMarketDataSnapshot
  BY <1>4 DEF GetMarketDataSnapshot, maps, history, Tallied, TalliedIn
<1> QED
  BY <1>1, <1>2, <1>3, <1>4 DEF Calling

\* Every step but a restart of the client keeps what is known of the fates.
LEMMA NextKeepsFate ==
  ASSUME BaseInv, FateInv, [Next]_vars PROVE FateInv'
<1>0. /\ SocketInv /\ ReportInv /\ WireOK /\ NoRestarts /\ ExecInv /\ OwnersOK /\ KnownOK
      /\ FateOK /\ RequestsOK /\ Tallied /\ Traffic /\ MessagesOK
  BY DEF BaseInv, FateInv, ExecInv, ReportInv
<1>1. RequestsOK'
  BY <1>0, NextKeepsRequests
<1>2. CASE Calling
  <2>1. FateOK'
    BY <1>0, <1>2, SubmitKeepsFate, SubmitUnpricedKeepsFate, AskKeepsFate DEF Calling
  <2> QED
    BY <1>0, <1>1, <1>2, <2>1, CallingKeepsTallied, CallKeepsTraffic DEF FateInv
<1>3. ASSUME NEW t \in Threads, Step(t) \/ Stopped(t) PROVE FateInv'
  <2>1. CASE Requests(t)
    BY <1>1, <2>1, RequestKeepsFate DEF FateInv
  <2>2. CASE Answers(t) \/ Stopped(t)
    <3>1. Traffic'
      BY <1>0, <2>2, CallKeepsTraffic
    <3>2. CASE SubmitFailed(t)
      BY <1>0, <1>1, <3>1, <3>2, FinalReportKeepsFate DEF FateInv
    <3>3. CASE CancelAnswered(t)
      <4>1. Gone(call["pm"].id)
        <5>1. t = "pm"
          BY <1>0, <3>3, AtAnswer DEF CancelAnswered
        <5> QED
          BY <1>0, <3>3, <5>1 DEF CancelAnswered, CancelConfirmed, Ok, Traffic, Verdicts
      <4> QED
        BY <1>0, <1>1, <3>1, <3>3, <4>1, FinalReportKeepsFate DEF FateInv
    <3>4. CASE SubmitAnswered(t)
      <4>1. call["pm"].answer.final = "REJECTED_BY_BOOK" => Gone(call["pm"].id)
        <5>1. t = "pm"
          BY <1>0, <3>4, AtAnswer, Zenon DEF SubmitAnswered
        <5> QED
          BY <1>0, <3>4, <5>1, Zenon DEF SubmitAnswered, Ok, Traffic, Verdicts
      <4> QED
        BY <1>0, <1>1, <3>1, <3>4, <4>1, SubmitAnsweredKeepsFate DEF FateInv
    <3>5. CASE CancelFailed(t) \/ InfoReturned(t) \/ Stopped(t) \/ Cleanup(t)
      BY <1>0, <1>1, <3>1, <3>5, QuietAnswerKeepsFate DEF FateInv
    <3> QED
      BY <2>2, <3>2, <3>3, <3>4, <3>5 DEF Answers
  <2> QED
    BY <1>3, <2>1, <2>2, StepIs
<1>4. ASSUME NEW s \in Sockets, ServeRequest(s) PROVE FateInv'
  <2>1. Traffic'
    BY <1>0, <1>4, ServeKeepsTraffic
  <2>2. Tallied'
    BY <1>0, <1>4, Zenon DEF ServeRequest, maps, Tallied, TalliedIn
  <2>3. \/ /\ wire[s].command = "ADD_ORDER"
           /\ Book!Add(wire[s].order) \/ Book!AddDuplicate(wire[s].order.id)
        \/ wire[s].command = "CANCEL_ORDER" /\ Book!Cancel(wire[s].id)
        \/ wire[s].command = "GET_BOOK_INFO" /\ Book!Report
    BY <1>4, Zenon DEF ServeRequest, Serve
  <2>4. Requested(s)
    BY <1>4, Zenon DEF ServeRequest, Serve
  <2>5. FateOK'
    BY <1>0, <1>4, <2>3, <2>4, AddKeepsFate, OtherServeKeepsFate
  <2> QED
    BY <1>1, <2>1, <2>2, <2>5 DEF FateInv
<1>7. ASSUME NEW t \in Threads, Stop(t) PROVE FateInv'
  <2>1. Traffic' /\ FateOK'
    BY <1>0, <1>7, CallKeepsTraffic, StopKeepsFate
  <2>2. Tallied'
    BY <1>0, <1>7 DEF Stop, maps, history, Tallied, TalliedIn
  <2> QED
    BY <1>1, <2>1, <2>2 DEF FateInv
<1>5. CASE \/ \E s \in Sockets : Linger(s)
           \/ ServerRestarts \/ UNCHANGED vars
  <2>1. Traffic'
    BY <1>0, <1>5, LossKeepsTraffic
  <2>2. UNCHANGED <<details, told, executed, call>>
    BY <1>5 DEF Linger, ServerRestarts, vars, maps, history
  <2>3. Loses
    <3>2. CASE \E s \in Sockets : Linger(s)
      BY <1>0, <3>2 DEF Linger, Loses, MessagesOK
    <3>3. CASE ServerRestarts
      BY <3>3 DEF ServerRestarts, RestartServer, Loses
    <3>4. CASE UNCHANGED vars
      BY <3>4 DEF vars, Loses
    <3> QED
      BY <1>5, <3>2, <3>3, <3>4
  <2>4. \/ UNCHANGED <<resting, owner>>
        \/ DOMAIN resting' = {} /\ DOMAIN owner' = {}
    BY <1>5 DEF Linger, ServerRestarts, RestartServer, vars, bookVars, history
  <2>5. \A c \in DOMAIN told' : LastStatus(c)' \in Over
          => c \in DOMAIN told /\ (LastStatus(c) \in Over \/ Past(c))
    BY <2>2 DEF LastStatus
  <2>6. \A s \in Sockets : Adds(s)' => Adds(s) /\ wire'[s] = wire[s]
    BY <2>3, LosesAdds
  <2>7. FateOK'
    BY <1>0, <2>2, <2>4, <2>5, <2>6, FewerKeepFate DEF OwnersOK, Unsent
  <2> QED
    BY <1>0, <1>1, <2>1, <2>2, <2>7 DEF FateInv, Tallied, TalliedIn
<1>6. ~ClientRestarts
  BY <1>0 DEF NoRestarts, ClientRestarts
<1> QED
  BY <1>2, <1>3, <1>4, <1>5, <1>6, <1>7 DEF Next

\* It holds initially.
LEMMA FateInit == Init => FateInv
<1> SUFFICES ASSUME Init PROVE FateInv
  OBVIOUS
<1>1. /\ DOMAIN details = {} /\ DOMAIN told = {} /\ DOMAIN resting = {} /\ DOMAIN owner = {}
      /\ \A c \in Clients : executed[c] = 0
      /\ \A s \in Sockets : wire[s] = Null
      /\ \A t \in Threads : call[t].at = "idle"
  BY DEF Init, InitServer, Book!Init, NoCall
<1>2. /\ \A s \in Sockets : ~Adds(s) /\ ~Live(s)
      /\ ~Unsent
  BY <1>1, BrokerAssumption DEF Adds, Live, Own, Requested, Answered, Unsent, Opening
<1>3. FateOK
  BY <1>1, <1>2 DEF FateOK, NamesOK, Names, SizesOK, OnceOK, Accounts, FinishedIsGone
<1>4. RequestsOK /\ Tallied /\ Traffic
  BY <1>1, <1>2, BrokerAssumption DEF RequestsOK, Idle, Tallied, TalliedIn, Traffic, At
<1> QED
  BY <1>3, <1>4 DEF FateInv

\* While the client process lives, an order that was reported FILLED or CANCELLED
\* is not in the book: not when the book confirmed a cancel to a call that had
\* stopped waiting, not when the answer was that of another thread's request,
\* not when the order was rejected by the broker and lived on, and not when a
\* request that was sent before is served late (cpp_ob_broker.py:172, :254).
THEOREM FinishedAlwaysGone ==
  ASSUME MaxRestarts = 0 PROVE Spec => []FinishedIsGone
<1>1. Init => BaseInv /\ FateInv
  <2>1. Init => WireOK /\ NoRestarts
    BY BrokerAssumption DEF Init, InitServer, WireOK, Answered, NoRestarts
  <2> QED
    BY <2>1, SocketsInit, ReportsInit, ExecInit, FateInit DEF BaseInv
<1>2. BaseInv /\ FateInv /\ [Next]_vars => (BaseInv /\ FateInv)'
  BY NextKeepsSockets, NextKeepsReports, NextKeepsWire, NextKeepsNoRestarts, NextKeepsExec,
     NextKeepsFate DEF BaseInv
<1>3. FateInv => FinishedIsGone
  BY DEF FateInv, FateOK
<1> QED
  BY <1>1, <1>2, <1>3, PTL DEF Spec

-----------------------------------------------------------------------------
(* Where no request fails                                                  *)
(*                                                                         *)
(* One thread, no receive that times out and no restart: the client and    *)
(* the server take turns, and the maps are the book between the calls.  A  *)
(* FillAndKill order that the book kills leaves its call waiting for its   *)
(* own lock, from where nothing happens any more.                          *)

\* Nothing fails any more.
Calm == budget \in [calls : Int, timeouts : {0}, crashes : {0}, restarts : {0}]

\* The manager's thread waits for the lock it holds.
Stuck == At("pm", "cleanup") /\ lock # Null

Asking == call["pm"].at \in {"recv", "wait"}

\* The server has not seen the request of the call yet.
Unserved == call["pm"].at \in {"check", "checked", "send"} \/ (Asking /\ Requested(socket))

\* The request of the call was answered and the answer is not used yet.
Replied == (At("pm", "answer") /\ call["pm"].op # "stop") \/ (Asking /\ Answered(socket))

TheAnswer == IF At("pm", "answer") THEN call["pm"].answer ELSE wire[socket]

\* The shares of an order that the broker is told of when it uses the answer.
Owed(id) == IF Replied THEN FilledIn(TheAnswer, id) ELSE 0

\* Where the manager's thread is in a call of the broker, or in stop.
InCall ==
  /\ call["pm"].op # "stop"
  /\ call["pm"].at \in {"idle", "check", "checked", "send", "recv", "wait", "answer", "cleanup"}

InStop ==
  /\ call["pm"].op = "stop"
  /\ call["pm"].at \in {"stop", "stopping", "shut", "forget", "failed", "answer"}

\* Client and server take turns, until the client stops.
InTurn ==
  /\ lock = Null
  /\ InCall \/ InStop
  /\ \A s \in Sockets : s # socket => wire[s] = Null
  /\ socket = Null => \/ Idle("pm") /\ "pm" \in stopped
                      \/ InStop /\ call["pm"].at \in {"failed", "answer"}
  /\ socket # Null =>
       IF Asking THEN /\ state[socket] = "awaiting"
                      /\ Answered(socket) \/ (Requested(socket) /\ wire[socket] = call["pm"].request)
       ELSE wire[socket] = Null /\ (state[socket] = "ready" \/ At("pm", "forget"))
  /\ At("pm", "wait") => call["pm"].on = socket
  /\ InCall => /\ At("pm", "answer") => call["pm"].answer # Null
               /\ ~Idle("pm") => call["pm"].request # Null

\* Why an order that is in the maps may not be in the book: it is not there yet,
\* all of it was traded, or it is over and the call it is in has not cleaned up.
Settling(id) ==
  \/ call["pm"].op = "submit" /\ call["pm"].id = id /\ Unserved
  \/ executed[details[id].client] = details[id].quantity
  \/ call["pm"].id = id /\ (At("pm", "cleanup") \/ (Replied /\ TheAnswer.final \in Verdicts))

\* The maps are the book, but for the answer that is on its way.
Mirrored ==
  /\ DOMAIN resting \subseteq DOMAIN details
  /\ \A id \in DOMAIN details \ DOMAIN resting : Settling(id)
  /\ At("pm", "cleanup") => call["pm"].id \notin DOMAIN resting

\* What was executed was reported, or the answer that is on its way says it.
Exact ==
  /\ \A id \in DOMAIN details :
       /\ Reported(told, details[id].client) + Owed(id) = executed[details[id].client]
       /\ executed[details[id].client] <= details[id].quantity
  /\ \A c \in DOMAIN told :
       (\A id \in DOMAIN details : details[id].client # c) => Reported(told, c) = executed[c]

\* The book confirms every cancel, and no order is cancelled by its submission.
Decided ==
  Replied =>
    /\ TheAnswer.status = "OK"
    /\ call["pm"].op = "cancel" => TheAnswer.final = "CANCELLED" /\ \A id : Owed(id) = 0
    /\ call["pm"].op = "submit" => TheAnswer.final # "CANCELLED"

InStep == InTurn /\ Mirrored /\ Exact /\ Decided

\* A step of a request that leaves the answer, the maps and the book alone.
LEMMA QuietKeepsInStep ==
  ASSUME InStep, UNCHANGED <<details, told, executed, resting>>, InTurn',
         ~At("pm", "cleanup"), ~At("pm", "cleanup")',
         Unserved' <=> Unserved, Replied' <=> Replied, Replied => TheAnswer' = TheAnswer,
         Unserved \/ Replied => call'["pm"].op = call["pm"].op /\ call'["pm"].id = call["pm"].id
  PROVE  InStep'
<1>1. \A id : Owed(id)' = Owed(id)
  BY DEF Owed
<1>2. \A id : id \in DOMAIN details => (Settling(id)' <=> Settling(id))
  BY DEF Settling
<1>3. Mirrored'
  BY <1>2 DEF InStep, Mirrored
<1>4. Exact'
  BY <1>1 DEF InStep, Exact
<1>5. Decided'
  BY <1>1 DEF InStep, Decided
<1> QED
  BY <1>3, <1>4, <1>5 DEF InStep

\* A step of a request looks at the socket, and finds it open.
LEMMA LooksInTurn ==
  ASSUME InTurn, InCall, NEW t, t = "pm", Looks(t)
  PROVE  /\ UNCHANGED <<wire, sockets>>
         /\ \/ At(t, "check") /\ Goto(t, "checked")
            \/ At(t, "checked") /\ Goto(t, "send")
<1>1. ~(\/ Start(t) \/ Connect(t) \/ Recheck(t) \/ SocketError(t) \/ Stopping(t) \/ ShutFails(t))
  BY DEF InCall, Start, Connect, Recheck, SocketError, Stopping, ShutFails, IsNone, IsClosed, At
<1>2. ~(SendOutOfTurn(t) \/ RecvOutOfTurn(t))
  BY DEF InTurn, Asking, At, SendOutOfTurn, RecvOutOfTurn
<1>3. call[t].at \in {"check", "checked"} => socket # Null /\ state[socket] = "ready"
  BY DEF InTurn, InCall, InStop, Asking, At, Idle
<1>4. ~Raise(t)
  BY <1>3 DEF InCall, Raise, At
<1>5. CASE Check(t)
  BY <1>3, <1>5 DEF Check, IsNone, IsClosed, At
<1> QED
  BY <1>1, <1>2, <1>4, <1>5 DEF Looks

\* A request, up to the answer.
LEMMA RequestKeepsInStep ==
  ASSUME SocketInv, ReportInv, WireOK, Calm, InStep, InCall, Threads = {"pm"}, NEW t \in Threads,
         Requests(t)
  PROVE  InStep'
<1>0. /\ t = "pm" /\ Calls /\ SocketsOK /\ MessagesOK /\ CallersOK /\ InTurn
  BY DEF SocketInv, ReportInv, InStep
<1>1. /\ UNCHANGED <<details, told, executed, resting, lock>>
      /\ call'["pm"].op = call["pm"].op /\ call'["pm"].id = call["pm"].id
      /\ call'["pm"].request = call["pm"].request /\ call["pm"].op # "stop"
      /\ ~Idle("pm") /\ ~At("pm", "cleanup") /\ ~At("pm", "cleanup")'
  <2>1. GoesOn(t)
    BY <1>0, RequestGoesOn
  <2>2. UNCHANGED executed
    BY RequestExecutes
  <2> QED
    BY <1>0, <2>1, <2>2 DEF GoesOn, maps, Idle, At, InCall
<1>2. socket # Null /\ socket \in Sockets
  BY <1>0, <1>1 DEF InTurn, InStop, SocketsOK
<1>3. \A s : ~(Requested(s) /\ Answered(s))
  BY DEF Requested, Answered
<1>4. CASE Looks(t)
  <2>1. /\ UNCHANGED <<wire, sockets>>
        /\ \/ At(t, "check") /\ Goto(t, "checked")
           \/ At(t, "checked") /\ Goto(t, "send")
    BY <1>0, <1>4, LooksInTurn
  <2>2. call'[t].at \in {"checked", "send"}
    BY <1>0, <2>1, GotoCall DEF At, Places
  <2>3. InTurn' /\ (Unserved' <=> Unserved) /\ (Replied' <=> Replied) /\ ~Replied
    BY <1>0, <1>1, <1>2, <2>1, <2>2
       DEF InTurn, InCall, Asking, At, Idle, sockets, Unserved, Replied
  <2> QED
    BY <1>1, <2>3, QuietKeepsInStep
<1>5. CASE Send(t)
  <2>1. /\ At(t, "send") /\ Goto(t, "recv") /\ socket' = socket
        /\ wire' = [wire EXCEPT ![socket] = call[t].request]
        /\ state' = [state EXCEPT ![socket] = "awaiting"]
    BY <1>5 DEF Send
  <2>2. call'[t].at = "recv"
    BY <1>0, <2>1, GotoCall DEF At, Places
  <2>3. /\ wire'[socket] = call[t].request /\ state'[socket] = "awaiting"
        /\ \A s \in Sockets \ {socket} : wire'[s] = wire[s]
    BY <1>0, <1>2, <2>1 DEF MessagesOK, SocketsOK
  <2>4. call[t].request # Null /\ call[t].request.kind = "request"
    BY <1>0, <1>1 DEF CallersOK, RequestOK, InTurn, Idle
  <2>5. Requested(socket)'
    BY <2>1, <2>3, <2>4 DEF Requested
  <2>6. ~Asking /\ Asking' /\ ~Answered(socket)' /\ wire'[socket] = call'["pm"].request
    BY <1>0, <1>1, <1>3, <2>1, <2>2, <2>3, <2>4, <2>5 DEF Asking, At, Requested, Answered
  <2>7. InTurn'
    BY <1>0, <1>1, <1>2, <2>1, <2>2, <2>3, <2>5, <2>6 DEF InTurn, InCall, InStop, At
  <2>8. (Unserved' <=> Unserved) /\ (Replied' <=> Replied) /\ ~Replied
    BY <1>0, <2>1, <2>2, <2>5, <2>6 DEF At, Unserved, Replied
  <2> QED
    BY <1>1, <2>7, <2>8, QuietKeepsInStep
<1>6. CASE Recv(t)
  <2>1. /\ At(t, "recv") /\ call' = [call EXCEPT ![t].at = "wait", ![t].on = socket]
        /\ UNCHANGED <<wire, sockets>>
    BY <1>6 DEF Recv
  <2>2. call'[t].at = "wait" /\ call'[t].on = socket
    BY <1>0, <1>2, <2>1, WaitCall
  <2>3. InTurn' /\ (Unserved' <=> Unserved) /\ (Replied' <=> Replied) /\ TheAnswer' = TheAnswer
    BY <1>0, <1>1, <1>2, <2>1, <2>2
       DEF InTurn, InCall, InStop, Asking, At, Idle, sockets, Unserved, Replied, Requested, Answered, TheAnswer
  <2> QED
    BY <1>1, <2>3, QuietKeepsInStep
<1>7. CASE Receive(t)
  <2>1. /\ At(t, "wait") /\ call[t].on = socket /\ Answered(socket)
        /\ wire' = [wire EXCEPT ![socket] = Null]
        /\ Release(t, "ready") /\ GiveAnswer(t, wire[socket]) /\ socket' = socket
    BY <1>0, <1>7 DEF Receive, InTurn, At
  <2>2. call'[t].at = "answer" /\ call'[t].answer = wire[socket]
    BY <1>0, <2>1, AnswerGiven
  <2>3. /\ wire'[socket] = Null /\ state'[socket] = "ready"
        /\ \A s \in Sockets \ {socket} : wire'[s] = wire[s]
    BY <1>0, <1>2, <2>1 DEF MessagesOK, SocketsOK, Release
  <2>4. wire[socket] # Null
    BY <2>1 DEF Answered
  <2>5. InTurn' /\ (Unserved' <=> Unserved) /\ (Replied' <=> Replied) /\ TheAnswer' = TheAnswer
    BY <1>0, <1>1, <1>2, <1>3, <2>1, <2>2, <2>3, <2>4
       DEF InTurn, InCall, InStop, Asking, At, Idle, Unserved, Replied, Requested, Answered, TheAnswer
  <2> QED
    BY <1>1, <2>5, QuietKeepsInStep
<1>8. ~(NoSocket(t) \/ ReceiveBroken(t))
  BY <1>0, <1>2 DEF InTurn, Asking, At, NoSocket, ReceiveBroken
<1>10. ~(Open(t) \/ CloseSocket(t) \/ Forget(t) \/ ReturnNone(t))
  BY <1>0 DEF InCall, Open, CloseSocket, Forget, ReturnNone, At
<1>9. ~Timeout(t)
  <2> SUFFICES ASSUME Timeout(t) PROVE FALSE
    OBVIOUS
  <2>1. At(t, "wait") /\ ~Answered(socket) /\ (wire[socket] = Null \/ budget.timeouts > 0)
    BY <1>0 DEF Timeout, InTurn, At
  <2>2. budget.timeouts = 0
    BY DEF Calm
  <2> QED
    BY <1>0, <1>2, <2>1, <2>2 DEF InTurn, Asking, At, Requested
<1> QED
  BY <1>4, <1>5, <1>6, <1>7, <1>8, <1>9, <1>10 DEF Requests

\* The way of stop.
LEMMA StoppingInTurn ==
  ASSUME SocketInv, ReportInv, InTurn, InStop, Threads = {"pm"}, NEW t \in Threads, Requests(t)
  PROVE  InTurn' /\ InStop'
<1>0. /\ t = "pm" /\ Calls /\ SocketsOK /\ MessagesOK /\ CallersOK
      /\ {"forget", "failed"} \subseteq Places \ {"wait"}
  BY DEF SocketInv, ReportInv, Places
<1>1. /\ lock' = lock /\ call'[t].op = "stop"
  BY <1>0, RequestGoesOn DEF GoesOn, maps, InStop
<1>2. ~Asking /\ \A s \in Sockets : wire[s] = Null
  BY BrokerAssumption DEF InTurn, InStop, Asking
<1>3. ~(Open(t) \/ Send(t) \/ NoSocket(t) \/ Recv(t) \/ Receive(t) \/ ReceiveBroken(t) \/ Timeout(t))
  BY <1>0 DEF InStop, Open, Send, NoSocket, Recv, Receive, ReceiveBroken, Timeout, At
<1>4. CASE Looks(t)
  <2>1. /\ UNCHANGED <<wire, sockets>> /\ call[t].at \notin {"forget", "failed", "answer"}
        /\ call'[t].at \in {"stopping", "shut", "forget", "failed", "dead"}
        /\ At(t, "failed")' => socket = Null
        /\ At(t, "dead")' => socket = Null \/ state[socket] = "closed"
        /\ call'[t].at \in Replacing => call[t].at \in Replacing \/ socket = Null \/ state[socket] = "closed"
    BY <1>0, <1>4, LookMoves DEF InStop, Moves
  <2>2. socket # Null /\ state[socket] = "ready" /\ call[t].at \notin Replacing
    BY <1>0, <1>2, <2>1 DEF InTurn, InStop, Idle, At, Replacing
  <2>3. call'[t].at \in {"stopping", "shut"}
    BY <2>1, <2>2 DEF At, Replacing
  <2> QED
    BY <1>0, <1>1, <1>2, <2>1, <2>2, <2>3 DEF InTurn, InCall, InStop, Asking, At, Idle, sockets
<1>5. CASE CloseSocket(t)
  <2>1. /\ call[t].at = "shut" /\ Goto(t, "forget") /\ socket # Null /\ socket' = socket
        /\ \A s \in Sockets : wire'[s] = Null
    BY <1>0, <1>2, <1>5 DEF InStop, CloseSocket, At, Answered
  <2>2. call'[t].at = "forget"
    BY <1>0, <2>1, GoesTo
  <2> QED
    BY <1>0, <1>1, <2>1, <2>2 DEF InTurn, InCall, InStop, Asking, At, Idle, SocketsOK
<1>6. CASE Forget(t)
  <2>1. /\ call[t].at = "forget" /\ Goto(t, "failed") /\ socket' = Null
        /\ \A s \in Sockets : wire'[s] = Null
    BY <1>2, <1>6 DEF Forget, SetSocket, At
  <2>2. call'[t].at = "failed"
    BY <1>0, <2>1, GoesTo
  <2> QED
    BY <1>0, <1>1, <2>1, <2>2 DEF InTurn, InCall, InStop, Asking, At, Idle
<1>7. CASE ReturnNone(t)
  <2>1. call[t].at = "failed" /\ GiveAnswer(t, Null) /\ UNCHANGED <<wire, sockets>>
    BY <1>7 DEF ReturnNone, At
  <2>2. call'[t].at = "answer"
    BY <1>0, <2>1, AnswerGiven
  <2> QED
    BY <1>0, <1>1, <1>2, <2>1, <2>2 DEF InTurn, InCall, InStop, Asking, At, Idle, sockets
<1> QED
  BY <1>3, <1>4, <1>5, <1>6, <1>7 DEF Requests

\* It has nothing to do with the answers, the maps and the book.
LEMMA StoppingInStep ==
  ASSUME SocketInv, ReportInv, InStep, InStop, Threads = {"pm"}, NEW t \in Threads, Requests(t)
  PROVE  InStep'
<1>1. InTurn' /\ InStop'
  BY StoppingInTurn DEF InStep
<1>2. UNCHANGED <<details, told, executed, resting>>
  <2>1. GoesOn(t)
    BY RequestGoesOn DEF SocketInv, ReportInv
  <2> QED
    BY <2>1, RequestExecutes DEF GoesOn, maps
<1>3. /\ ~Unserved /\ ~Replied /\ ~At("pm", "cleanup")
      /\ ~Unserved' /\ ~Replied' /\ ~At("pm", "cleanup")'
  BY <1>1 DEF InStop, Unserved, Replied, Asking, At
<1> QED
  BY <1>1, <1>2, <1>3, QuietKeepsInStep

-----------------------------------------------------------------------------
(* What an answer reports, exactly *)

\* While the fills of an answer are applied: an order leaves the maps when all
\* of it was reported.
Spent(s) ==
  \A id \in DOMAIN details \ DOMAIN s.details :
    details[id].quantity <= Reported(s.told, details[id].client)

\* The reports are of the orders in the maps, too.
Placed(reports) ==
  \A id \in DOMAIN details : details[id].client \in DOMAIN reports /\ details[id].quantity \in Nat

\* One fill.
LEMMA ApplyFillSpends ==
  ASSUME NEW s, Settled(s), Spent(s), Placed(s.told), NEW fill, fill.quantity \in Nat,
         NEW after, after = ApplyFill(s, fill)
  PROVE  Spent(after) /\ DOMAIN after.details \subseteq DOMAIN s.details
<1>0. Applied(s) /\ Counted(s.told) /\ Tracked(s.details, s.told)
  BY DEF Settled, Applied
<1>1. CASE fill.id \notin DOMAIN s.details
  <2>1. after = s
    BY <1>1 DEF ApplyFill
  <2> QED
    BY <2>1
<1>2. CASE fill.id \in DOMAIN s.details
  <2> DEFINE id == fill.id
             order == s.details[id]
             filled == order.filled_quantity + fill.quantity
             status == IF filled >= order.quantity THEN "FILLED" ELSE "PARTIALLY_FILLED"
             kept == IF status = "FILLED" THEN status ELSE "WORKING"
             updated == [s.details EXCEPT ![id].filled_quantity = filled, ![id].status = kept]
  <2>1. after.details = IF status = "FILLED" THEN CleanedUp(updated, id) ELSE updated
    BY <1>2 DEF ApplyFill
  <2>2. /\ DOMAIN after.told = DOMAIN s.told
        /\ \A c \in DOMAIN s.told :
             Reported(after.told, c)
               = Reported(s.told, c) + (IF details[id].client = c THEN fill.quantity ELSE 0)
    <3> HIDE DEF id
    <3>1. \A c \in DOMAIN s.told :
             Reported(after.told, c)
               = Reported(s.told, c) + (IF id \in DOMAIN s.details /\ details[id].client = c
                                        THEN fill.quantity ELSE 0)
      BY <1>0, ApplyFillAdds DEF id
    <3> QED
      BY <1>0, <1>2, <3>1, ApplyFillAdds DEF id
  <2>3. /\ DOMAIN updated = DOMAIN s.details
        /\ DOMAIN CleanedUp(updated, id) = DOMAIN s.details \ {id}
    <3>1. DOMAIN updated = DOMAIN s.details
      OBVIOUS
    <3> HIDE DEF updated, id
    <3> QED
      BY <3>1 DEF CleanedUp, Restrict
  <2>4. /\ order.filled_quantity = Reported(s.told, details[id].client)
        /\ order.quantity = details[id].quantity /\ order.client = details[id].client
        /\ id \in DOMAIN details /\ order.quantity \in Nat
        /\ details[id].client \in DOMAIN s.told
    BY <1>0, <1>2 DEF Settled, TalliedIn, Applied, Tracked, OrderOf
  <2>5. \A c \in DOMAIN s.told : Reported(s.told, c) \in Nat
    BY <1>0, ReportedIsNat
  <2> HIDE DEF updated, kept
  <2>6. id \notin DOMAIN after.details => details[id].quantity <= Reported(after.told, details[id].client)
    BY <1>2, <2>1, <2>2, <2>3, <2>4, <2>5
  <2>7. ASSUME NEW i \in DOMAIN details \ DOMAIN after.details, i # id
        PROVE  details[i].quantity <= Reported(after.told, details[i].client)
    <3>1. i \notin DOMAIN s.details
      BY <2>1, <2>3, <2>7
    <3>2. details[i].quantity <= Reported(s.told, details[i].client)
      BY <3>1 DEF Spent
    <3>3. details[i].client \in DOMAIN s.told /\ details[i].quantity \in Nat
      BY DEF Placed
    <3> QED
      BY <2>2, <2>5, <3>2, <3>3
  <2> QED
    BY <2>1, <2>3, <2>6, <2>7 DEF Spent
<1> QED
  BY <1>1, <1>2

\* The fills of an answer, one by one: all that it says was filled of an order
\* that stays in the maps is reported.
LEMMA FillsAddAll ==
  ASSUME NEW base, Settled(base), DOMAIN base.details = DOMAIN details, Placed(base.told),
         NEW answer, FillsOK(answer),
         NEW after, after = FoldLeft(ApplyFill, base, answer.fills)
  PROVE  /\ Spent(after)
         /\ \A id \in DOMAIN after.details :
              Reported(after.told, details[id].client)
                = Reported(base.told, details[id].client) + FilledIn(answer, id)
<1> DEFINE fills == answer.fills
<1>1. PICK n \in Nat : DOMAIN fills = 1 .. n
  BY DEF FillsOK
<1>2. FoldLeft(ApplyFill, base, fills) = Fold!Folded(base, fills)
  BY DEF FoldLeft, MapThenFoldSet, Max, Fold!Folded, Fold!Folds, Fold!FoldOver, Fold!Greatest
<1>3. \A m \in 1 .. n : fills[m].quantity \in Nat
  BY <1>1 DEF FillsOK
<1> HIDE DEF fills
<1>4. PICK h : /\ h[0] = base
               /\ \A i \in 1 .. n : h[i] = ApplyFill(h[i - 1], fills[i])
               /\ h[n] = Fold!Folded(base, fills)
  BY <1>1, Fold!FoldInSteps
<1>5. after = h[n]
  BY <1>2, <1>4 DEF fills
<1>6. \A i \in 0 .. n : \A id : FilledBy(fills, i, id) \in Nat
  <2> SUFFICES ASSUME NEW i \in 0 .. n, NEW id PROVE FilledBy(fills, i, id) \in Nat
    OBVIOUS
  <2>1. i \in Nat /\ \A m \in 1 .. i : fills[m].quantity \in Nat
    BY <1>3
  <2> QED
    BY <2>1, FilledByNext
<1> DEFINE Fine(i) ==
             /\ Settled(h[i]) /\ Spent(h[i]) /\ DOMAIN h[i].told = DOMAIN base.told
             /\ \A id \in DOMAIN h[i].details :
                  Reported(h[i].told, details[id].client)
                    = Reported(base.told, details[id].client) + FilledBy(fills, i, id)
           Good == {i \in 0 .. n : Fine(i)}
<1>7. \A c \in DOMAIN base.told : Reported(base.told, c) \in Nat
  BY ReportedIsNat DEF Settled, Applied
<1>8. 0 \in Good
  <2>1. \A id : FilledBy(fills, 0, id) = 0
    <3>1. 0 \in Nat /\ \A m \in 1 .. 0 : fills[m].quantity \in Nat
      OBVIOUS
    <3> QED
      BY <3>1, FilledByNext
  <2>2. \A id \in DOMAIN details :
          Reported(base.told, details[id].client) + 0 = Reported(base.told, details[id].client)
    BY <1>7 DEF Placed
  <2>3. Spent(base)
    BY DEF Spent
  <2>4. Fine(0)
    BY <1>4, <2>1, <2>2, <2>3
  <2> HIDE DEF Fine
  <2> QED
    BY <2>4
<1>9. ASSUME NEW i \in 1 .. n, i - 1 \in Good PROVE i \in Good
  <2> DEFINE s == h[i - 1]
             fill == fills[i]
  <2>1. Fine(i - 1)
    BY <1>9
  <2>2. h[i] = ApplyFill(s, fill) /\ fill.quantity \in Nat
    BY <1>3, <1>4
  <2>3. /\ Settled(s) /\ Applied(s) /\ Spent(s) /\ Counted(s.told)
        /\ DOMAIN s.told = DOMAIN base.told /\ Placed(s.told)
    BY <2>1 DEF Settled, Placed
  <2>4. /\ Settled(h[i]) /\ Spent(h[i]) /\ DOMAIN h[i].told = DOMAIN s.told
        /\ DOMAIN h[i].details \subseteq DOMAIN s.details
        /\ \A c \in DOMAIN s.told :
             Reported(h[i].told, c)
               = Reported(s.told, c)
                   + (IF fill.id \in DOMAIN s.details /\ details[fill.id].client = c
                      THEN fill.quantity ELSE 0)
    <3> HIDE DEF s, fill
    <3> QED
      BY <2>2, <2>3, ApplyFillSettles, ApplyFillSpends, ApplyFillAdds
  <2>5. ASSUME NEW id \in DOMAIN h[i].details
        PROVE  Reported(h[i].told, details[id].client)
                 = Reported(base.told, details[id].client) + FilledBy(fills, i, id)
    <3>1. /\ id \in DOMAIN s.details /\ id \in DOMAIN details
          /\ details[id].client \in DOMAIN base.told
          /\ Reported(s.told, details[id].client)
               = Reported(base.told, details[id].client) + FilledBy(fills, i - 1, id)
      BY <2>1, <2>3, <2>4 DEF Applied, Placed
    <3>2. /\ FilledBy(fills, i - 1, id) \in Nat
          /\ FilledBy(fills, i, id)
               = FilledBy(fills, i - 1, id) + (IF fill.id = id THEN fill.quantity ELSE 0)
      <4>1. i \in Nat /\ i # 0 /\ i - 1 \in 0 .. n /\ \A m \in 1 .. i : fills[m].quantity \in Nat
        BY <1>3
      <4> QED
        BY <1>6, <4>1, FilledByNext
    <3>3. fill.id \in DOMAIN s.details /\ details[fill.id].client = details[id].client <=> fill.id = id
      BY <2>3, <3>1 DEF Applied, Tracked
    <3> HIDE DEF Fine, Good, s, fill
    <3> QED
      BY <1>7, <2>2, <2>3, <2>4, <3>1, <3>2, <3>3
  <2>6. Fine(i)
    BY <2>3, <2>4, <2>5
  <2> HIDE DEF Fine
  <2> QED
    BY <2>6
<1>10. Fine(n)
  <2> HIDE DEF Fine
  <2>1. \A i \in 0 .. n : i \in Good
    <3> HIDE DEF Good
    <3> QED
      BY <1>8, <1>9, CountingUp
  <2>2. n \in 0 .. n
    OBVIOUS
  <2> QED
    BY <2>1, <2>2
<1>11. \A id : FilledIn(answer, id) = FilledBy(fills, n, id)
  BY <1>1, FilledInIsNat DEF fills
<1> QED
  BY <1>5, <1>10, <1>11

-----------------------------------------------------------------------------
(* The steps of a call, where no request fails *)

\* Numbers of the orders in the maps.
LEMMA TrackedNumbers ==
  ASSUME ReportInv, OwnersOK
  PROVE  /\ Tracked(details, told) /\ Counted(told) /\ Placed(told) /\ DOMAIN told \subseteq Clients
         /\ \A c \in DOMAIN told : Reported(told, c) \in Nat /\ executed[c] \in Nat
<1>1. Tracked(details, told) /\ Counted(told)
  BY DEF ReportInv, MapsOK, OwnersOK
<1>2. Placed(told)
  BY <1>1 DEF Placed, Tracked, OrderOf
<1>3. \A c \in DOMAIN told : Reported(told, c) \in Nat
  BY <1>1, ReportedIsNat
<1> QED
  BY <1>1, <1>2, <1>3 DEF OwnersOK

\* An order that rests is not all executed.
LEMMA RestingOpen ==
  ASSUME ReportInv, OwnersOK, FateOK, NEW id \in DOMAIN details \cap DOMAIN resting
  PROVE  /\ owner[id] = details[id].client
         /\ executed[details[id].client] + resting[id].remaining = details[id].quantity
         /\ resting[id].remaining \in Nat \ {0}
         /\ executed[details[id].client] < details[id].quantity
<1>1. BookOK /\ SizesOK /\ Accounts
  BY DEF ReportInv, MessagesOK, FateOK
<1>2. resting[id].remaining \in Nat /\ resting[id].remaining > 0
  BY <1>1, RestingTyped DEF Accounts
<1>3. owner[id] = details[id].client
  BY DEF OwnersOK
<1>4. executed[details[id].client] + resting[id].remaining = details[id].quantity
  BY <1>1, <1>3 DEF Accounts, SizesOK
<1>5. executed[details[id].client] \in Nat
  BY TrackedNumbers DEF Placed
<1> QED
  BY <1>2, <1>3, <1>4, <1>5

\* An order that is in the maps rests in the book, unless it is that of a call
\* that submits it or was answered.
LEMMA RestsInBook ==
  ASSUME ReportInv, OwnersOK, Tallied, InStep, NEW id \in DOMAIN details,
         ~Replied, ~At("pm", "cleanup"), ~(call["pm"].op = "submit" /\ call["pm"].id = id /\ Unserved)
  PROVE  id \in DOMAIN resting
<1>1. Settling(id) \/ id \in DOMAIN resting
  BY DEF InStep, Mirrored
<1>2. Reported(told, details[id].client) + 0 = executed[details[id].client]
  BY DEF InStep, Exact, Owed
<1>3. Reported(told, details[id].client) < details[id].quantity
  BY DEF Tallied, TalliedIn, ReportInv, MapsOK, Unfilled
<1>4. Reported(told, details[id].client) \in Nat
  BY TrackedNumbers, Zenon DEF Placed
<1> QED
  BY <1>1, <1>2, <1>3, <1>4 DEF Settling

\* A thread that is in no call is idle.
LEMMA NoCallIsIdle == NoCall.at = "idle" /\ NoCall.op # "stop"
BY NullAssumption DEF NoCall

\* The answer to a submission that leaves the call.
LEMMA SubmitAnsweredInStep ==
  ASSUME SocketInv, ReportInv, WireOK, ExecInv, FateOK, Tallied, InStep, Threads = {"pm"},
         NEW t \in Threads, SubmitAnswered(t)
  PROVE  Stuck' \/ InStep'
<1> DEFINE id == call[t].id
           final == call[t].answer.final
           base == [details |-> [details EXCEPT ![id].status = "ACKNOWLEDGED"], told |-> told]
           after == FoldLeft(ApplyFill, base, call[t].answer.fills)
           known == id \in DOMAIN after.details
           forced == known /\ final = "FILLED" /\ after.details[id].status # "FILLED"
           killed == known /\ final = "REJECTED_BY_BOOK"
           mark(status) == [after.details EXCEPT ![id].status = status]
<1>1. /\ At(t, "answer") /\ call[t].op = "submit" /\ Ok(t)
      /\ UNCHANGED <<wire, resting, executed, sockets>>
      /\ \/ lock' = t /\ Goto(t, "cleanup")
         \/ /\ ~killed
            /\ details' = IF known /\ after.details[id].status = "ACKNOWLEDGED"
                            THEN mark("WORKING") ELSE after.details
            /\ told' = after.told
            /\ Return(t)
            /\ UNCHANGED lock
  BY Zenon DEF SubmitAnswered, bookVars
<1>2. /\ t = "pm" /\ ~Idle("pm") /\ ~At("pm", "cleanup") /\ id \in DOMAIN details
      /\ \A i \in DOMAIN details : ~Finished(told, details[i].client)
      /\ Calls /\ OwnersOK /\ Counted(told)
      /\ Tracked(details, told) /\ Unfilled(details) /\ FinalLast(told)
  BY <1>1, AtAnswer, Zenon DEF ReportInv, MapsOK, ExecInv, OwnersOK
<1>3. FillsOK(call[t].answer) /\ call[t].answer # Null
  BY <1>1, Zenon DEF ReportInv, MessagesOK, Ok
<1>4. CASE lock' = t /\ Goto(t, "cleanup")
  <2>1. call[t].at # "wait" /\ "cleanup" \in Places \ {"wait"}
    BY <1>1, Zenon DEF At, Places
  <2>2. call'[t].at = "cleanup"
    BY <1>2, <1>4, <2>1, GoesTo
  <2> QED
    BY <1>2, <1>4, <2>2, NullAssumption, Zenon DEF Stuck, At
<1>5. CASE /\ ~killed
           /\ details' = IF known /\ after.details[id].status = "ACKNOWLEDGED"
                           THEN mark("WORKING") ELSE after.details
           /\ told' = after.told
           /\ Return(t)
           /\ UNCHANGED lock
  <2>1. /\ call'["pm"] = NoCall /\ ~Asking' /\ ~Replied' /\ ~Unserved' /\ Idle("pm")'
        /\ ~At("pm", "cleanup")' /\ ~Asking /\ ~Unserved /\ Replied /\ TheAnswer = call[t].answer
        /\ InCall' /\ ~InStop
    <3>1. call'["pm"] = NoCall /\ call["pm"].at = "answer" /\ call["pm"].op = "submit"
      BY <1>1, <1>2, <1>5, ReturnCall, Zenon DEF At
    <3>2. call'["pm"].at = "idle" /\ call'["pm"].op # "stop"
      BY <3>1, NoCallIsIdle, Zenon
    <3> QED
      BY <1>2, <3>1, <3>2 DEF Asking, Replied, Unserved, Idle, At, TheAnswer, InCall, InStop
  <2>2. InTurn'
    BY <1>1, <1>2, <1>5, <2>1, Zenon DEF InStep, InTurn, At, Idle, sockets
  <2>3. Settled(base) /\ base.told = told /\ DOMAIN base.details = DOMAIN details
    <3> DEFINE marked == [details EXCEPT ![id].status = "ACKNOWLEDGED"]
    <3>1. Tracked(marked, told) /\ Unfilled(marked)
      BY <1>2, StatusChanges
    <3>2. /\ DOMAIN marked = DOMAIN details
          /\ \A i \in DOMAIN details : /\ marked[i].client = details[i].client
                                       /\ marked[i].quantity = details[i].quantity
                                       /\ marked[i].filled_quantity = details[i].filled_quantity
      BY <1>2, StatusKeeps
    <3>3. base.details = marked /\ base.told = told
      OBVIOUS
    <3> HIDE DEF marked, base
    <3>4. Applied(base)
      BY <1>2, <3>1, <3>2, <3>3 DEF Applied
    <3>5. TalliedIn(base.details, base.told)
      BY <3>2, <3>3 DEF Tallied, TalliedIn
    <3>6. \A d : LastStatus(d) = LastOf(told, d)
      BY DEF LastStatus, LastOf
    <3> QED
      BY <1>2, <3>2, <3>3, <3>4, <3>5, <3>6 DEF Settled
  <2> HIDE DEF base
  <2>4. /\ Placed(told) /\ DOMAIN told \subseteq Clients
        /\ \A c \in DOMAIN told : Reported(told, c) \in Nat /\ executed[c] \in Nat
    BY <1>2, TrackedNumbers
  <2>5. /\ Settled(after) /\ Spent(after)
        /\ \A i \in DOMAIN after.details :
             Reported(after.told, details[i].client)
               = Reported(told, details[i].client) + FilledIn(call[t].answer, i)
    BY <1>3, <2>3, <2>4, FillsSettle, FillsAddAll
  <2>6. ASSUME NEW c \in DOMAIN told
        PROVE  /\ DOMAIN after.told = DOMAIN told
               /\ \A i \in DOMAIN details : details[i].client = c =>
                    Reported(after.told, c) <= Reported(told, c) + FilledIn(call[t].answer, i)
               /\ (\A i \in DOMAIN details : details[i].client # c) =>
                    Reported(after.told, c) = Reported(told, c)
    <3> HIDE DEF after
    <3>1. /\ after = FoldLeft(ApplyFill, base, call[t].answer.fills) /\ Applied(base)
          /\ Counted(base.told) /\ Tracked(details, base.told)
      BY <1>2, <2>3 DEF after, Settled
    <3> QED
      BY <1>3, <2>3, <2>6, <3>1, FillsAdd
  <2> HIDE DEF after, final
  <2>7. /\ Tracked(after.details, after.told) /\ DOMAIN after.details \subseteq DOMAIN details
        /\ TalliedIn(after.details, after.told) /\ Unfilled(after.details) /\ Counted(after.told)
        /\ \A i \in DOMAIN after.details : /\ after.details[i].client = details[i].client
                                           /\ after.details[i].quantity = details[i].quantity
    BY <2>5 DEF Settled, Applied
  <2>8. DOMAIN after.told = DOMAIN told /\ \A c \in DOMAIN told : Reported(after.told, c) \in Nat
    <3>1. details[id].client \in DOMAIN told
      BY <1>2 DEF Tracked
    <3>2. DOMAIN after.told = DOMAIN told
      BY <2>6, <3>1
    <3> QED
      BY <2>7, <3>2, ReportedIsNat
  <2>9. /\ DOMAIN details' = DOMAIN after.details
        /\ \A i \in DOMAIN after.details : /\ details'[i].client = details[i].client
                                           /\ details'[i].quantity = details[i].quantity
    <3>1. ASSUME known, NEW status, details' = mark(status)
          PROVE  /\ DOMAIN details' = DOMAIN after.details
                 /\ \A i \in DOMAIN after.details : /\ details'[i].client = after.details[i].client
                                                    /\ details'[i].quantity = after.details[i].quantity
      BY <2>7, <3>1, StatusKeeps
    <3>2. \/ details' = after.details
          \/ known /\ \E status : details' = mark(status)
      BY <1>5
    <3> HIDE DEF mark, known
    <3> QED
      BY <2>7, <3>1, <3>2
  \* What was told in the end is what was executed.
  <2>10. ASSUME NEW i \in DOMAIN details
         PROVE  Reported(after.told, details[i].client) = executed[details[i].client]
    <3>1. /\ Reported(told, details[i].client) + FilledIn(call[t].answer, i) = executed[details[i].client]
          /\ executed[details[i].client] <= details[i].quantity
      BY <2>1 DEF InStep, Exact, Owed
    <3>2. CASE i \in DOMAIN after.details
      BY <2>5, <3>1, <3>2
    <3>3. CASE i \notin DOMAIN after.details
      <4>1. details[i].quantity <= Reported(after.told, details[i].client)
        BY <2>5, <3>3 DEF Spent
      <4>2. /\ details[i].client \in DOMAIN told /\ details[i].quantity \in Nat
            /\ Reported(after.told, details[i].client) <= executed[details[i].client]
        BY <2>4, <2>6, <3>1 DEF Placed
      <4> QED
        BY <2>4, <2>8, <3>1, <4>1, <4>2
    <3> QED
      BY <3>2, <3>3
  <2>11. Exact'
    <3>1. \A i \in DOMAIN details' :
            /\ Reported(told', details'[i].client) + 0 = executed'[details'[i].client]
            /\ executed'[details'[i].client] <= details'[i].quantity
      <4> SUFFICES ASSUME NEW i \in DOMAIN details'
                   PROVE  /\ Reported(told', details'[i].client) + 0 = executed'[details'[i].client]
                          /\ executed'[details'[i].client] <= details'[i].quantity
        OBVIOUS
      <4>1. /\ i \in DOMAIN details /\ details'[i].client = details[i].client
            /\ details'[i].quantity = details[i].quantity /\ details[i].client \in DOMAIN told
        BY <2>4, <2>7, <2>9 DEF Placed
      <4>2. Reported(told', details[i].client) = executed[details[i].client]
        BY <1>5, <2>10, <4>1
      <4>3. executed[details[i].client] <= details[i].quantity
        BY <4>1 DEF InStep, Exact
      <4> QED
        BY <1>1, <2>4, <4>1, <4>2, <4>3
    <3>2. ASSUME NEW c \in DOMAIN told', \A i \in DOMAIN details' : details'[i].client # c
          PROVE  Reported(told', c) = executed'[c]
      <4>1. c \in DOMAIN told
        BY <1>5, <2>8
      <4>2. CASE \E i \in DOMAIN details : details[i].client = c
        BY <1>1, <1>5, <2>10, <4>2
      <4>3. CASE \A i \in DOMAIN details : details[i].client # c
        BY <1>1, <1>5, <2>6, <4>1, <4>3 DEF InStep, Exact
      <4> QED
        BY <4>2, <4>3
    <3> QED
      BY <2>1, <3>1, <3>2 DEF Exact, Owed
  <2>12. Mirrored'
    <3>1. ASSUME NEW i \in DOMAIN resting PROVE i \in DOMAIN after.details
      <4>1. i \in DOMAIN details
        BY <3>1 DEF InStep, Mirrored
      <4>2. executed[details[i].client] < details[i].quantity
        BY <1>2, <3>1, <4>1, RestingOpen
      <4>3. i \notin DOMAIN after.details => details[i].quantity <= executed[details[i].client]
        BY <2>5, <2>10, <4>1 DEF Spent
      <4>4. executed[details[i].client] \in Nat /\ details[i].quantity \in Nat
        BY <2>4, <4>1 DEF Placed
      <4> QED
        BY <4>2, <4>3, <4>4
    <3>2. ASSUME NEW i \in DOMAIN after.details PROVE i \in DOMAIN resting
      <4>1. i \in DOMAIN details /\ Reported(after.told, details[i].client) < details[i].quantity
        BY <2>7, <3>2 DEF TalliedIn, Unfilled
      <4>2. executed[details[i].client] # details[i].quantity
        BY <2>4, <2>10, <4>1 DEF Placed
      <4>3. ~(i = id /\ final \in Verdicts)
        BY <1>1, <1>2, <1>5, <2>1, <3>2 DEF InStep, Decided, Verdicts, final
      <4>4. ~Settling(i)
        BY <1>1, <1>2, <2>1, <4>2, <4>3 DEF Settling, final
      <4> QED
        BY <4>1, <4>4 DEF InStep, Mirrored
    <3> QED
      BY <1>1, <2>1, <2>9, <3>1, <3>2 DEF Mirrored
  <2> QED
    BY <2>1, <2>2, <2>11, <2>12 DEF InStep, Decided
<1> QED
  BY <1>1, <1>4, <1>5, Zenon

\* A step that reports and trades nothing.
LEMMA QuietKeepsExact ==
  ASSUME ReportInv, OwnersOK, Exact, executed' = executed,
         \A id : Owed(id) = 0 /\ Owed(id)' = 0,
         DOMAIN details' \subseteq DOMAIN details,
         \A id \in DOMAIN details' : /\ details'[id].client = details[id].client
                                     /\ details'[id].quantity = details[id].quantity,
         DOMAIN told' = DOMAIN told, \A c \in DOMAIN told : Reported(told', c) = Reported(told, c)
  PROVE  Exact'
<1>1. /\ \A c \in DOMAIN told : Reported(told, c) \in Nat /\ executed[c] \in Nat
      /\ \A id \in DOMAIN details : details[id].client \in DOMAIN told
  BY TrackedNumbers DEF Placed
<1>2. \A id \in DOMAIN details : Reported(told, details[id].client) = executed[details[id].client]
  BY <1>1 DEF Exact
<1>3. ASSUME NEW id \in DOMAIN details'
      PROVE  /\ Reported(told', details'[id].client) + Owed(id)' = executed'[details'[id].client]
             /\ executed'[details'[id].client] <= details'[id].quantity
  BY <1>1, <1>2 DEF Exact
<1>4. ASSUME NEW c \in DOMAIN told', \A id \in DOMAIN details' : details'[id].client # c
      PROVE  Reported(told', c) = executed'[c]
  <2>1. CASE \E id \in DOMAIN details : details[id].client = c
    BY <1>2, <1>4, <2>1
  <2>2. CASE \A id \in DOMAIN details : details[id].client # c
    BY <1>4, <2>2 DEF Exact
  <2> QED
    BY <2>1, <2>2
<1> QED
  BY <1>3, <1>4 DEF Exact

\* The book confirmed a cancel.
LEMMA CancelAnsweredInStep ==
  ASSUME SocketInv, ReportInv, ExecInv, Traffic, InStep, Threads = {"pm"},
         NEW t \in Threads, CancelAnswered(t)
  PROVE  InStep'
<1> DEFINE c == call[t].request.client
           marked == [details EXCEPT ![call[t].id].status = "CANCELLED"]
<1>1. /\ At(t, "answer") /\ call[t].op = "cancel" /\ CancelConfirmed(t)
      /\ details' = marked /\ told' = Tell(told, c, Confirmation("CANCELLED", 0))
      /\ Goto(t, "cleanup")
      /\ UNCHANGED <<wire, lock, sockets, resting, executed>>
  BY DEF CancelAnswered, bookVars
<1>2. /\ t = "pm" /\ call[t].id \in DOMAIN details
      /\ details[call[t].id].client = c
      /\ Calls /\ OwnersOK /\ Counted(told) /\ Tracked(details, told)
  BY <1>1, AtAnswer DEF ReportInv, MapsOK, ExecInv, OwnersOK
<1>3. /\ call'["pm"].at = "cleanup" /\ call'["pm"].id = call["pm"].id
      /\ call'["pm"].request = call["pm"].request /\ call'["pm"].op = call["pm"].op
  BY <1>1, <1>2, GotoCall DEF At, Places
<1>4. /\ ~Asking /\ ~Asking' /\ ~Unserved /\ ~Unserved' /\ Replied /\ ~Replied' /\ At("pm", "cleanup")'
      /\ ~At("pm", "cleanup") /\ ~Idle("pm") /\ ~At("pm", "answer")' /\ ~At("pm", "wait")'
      /\ TheAnswer = call["pm"].answer /\ InCall' /\ ~InStop /\ ~At("pm", "forget")
  BY <1>1, <1>2, <1>3 DEF At, Idle, Asking, Unserved, Replied, TheAnswer, InCall, InStop
<1>5. InTurn'
  BY <1>1, <1>2, <1>3, <1>4 DEF InStep, InTurn, sockets
<1>6. /\ DOMAIN details' = DOMAIN details
      /\ \A id \in DOMAIN details : details'[id].client = details[id].client /\ details'[id].quantity = details[id].quantity
  <2>1. /\ DOMAIN marked = DOMAIN details
        /\ \A id \in DOMAIN details : marked[id].client = details[id].client /\ marked[id].quantity = details[id].quantity
    BY <1>2, StatusKeeps
  <2> HIDE DEF marked
  <2> QED
    BY <1>1, <2>1
<1>7. DOMAIN told' = DOMAIN told /\ \A d \in DOMAIN told : Reported(told', d) = Reported(told, d)
  <2>1. c \in DOMAIN told
    BY <1>2 DEF Tracked
  <2> HIDE DEF c
  <2>2. /\ DOMAIN told' = DOMAIN told
        /\ Reported(told', c) = Reported(told, c) + 0
        /\ \A d \in DOMAIN told \ {c} : Reported(told', d) = Reported(told, d)
    BY <1>1, <1>2, <2>1, TellAdds
  <2>3. \A d \in DOMAIN told : Reported(told, d) \in Nat
    BY <1>2, TrackedNumbers
  <2> QED
    BY <2>1, <2>2, <2>3
<1>8. Exact'
  <2>1. \A id : Owed(id) = 0 /\ Owed(id)' = 0
    BY <1>1, <1>2, <1>4 DEF InStep, Decided, Owed
  <2>2. Exact
    BY DEF InStep
  <2> QED
    BY <1>1, <1>2, <1>6, <1>7, <2>1, <2>2, QuietKeepsExact
<1>9. Mirrored'
  <2>1. call["pm"].id \notin DOMAIN resting
    BY <1>1, <1>2, <1>4 DEF Traffic, Gone, CancelConfirmed, Ok, Verdicts, At
  <2>2. ASSUME NEW id \in DOMAIN details' \ DOMAIN resting' PROVE Settling(id)'
    <3>1. id \in DOMAIN details /\ Settling(id)
      BY <1>1, <1>6, <2>2 DEF InStep, Mirrored
    <3> QED
      BY <1>1, <1>3, <1>4, <1>6, <3>1 DEF Settling
  <2> QED
    BY <1>1, <1>3, <1>6, <2>1, <2>2 DEF InStep, Mirrored
<1> QED
  BY <1>4, <1>5, <1>8, <1>9 DEF InStep, Decided

\* The call ends.
LEMMA CleanupInStep ==
  ASSUME SocketInv, ReportInv, ExecInv, InStep, Threads = {"pm"}, NEW t \in Threads, Cleanup(t)
  PROVE  InStep'
<1> DEFINE fewer == CleanedUp(details, call[t].id)
<1>1. /\ At(t, "cleanup") /\ details' = fewer /\ Return(t) /\ t = "pm"
      /\ UNCHANGED <<wire, lock, sockets, resting, executed, told>>
  BY DEF Cleanup, bookVars, history
<1>2. Calls /\ OwnersOK /\ Tracked(details, told)
  BY DEF ReportInv, MapsOK, ExecInv
<1>3. call'["pm"] = NoCall /\ call'["pm"].at = "idle"
  BY <1>1, <1>2, ReturnCall DEF NoCall
<1>4. /\ ~Asking /\ ~Asking' /\ ~Unserved /\ ~Unserved' /\ ~Replied /\ ~Replied' /\ ~At("pm", "cleanup")'
      /\ ~Idle("pm") /\ Idle("pm")' /\ ~At("pm", "answer")' /\ ~At("pm", "wait")'
      /\ ~InStop /\ InCall' /\ ~At("pm", "forget")
  BY <1>1, <1>3, NoCallIsIdle DEF At, Idle, Asking, Unserved, Replied, InCall, InStop
<1>5. InTurn'
  BY <1>1, <1>4 DEF InStep, InTurn, sockets
<1>6. /\ DOMAIN details' = DOMAIN details \ {call["pm"].id}
      /\ \A id \in DOMAIN details' : details'[id] = details[id]
  <2>1. /\ DOMAIN fewer = DOMAIN details \ {call[t].id}
        /\ \A i \in DOMAIN details \ {call[t].id} : fewer[i] = details[i]
    BY <1>2, CleanUpKeeps
  <2> HIDE DEF fewer
  <2> QED
    BY <1>1, <2>1
<1>7. Exact'
  <2>1. \A id : Owed(id) = 0 /\ Owed(id)' = 0
    BY <1>4 DEF Owed
  <2>2. Exact
    BY DEF InStep
  <2> QED
    BY <1>1, <1>2, <1>6, <2>1, <2>2, QuietKeepsExact
<1>8. Mirrored'
  <2>1. DOMAIN resting' \subseteq DOMAIN details'
    BY <1>1, <1>6 DEF InStep, Mirrored
  <2>2. ASSUME NEW id \in DOMAIN details' \ DOMAIN resting' PROVE Settling(id)'
    <3>1. id \in DOMAIN details /\ Settling(id) /\ id # call["pm"].id
      BY <1>1, <1>6, <2>2 DEF InStep, Mirrored
    <3>2. executed'[details'[id].client] = details'[id].quantity
      BY <1>1, <1>6, <2>2, <3>1 DEF Settling
    <3> QED
      BY <3>2 DEF Settling
  <2> QED
    BY <1>4, <2>1, <2>2 DEF Mirrored
<1> QED
  BY <1>4, <1>5, <1>7, <1>8 DEF InStep, Decided

\* A call begins: client and server are not at it yet.
LEMMA BeginsInTurn ==
  ASSUME Calls, InTurn, MayCall("pm"), "pm" \in Threads, UNCHANGED <<wire, lock, sockets, stopped>>,
         NEW op, NEW id, NEW request, op # "stop", request # Null, Begin("pm", op, id, request)
  PROVE  /\ InTurn'
         /\ call'["pm"].op = op /\ call'["pm"].id = id /\ call'["pm"].request = request
         /\ Idle("pm") /\ ~Asking /\ ~Unserved /\ ~Replied /\ ~At("pm", "cleanup")
         /\ ~Idle("pm")' /\ ~Asking' /\ Unserved' /\ ~Replied' /\ ~At("pm", "cleanup")'
<1>1. /\ call'["pm"].at = "check"
      /\ call'["pm"].op = op /\ call'["pm"].id = id /\ call'["pm"].request = request
  BY BeginCall
<1>2. /\ Idle("pm") /\ ~Asking /\ ~Unserved /\ ~Replied /\ ~At("pm", "cleanup")
      /\ ~Idle("pm")' /\ ~Asking' /\ Unserved' /\ ~Replied' /\ ~At("pm", "cleanup")'
  BY <1>1 DEF MayCall, Idle, Asking, Unserved, Replied, At
<1>3. socket # Null
  BY DEF MayCall, InTurn, InStop, Idle
<1>4. InTurn'
  BY <1>1, <1>2, <1>3 DEF InTurn, InCall, InStop, sockets, At, Idle
<1> QED
  BY <1>1, <1>2, <1>4

\* A submission begins.
LEMMA SubmitInStep ==
  ASSUME SocketInv, ReportInv, ExecInv, FateOK, InStep, UNCHANGED stopped,
         NEW c \in Clients, NEW type \in OrderTypes, NEW side \in Book!Sides, NEW price \in Prices,
         NEW quantity \in Quantities, Submit(c, type, side, price, quantity)
  PROVE  InStep'
<1> DEFINE order == [id |-> NextId, type |-> type, side |-> side, price |-> price,
                     initial |-> quantity, remaining |-> quantity]
           request == [kind |-> "request", command |-> "ADD_ORDER", id |-> NextId, order |-> order,
                       client |-> c]
           new == [client |-> c, quantity |-> quantity, filled_quantity |-> 0,
                   status |-> "PENDING_ACK"]
<1>1. /\ c \notin DOMAIN told /\ details' = Put(details, NextId, new) /\ told' = Put(told, c, << >>)
      /\ MayCall("pm") /\ Begin("pm", "submit", NextId, request)
      /\ UNCHANGED <<wire, lock, sockets, resting, executed>>
  BY DEF Submit, bookVars
<1>2. /\ "pm" \in Threads /\ Calls /\ OwnersOK /\ Counted(told) /\ Tracked(details, told)
      /\ broker_order_id_counter \in Nat /\ DOMAIN details \subseteq 1 .. broker_order_id_counter
      /\ NamesOK /\ InTurn
  BY BrokerAssumption DEF ExecInv, OwnersOK, ReportInv, MapsOK, FateOK, InStep
<1>3. NextId \notin DOMAIN details /\ NextId \in Nat
  BY <1>2 DEF NextId
<1>4. request # Null
  <2>1. quantity \in Nat
    BY BrokerAssumption
  <2>2. order \in [id : Nat, type : OrderTypes, side : Book!Sides, price : Prices,
                   initial : Nat, remaining : Int]
    BY <1>3, <2>1
  <2> HIDE DEF order
  <2> QED
    BY <1>3, <2>2, NullAssumption
<1>5. new.client = c /\ new.quantity = quantity /\ quantity \in Nat /\ quantity > 0
  BY BrokerAssumption
<1> HIDE DEF request, new
<1>6. /\ InTurn' /\ call'["pm"].op = "submit" /\ call'["pm"].id = NextId
      /\ Idle("pm") /\ ~Asking /\ ~Unserved /\ ~Replied /\ ~At("pm", "cleanup")
      /\ ~Idle("pm")' /\ ~Asking' /\ Unserved' /\ ~Replied' /\ ~At("pm", "cleanup")'
  BY <1>1, <1>2, <1>4, BeginsInTurn
<1>7. /\ DOMAIN details' = DOMAIN details \cup {NextId} /\ details'[NextId] = new
      /\ \A id \in DOMAIN details : details'[id] = details[id]
  BY <1>1, <1>3 DEF Put
<1>8. /\ DOMAIN told' = DOMAIN told \cup {c} /\ Reported(told', c) = 0
      /\ \A d \in DOMAIN told : Reported(told', d) = Reported(told, d)
  <2> DEFINE said == << >>
  <2>1. told' = Put(told, c, said) /\ 0 \in {0, 1} /\ DOMAIN said = 1 .. 0
        /\ \A i \in 1 .. 0 : said[i].filled_quantity = 0
    BY <1>1
  <2> HIDE DEF said
  <2> QED
    BY <1>1, <1>2, <2>1, OneMoreClient
<1>9. executed[c] = 0
  BY <1>1, <1>2 DEF NamesOK
<1>10. Exact'
  <2>0. \A id : Owed(id) = 0 /\ Owed(id)' = 0
    BY <1>6 DEF Owed
  <2>1. ASSUME NEW id \in DOMAIN details'
        PROVE  /\ Reported(told', details'[id].client) + Owed(id)' = executed'[details'[id].client]
               /\ executed'[details'[id].client] <= details'[id].quantity
    <3>1. CASE id = NextId
      BY <1>1, <1>5, <1>7, <1>8, <1>9, <2>0, <3>1
    <3>2. CASE id # NextId
      <4>1. id \in DOMAIN details /\ details'[id] = details[id] /\ details[id].client \in DOMAIN told
        BY <1>2, <1>7, <2>1, <3>2 DEF Tracked
      <4> QED
        BY <1>1, <1>8, <2>0, <4>1 DEF InStep, Exact
    <3> QED
      BY <3>1, <3>2
  <2>2. ASSUME NEW d \in DOMAIN told', \A id \in DOMAIN details' : details'[id].client # d
        PROVE  Reported(told', d) = executed'[d]
    <3>1. d # c
      BY <1>5, <1>7, <2>2
    <3>2. d \in DOMAIN told /\ \A id \in DOMAIN details : details[id].client # d
      BY <1>7, <1>8, <2>2, <3>1
    <3> QED
      BY <1>1, <1>8, <3>2 DEF InStep, Exact
  <2> QED
    BY <2>1, <2>2 DEF Exact
<1>11. Mirrored'
  <2>1. ASSUME NEW id \in DOMAIN details' \ DOMAIN resting' PROVE Settling(id)'
    <3>1. CASE id = NextId
      BY <1>6, <3>1 DEF Settling
    <3>2. CASE id # NextId
      <4>1. id \in DOMAIN details \ DOMAIN resting /\ details'[id] = details[id]
        BY <1>1, <1>7, <2>1, <3>2
      <4>2. executed[details[id].client] = details[id].quantity
        BY <1>6, <4>1 DEF InStep, Mirrored, Settling
      <4> QED
        BY <1>1, <4>1, <4>2 DEF Settling
    <3> QED
      BY <3>1, <3>2
  <2> QED
    BY <1>1, <1>6, <1>7, <2>1 DEF InStep, Mirrored
<1> QED
  BY <1>6, <1>10, <1>11 DEF InStep, Decided

\* An order without a price.
LEMMA SubmitUnpricedInStep ==
  ASSUME SocketInv, ReportInv, ExecInv, FateOK, InStep, UNCHANGED stopped,
         NEW c \in Clients, SubmitUnpriced(c)
  PROVE  InStep'
<1> DEFINE said == <<Confirmation("REJECTED", 0)>>
<1>1. /\ c \notin DOMAIN told /\ told' = Put(told, c, said) /\ Idle("pm")
      /\ UNCHANGED <<wire, lock, sockets, resting, executed, call, details>>
  BY DEF SubmitUnpriced, bookVars, maps, MayCall
<1>2. OwnersOK /\ Counted(told) /\ NamesOK /\ Tracked(details, told)
  BY DEF ExecInv, OwnersOK, FateOK, ReportInv, MapsOK
<1>3. executed[c] = 0
  BY <1>1, <1>2 DEF NamesOK
<1>4. /\ DOMAIN told' = DOMAIN told \cup {c} /\ Reported(told', c) = 0
      /\ \A d \in DOMAIN told : Reported(told', d) = Reported(told, d)
  <2>1. 1 \in {0, 1} /\ DOMAIN said = 1 .. 1 /\ \A i \in 1 .. 1 : said[i].filled_quantity = 0
    BY DEF Confirmation
  <2> HIDE DEF said
  <2> QED
    BY <1>1, <1>2, <2>1, OneMoreClient
<1>5. /\ Replied' <=> Replied
      /\ \A id : Owed(id)' = Owed(id)
      /\ \A id : Settling(id)' <=> Settling(id)
      /\ InTurn'
  BY <1>1 DEF InStep, InTurn, InCall, InStop, Replied, Unserved, Asking, At, Idle, TheAnswer, Owed, Settling, sockets,
              Answered, Requested
<1>6. Exact'
  <2>1. \A id \in DOMAIN details : details[id].client \in DOMAIN told
    BY <1>2 DEF Tracked
  <2> QED
    BY <1>1, <1>3, <1>4, <1>5, <2>1 DEF InStep, Exact
<1>7. Mirrored'
  BY <1>1, <1>5 DEF InStep, Mirrored, At
<1>8. Decided'
  BY <1>1, <1>5 DEF InStep, Decided, Replied, Asking, At, Idle
<1> QED
  BY <1>5, <1>6, <1>7, <1>8 DEF InStep

\* A cancel begins.
LEMMA CancelInStep ==
  ASSUME SocketInv, ReportInv, ExecInv, InStep, UNCHANGED stopped, NEW id, Cancel(id)
  PROVE  InStep'
<1> DEFINE request == [kind |-> "request", command |-> "CANCEL_ORDER", id |-> id, order |-> Null,
                       client |-> details[id].client]
           marked == [details EXCEPT ![id].status = "PENDING_CANCEL"]
<1>1. /\ MayCall("pm") /\ id \in DOMAIN details /\ details' = marked
      /\ Begin("pm", "cancel", id, request)
      /\ UNCHANGED <<wire, lock, sockets, resting, executed, told>>
  BY DEF Cancel, bookVars, history
<1>2. /\ "pm" \in Threads /\ Calls /\ OwnersOK /\ Counted(told) /\ Tracked(details, told) /\ InTurn
      /\ broker_order_id_counter \in Nat /\ DOMAIN details \subseteq 1 .. broker_order_id_counter
  BY BrokerAssumption DEF ExecInv, OwnersOK, ReportInv, MapsOK, InStep
<1>3. request # Null
  <2>1. id \in Nat /\ details[id].client \in Clients
    BY <1>1, <1>2, TrackedNumbers DEF Placed
  <2> QED
    BY <2>1, NullAssumption
<1> HIDE DEF request
<1>4. /\ InTurn' /\ call'["pm"].op = "cancel" /\ call'["pm"].id = id
      /\ Idle("pm") /\ ~Asking /\ ~Unserved /\ ~Replied /\ ~At("pm", "cleanup")
      /\ ~Idle("pm")' /\ ~Asking' /\ Unserved' /\ ~Replied' /\ ~At("pm", "cleanup")'
  BY <1>1, <1>2, <1>3, BeginsInTurn
<1>5. /\ DOMAIN details' = DOMAIN details
      /\ \A i \in DOMAIN details : details'[i].client = details[i].client /\ details'[i].quantity = details[i].quantity
  <2>1. /\ DOMAIN marked = DOMAIN details
        /\ \A i \in DOMAIN details : marked[i].client = details[i].client /\ marked[i].quantity = details[i].quantity
    BY <1>1, <1>2, StatusKeeps
  <2> HIDE DEF marked
  <2> QED
    BY <1>1, <2>1
<1>6. Exact'
  <2>1. (\A i : Owed(i) = 0 /\ Owed(i)' = 0) /\ Exact
    BY <1>4 DEF Owed, InStep
  <2> QED
    BY <1>1, <1>2, <1>5, <2>1, QuietKeepsExact
<1>7. Mirrored'
  <2>1. ASSUME NEW i \in DOMAIN details' \ DOMAIN resting' PROVE Settling(i)'
    <3>1. i \in DOMAIN details \ DOMAIN resting /\ executed[details[i].client] = details[i].quantity
      BY <1>1, <1>4, <1>5, <2>1 DEF InStep, Mirrored, Settling
    <3> QED
      BY <1>1, <1>5, <3>1 DEF Settling
  <2> QED
    BY <1>1, <1>4, <1>5, <2>1 DEF InStep, Mirrored
<1> QED
  BY <1>4, <1>6, <1>7 DEF InStep, Decided

\* The manager's thread stops the broker.
LEMMA StopInStep ==
  ASSUME SocketInv, ReportInv, InStep, NEW t \in Threads, Threads = {"pm"}, Stop(t) PROVE InStep'
<1>1. /\ t = "pm" /\ Idle("pm") /\ "pm" \notin stopped
      /\ UNCHANGED <<resting, details, lock, executed, told, wire, sockets>>
  BY DEF Stop, bookVars, maps, history
<1>2. call'["pm"].at = "stop" /\ call'["pm"].op = "stop"
  BY <1>1, StopShape DEF SocketInv
<1>3. /\ ~Asking /\ ~Asking' /\ ~Unserved /\ ~Unserved' /\ ~Replied /\ ~Replied'
      /\ ~At("pm", "cleanup") /\ ~At("pm", "cleanup")'
  BY <1>1, <1>2 DEF Asking, Unserved, Replied, Idle, At
<1>4. InTurn'
  BY <1>1, <1>2, <1>3 DEF InStep, InTurn, InCall, InStop, sockets, At, Idle
<1> QED
  BY <1>1, <1>3, <1>4, QuietKeepsInStep

\* The broker is stopped.
LEMMA StoppedInStep ==
  ASSUME SocketInv, InStep, NEW t \in Threads, Threads = {"pm"}, Stopped(t) PROVE InStep'
<1>1. /\ t = "pm" /\ call["pm"].at = "answer" /\ call["pm"].op = "stop" /\ "pm" \in stopped'
      /\ UNCHANGED <<resting, details, lock, executed, told, wire, sockets>> /\ Return(t)
  BY DEF Stopped, bookVars, maps, history, At
<1>2. call'["pm"].at = "idle" /\ call'["pm"].op # "stop"
  BY <1>1, ReturnCall, NoCallIsIdle DEF SocketInv
<1>3. /\ ~Asking /\ ~Asking' /\ ~Unserved /\ ~Unserved' /\ ~Replied /\ ~Replied'
      /\ ~At("pm", "cleanup") /\ ~At("pm", "cleanup")'
  BY <1>1, <1>2 DEF Asking, Unserved, Replied, At
<1>4. InTurn'
  BY <1>1, <1>2, <1>3 DEF InStep, InTurn, InCall, InStop, sockets, At, Idle
<1> QED
  BY <1>1, <1>3, <1>4, QuietKeepsInStep

-----------------------------------------------------------------------------
(* A turn of the server, where no request fails *)

\* The request that is served is that of the call, which gets the answer.
LEMMA ServedInTurn ==
  ASSUME SocketInv, ReportInv, InStep, Threads = {"pm"}, NEW s \in Sockets, ServeRequest(s)
  PROVE  /\ s = socket /\ Asking /\ Unserved /\ ~Replied /\ Requested(s)
         /\ ~Idle("pm") /\ ~At("pm", "cleanup") /\ ~At("pm", "cleanup")'
         /\ wire[s] = call["pm"].request /\ wire'[s] = Answer(reply')
         /\ UNCHANGED <<details, told, call, socket, state>>
         /\ Answer(reply') # Null =>
              /\ InTurn' /\ Replied' /\ ~Unserved'
              /\ TheAnswer' = Answer(reply')
              /\ \A id : Owed(id)' = FilledIn(Answer(reply'), id)
<1> DEFINE answer == Answer(reply')
<1>0. SocketsOK /\ MessagesOK /\ InTurn /\ s # Null /\ BookOK
  BY BrokerAssumption DEF SocketInv, ReportInv, InStep, MessagesOK
<1>1. /\ Requested(s) /\ UNCHANGED <<details, told, call, socket, state, lock, stopped>>
      /\ wire' = [wire EXCEPT ![s] = IF state[s] # "closed" THEN answer ELSE Null]
  BY Zenon DEF ServeRequest, Serve, maps, sockets
<1>2. answer.kind = "answer"
  <2>1. RequestOK(wire[s]) /\ Serve(s, state[s] # "closed")
    BY <1>0, <1>1, Zenon DEF MessagesOK, ServeRequest
  <2> QED
    BY <1>0, <2>1, ServeKeepsBook
<1> HIDE DEF answer
<1>3. s = socket
  BY <1>0, <1>1 DEF InTurn, Requested
<1>4. /\ ~Answered(s) /\ Asking /\ state[s] = "awaiting" /\ wire[s] = call["pm"].request
  BY <1>0, <1>1, <1>3 DEF InTurn, Requested, Answered
<1>5. /\ ~Idle("pm") /\ ~At("pm", "cleanup") /\ ~At("pm", "answer") /\ InCall /\ InCall'
      /\ call["pm"].at \notin {"check", "checked", "send"}
  BY <1>0, <1>1, <1>4 DEF Asking, Idle, At, InTurn, InCall, InStop
<1>6. wire'[s] = answer /\ \A w \in Sockets \ {s} : wire'[w] = wire[w]
  BY <1>0, <1>1, <1>4 DEF MessagesOK
<1>7. Unserved /\ ~Replied
  BY <1>1, <1>3, <1>4, <1>5 DEF Unserved, Replied
<1>8. ASSUME answer # Null
      PROVE  /\ InTurn' /\ Replied' /\ ~Unserved'
             /\ TheAnswer' = answer /\ \A id : Owed(id)' = FilledIn(answer, id)
  <2>1. Answered(socket)' /\ ~Requested(socket)'
    BY <1>1, <1>2, <1>3, <1>6, <1>8 DEF Answered, Requested
  <2>2. Asking' /\ ~At("pm", "answer")' /\ ~Idle("pm")'
    BY <1>1, <1>4, <1>5 DEF Asking, At, Idle
  <2>3. Replied' /\ ~Unserved' /\ TheAnswer' = answer
    BY <1>1, <1>3, <1>5, <1>6, <2>1, <2>2 DEF Replied, Unserved, TheAnswer
  <2>4. \A id : Owed(id)' = FilledIn(answer, id)
    BY <2>3 DEF Owed
  <2>5. InTurn'
    BY <1>0, <1>1, <1>3, <1>4, <1>5, <1>6, <2>1, <2>2 DEF InTurn, At, Idle
  <2> QED
    BY <2>3, <2>4, <2>5
<1>9. ~At("pm", "cleanup")'
  BY <1>1, <1>5 DEF At
<1> QED
  BY <1>1, <1>3, <1>4, <1>5, <1>6, <1>7, <1>8, <1>9 DEF answer

\* The answer to an order that is added, which is one.
LEMMA AddAnswered ==
  ASSUME SocketInv, ReportInv, OwnersOK, KnownOK, FateOK, NEW s \in Sockets,
         ServeRequest(s), Requested(s),
         wire[s].command = "ADD_ORDER", Book!Add(wire[s].order)
  PROVE  /\ Answer(reply') # Null /\ Answer(reply').status = "OK"
         /\ Answer(reply').final = FinalStatus(reply'.order)
         /\ ExecutedExactly(s, Answer(reply')) /\ FilledExactly(wire[s].order, Answer(reply'))
<1> DEFINE o == wire[s].order
           answer == Answer(reply')
           trades == reply'.trades
<1>0. MessagesOK /\ BookOK /\ RequestOK(wire[s]) /\ broker_order_id_counter \in Nat
  BY DEF ReportInv, MessagesOK, MapsOK
<1>1. o \in [id : Nat, type : OrderTypes, side : Book!Sides, price : Prices,
             initial : Nat, remaining : Nat]
  BY DEF KnownOK, AddsKnown
<1>2. /\ reply'.call = "AddOrder"
      /\ \E rest \in Int : reply'.order = [o EXCEPT !.remaining = rest]
      /\ Len(trades) \in Nat
  <2>1. PICK Seen : o \in AnyOrder(Seen)
    BY <1>0 DEF RequestOK
  <2> HIDE DEF o
  <2> QED
    BY <1>0, <2>1, AddAnswers DEF o
<1>3. reply'.order # Null
  <2>1. PICK rest \in Int : reply'.order = [o EXCEPT !.remaining = rest]
    BY <1>2
  <2>2. reply'.order \in [id : Nat, type : OrderTypes, side : Book!Sides, price : Prices,
                          initial : Nat, remaining : Int]
    BY <1>1, <2>1
  <2> QED
    BY <2>2, BrokerAssumption
<1>4. answer = [kind |-> "answer", status |-> "OK", fills |-> Fills(trades),
                final |-> FinalStatus(reply'.order)]
  BY <1>2, <1>3 DEF Answer
<1>5. /\ \A n \in DOMAIN answer.fills : answer.fills[n].id \in Nat /\ answer.fills[n].quantity \in Nat
  <2>1. Served(answer)
    BY <1>0, AddServed
  <2>2. FillsOK(answer)
    <3>1. Serve(s, state[s] # "closed")
      BY Zenon DEF ServeRequest
    <3> QED
      BY <1>0, <3>1, ServeKeepsBook
  <2> HIDE DEF answer
  <2>3. \A n \in DOMAIN answer.fills : answer.fills[n].id \in 1 .. broker_order_id_counter
    BY <2>1 DEF Served
  <2> QED
    BY <1>0, <2>2, <2>3 DEF FillsOK
<1>6. Fills(trades) \in Seq([id : Nat, quantity : Nat])
  BY <1>2, <1>4, <1>5, FillsAreMessages
<1>7. FinalStatus(reply'.order) \in {"FILLED", "REJECTED_BY_BOOK", "WORKING"}
  BY DEF FinalStatus
<1>8. answer # Null
  <2>1. answer \in [kind : {"answer"}, status : {"OK", "ERROR"},
                    fills : Seq([id : Nat, quantity : Nat]),
                    final : {Null, "FILLED", "REJECTED_BY_BOOK", "WORKING", "CANCELLED", "CANCEL_REJECTED"}]
    BY <1>4, <1>6, <1>7
  <2> QED
    BY <2>1, NullAssumption
<1>9. answer.fills = Fills(trades) /\ answer.status = "OK" /\ answer.final = FinalStatus(reply'.order)
  BY <1>4
<1> HIDE DEF answer
<1>10. ExecutedExactly(s, answer)
  BY <1>9, AddExecutes
<1>11. FilledExactly(o, answer)
  <2>1. PICK Seen : o \in AnyOrder(Seen)
    BY <1>0 DEF RequestOK
  <2> HIDE DEF o
  <2> QED
    BY <1>0, <1>9, <2>1, AddExact DEF o
<1> QED
  BY <1>8, <1>9, <1>10, <1>11 DEF answer

\* What an order that is added executes is what its answer says, of every order
\* of the maps and of no other.
LEMMA AddTells ==
  ASSUME ReportInv, OwnersOK, KnownOK, FateOK, InStep, ~Replied, NEW s \in Sockets, NEW answer,
         Requested(s), wire[s].command = "ADD_ORDER", wire[s].id \in DOMAIN details,
         ExecutedExactly(s, answer), FilledExactly(wire[s].order, answer)
  PROVE  /\ \A id \in DOMAIN details :
              /\ executed'[details[id].client] = executed[details[id].client] + FilledIn(answer, id)
              /\ Reported(told, details[id].client) = executed[details[id].client]
              /\ executed[details[id].client] \in Nat /\ details[id].client \in DOMAIN told
              /\ details[id].quantity \in Nat
         /\ \A c \in DOMAIN told : (\A id \in DOMAIN details : details[id].client # c)
              => Reported(told, c) = executed'[c]
         /\ DOMAIN resting \subseteq DOMAIN details
<1> DEFINE o == wire[s].order
<1>0. /\ NamesOK /\ Exact /\ DOMAIN resting \subseteq DOMAIN details
      /\ Placed(told) /\ DOMAIN told \subseteq Clients
      /\ \A c \in DOMAIN told : executed[c] \in Nat
  BY TrackedNumbers DEF FateOK, InStep, Mirrored
<1>1. /\ wire[s].id = o.id /\ o.id \in DOMAIN details
      /\ DOMAIN owner' = DOMAIN owner \cup {o.id} /\ owner'[o.id] = wire[s].client
      /\ \A id \in DOMAIN owner : owner'[id] = owner[id]
      /\ o.id \notin DOMAIN owner
      /\ \A id \in DOMAIN owner' : executed'[owner'[id]] = executed[owner'[id]] + FilledIn(answer, id)
      /\ \A c \in Clients : (\A id \in DOMAIN owner' : owner'[id] # c) => executed'[c] = executed[c]
      /\ \A id : id \notin DOMAIN resting \cup {o.id} => FilledIn(answer, id) = 0
  BY DEF ExecutedExactly, FilledExactly
<1>2. \A id \in DOMAIN owner' \cap DOMAIN details : owner'[id] = details[id].client
  BY <1>1 DEF OwnersOK, KnownOK, AddsKnown
<1>3. \A id \in DOMAIN owner' : Names(id, owner'[id])
  BY <1>1 DEF Names, Adds
<1>4. DOMAIN resting \cup {o.id} \subseteq DOMAIN owner'
  BY <1>1 DEF OwnersOK
<1> HIDE DEF o
<1>5. ASSUME NEW id \in DOMAIN details
      PROVE  /\ executed'[details[id].client] = executed[details[id].client] + FilledIn(answer, id)
             /\ Reported(told, details[id].client) = executed[details[id].client]
             /\ executed[details[id].client] \in Nat /\ details[id].client \in DOMAIN told
             /\ details[id].quantity \in Nat
  <2> DEFINE c == details[id].client
  <2>1. c \in DOMAIN told /\ c \in Clients /\ executed[c] \in Nat /\ details[id].quantity \in Nat
    BY <1>0 DEF Placed
  <2>2. Reported(told, c) = executed[c]
    <3>1. Reported(told, c) + Owed(id) = executed[c] /\ Owed(id) = 0
      BY <1>0 DEF Exact, Owed
    <3>2. Reported(told, c) \in Nat
      BY <2>1, TrackedNumbers
    <3> HIDE DEF c
    <3> QED
      BY <3>1, <3>2
  <2>3. CASE id \in DOMAIN owner'
    BY <1>1, <1>2, <2>1, <2>2, <2>3
  <2>4. CASE id \notin DOMAIN owner'
    <3>1. FilledIn(answer, id) = 0
      BY <1>1, <1>4, <2>4
    <3>2. Names(id, c)
      BY DEF Names
    <3>3. \A j \in DOMAIN owner' : owner'[j] # c
      BY <1>0, <1>3, <2>4, <3>2 DEF NamesOK
    <3>4. executed'[c] = executed[c]
      BY <1>1, <2>1, <3>3
    <3> HIDE DEF c
    <3>5. executed'[c] = executed[c] + FilledIn(answer, id)
      BY <2>1, <3>1, <3>4
    <3> QED
      BY <2>1, <2>2, <3>5 DEF c
  <2> QED
    BY <2>3, <2>4
<1>6. ASSUME NEW c \in DOMAIN told, \A id \in DOMAIN details : details[id].client # c
      PROVE  Reported(told, c) = executed'[c]
  <2>1. Reported(told, c) = executed[c] /\ c \in Clients /\ executed[c] \in Nat
    BY <1>0, <1>6 DEF Exact
  <2>2. CASE \A id \in DOMAIN owner' : owner'[id] # c
    BY <1>1, <2>1, <2>2
  <2>3. CASE ~(\A id \in DOMAIN owner' : owner'[id] # c)
    <3>1. PICK id \in DOMAIN owner' : owner'[id] = c
      BY <2>3
    <3>2. id \notin DOMAIN details
      BY <1>2, <1>6, <3>1
    <3>3. FilledIn(answer, id) = 0
      BY <1>0, <1>1, <3>2
    <3>4. executed'[c] = executed[c] + FilledIn(answer, id)
      BY <1>1, <3>1
    <3> QED
      BY <2>1, <3>3, <3>4
  <2> QED
    BY <2>2, <2>3
<1> QED
  BY <1>0, <1>5, <1>6

\* An order is added.
LEMMA AddInStep ==
  ASSUME SocketInv, ReportInv, OwnersOK, KnownOK, FateOK, RequestsOK, InStep, Threads = {"pm"},
         OrderTypes \subseteq {"GoodTillCancel", "FillAndKill"},
         NEW s \in Sockets, ServeRequest(s),
         wire[s].command = "ADD_ORDER", Book!Add(wire[s].order)
  PROVE  InStep'
<1> DEFINE o == wire[s].order
           answer == Answer(reply')
<1>1. /\ s = socket /\ Asking /\ ~Replied /\ Requested(s) /\ ~Idle("pm")
      /\ ~At("pm", "cleanup") /\ ~At("pm", "cleanup")'
      /\ wire[s] = call["pm"].request /\ UNCHANGED <<details, told, call>>
  BY ServedInTurn
<1>2. /\ answer # Null /\ answer.status = "OK" /\ answer.final = FinalStatus(reply'.order)
      /\ ExecutedExactly(s, answer) /\ FilledExactly(o, answer)
  BY <1>1, AddAnswered
<1>3. /\ InTurn' /\ Replied' /\ TheAnswer' = answer
      /\ \A id : Owed(id)' = FilledIn(answer, id)
  BY <1>2, ServedInTurn
<1> HIDE DEF answer
<1>4. /\ call["pm"].op = "submit" /\ call["pm"].id = wire[s].id /\ wire[s].id \in DOMAIN details
  <2>1. call["pm"].op # "stop"
    BY <1>1 DEF Asking, ReportInv, CallersOK, StopPlaces
  <2> QED
    BY <1>1, <2>1 DEF RequestsOK, ReportInv, CallersOK
<1>5. /\ wire[s].id = o.id /\ o.id \notin DOMAIN resting
      /\ o \in [id : Nat, type : OrderTypes, side : Book!Sides, price : Prices,
                initial : Nat, remaining : Nat]
      /\ DOMAIN resting' \subseteq DOMAIN resting \cup {o.id}
      /\ \A id : id \notin DOMAIN resting \cup {o.id} => FilledIn(answer, id) = 0
  BY <1>2 DEF ExecutedExactly, FilledExactly
<1>6. /\ o.initial > 0 /\ o.initial = details[o.id].quantity /\ executed[details[o.id].client] = 0
  <2>1. Adds(s) /\ Sized(wire[s])
    BY <1>1 DEF Adds, FateOK, SizesOK
  <2>2. details[o.id].client = wire[s].client
    BY <1>1, <1>4, <1>5 DEF KnownOK, AddsKnown
  <2> QED
    BY <1>2, <1>4, <1>5, <2>1, <2>2 DEF Sized, ExecutedExactly
<1>7. /\ FilledIn(answer, o.id) \in 0 .. o.initial
      /\ o.id \in DOMAIN resting' <=> o.type = "GoodTillCancel" /\ FilledIn(answer, o.id) < o.initial
      /\ reply'.order = [o EXCEPT !.remaining = o.initial - FilledIn(answer, o.id)]
  BY <1>2, <1>6 DEF FilledExactly
<1>8. reply'.order.remaining = o.initial - FilledIn(answer, o.id) /\ reply'.order.type = o.type
  BY <1>5, <1>7
<1>9. /\ \A id \in DOMAIN details :
           /\ executed'[details[id].client] = executed[details[id].client] + FilledIn(answer, id)
           /\ Reported(told, details[id].client) = executed[details[id].client]
           /\ executed[details[id].client] \in Nat /\ details[id].quantity \in Nat
      /\ \A c \in DOMAIN told : (\A id \in DOMAIN details : details[id].client # c)
           => Reported(told, c) = executed'[c]
      /\ DOMAIN resting \subseteq DOMAIN details
  BY <1>1, <1>2, <1>4, AddTells
<1> HIDE DEF o
<1>10. ASSUME NEW id \in DOMAIN resting
       PROVE  /\ executed[details[id].client] + resting[id].remaining = details[id].quantity
              /\ resting[id].remaining \in Nat
              /\ FilledIn(answer, id) \in 0 .. resting[id].remaining
              /\ id \notin DOMAIN resting' => FilledIn(answer, id) = resting[id].remaining
  <2>1. /\ executed[details[id].client] + resting[id].remaining = details[id].quantity
        /\ resting[id].remaining \in Nat \ {0}
    BY <1>9, RestingOpen
  <2>2. /\ FilledIn(answer, id) \in 0 .. resting[id].remaining
        /\ resting[id].remaining > 0 =>
             (id \in DOMAIN resting' <=> FilledIn(answer, id) < resting[id].remaining)
    BY <1>2 DEF FilledExactly, o
  <2> QED
    BY <2>1, <2>2
<1>11. ASSUME NEW id \in DOMAIN details
       PROVE  executed'[details[id].client] <= details[id].quantity
  <2> DEFINE old == executed[details[id].client]
             new == executed'[details[id].client]
             all == details[id].quantity
  <2>1. new = old + FilledIn(answer, id) /\ old \in Nat /\ all \in Nat
    BY <1>9
  <2>2. old <= all
    BY DEF InStep, Exact
  <2>3. CASE id \in DOMAIN resting
    <3>1. old + resting[id].remaining = all /\ resting[id].remaining \in Nat
          /\ FilledIn(answer, id) \in 0 .. resting[id].remaining
      BY <1>10, <2>3
    <3> HIDE DEF old, new, all
    <3>2. new <= all
      BY <2>1, <3>1
    <3> QED
      BY <3>2 DEF new, all
  <2>4. CASE id = o.id
    <3>1. old = 0 /\ all = o.initial
      BY <1>6, <2>4
    <3> HIDE DEF old, new, all
    <3>2. new <= all
      BY <1>7, <2>1, <2>4, <3>1
    <3> QED
      BY <3>2 DEF new, all
  <2>5. CASE id \notin DOMAIN resting \cup {o.id}
    <3>1. FilledIn(answer, id) = 0
      BY <1>5, <2>5
    <3> HIDE DEF old, new, all
    <3>2. new <= all
      BY <2>1, <2>2, <3>1
    <3> QED
      BY <3>2 DEF new, all
  <2> QED
    BY <2>3, <2>4, <2>5
<1>12. Exact'
  BY <1>1, <1>3, <1>9, <1>11 DEF Exact
<1>13. ASSUME NEW id \in DOMAIN details \ DOMAIN resting' PROVE Settling(id)'
  <2> DEFINE old == executed[details[id].client]
             new == executed'[details[id].client]
             all == details[id].quantity
  <2>1. new = old + FilledIn(answer, id) /\ old \in Nat /\ all \in Nat
    BY <1>9
  <2>2. new = all => Settling(id)'
    BY <1>1 DEF Settling
  <2>3. CASE id \in DOMAIN resting
    <3>1. old + resting[id].remaining = all /\ FilledIn(answer, id) = resting[id].remaining
      BY <1>10, <2>3
    <3> QED
      BY <2>1, <2>2, <3>1
  <2>4. CASE id = o.id
    <3>1. old = 0 /\ all = o.initial
      BY <1>6, <2>4
    <3>2. CASE FilledIn(answer, id) = o.initial
      BY <2>1, <2>2, <3>1, <3>2
    <3>3. CASE FilledIn(answer, id) # o.initial
      <4>1. FilledIn(answer, o.id) < o.initial /\ o.initial \in Nat /\ FilledIn(answer, o.id) \in Nat
        BY <1>6, <1>7, <1>9, <2>1, <2>4, <3>1, <3>3
      <4>2. o.type = "FillAndKill"
        <5>1. o.type # "GoodTillCancel"
          BY <1>7, <2>4, <4>1
        <5> QED
          BY <1>5, <5>1 DEF o
      <4>3. reply'.order.remaining # 0 /\ reply'.order.type = "FillAndKill"
        BY <1>8, <4>1, <4>2
      <4>4. answer.final = "REJECTED_BY_BOOK"
        BY <1>2, <4>3 DEF FinalStatus
      <4> QED
        BY <1>1, <1>3, <1>4, <1>5, <2>4, <4>4 DEF Settling, Verdicts
    <3> QED
      BY <3>2, <3>3
  <2>5. CASE id \notin DOMAIN resting \cup {o.id}
    <3>1. FilledIn(answer, id) = 0
      BY <1>5, <2>5
    <3>2. Settling(id)
      BY <2>5 DEF InStep, Mirrored
    <3>3. old = all
      BY <1>1, <1>4, <1>5, <2>5, <3>2 DEF Settling
    <3> QED
      BY <2>1, <2>2, <3>1, <3>3
  <2> QED
    BY <2>3, <2>4, <2>5
<1>14. Mirrored'
  BY <1>1, <1>4, <1>5, <1>9, <1>13 DEF Mirrored
<1>15. Decided'
  <2>1. answer.final # "CANCELLED"
    BY <1>2 DEF FinalStatus
  <2> QED
    BY <1>1, <1>2, <1>3, <1>4, <2>1 DEF Decided
<1> QED
  BY <1>3, <1>12, <1>14, <1>15 DEF InStep

\* The order of the maps is cancelled in the book.
LEMMA CancelServedInStep ==
  ASSUME SocketInv, ReportInv, OwnersOK, RequestsOK, Tallied, InStep, Threads = {"pm"},
         NEW s \in Sockets, ServeRequest(s),
         wire[s].command = "CANCEL_ORDER", Book!Cancel(wire[s].id)
  PROVE  InStep'
<1> DEFINE i == call["pm"].id
           answer == Answer(reply')
<1>1. /\ s = socket /\ Asking /\ ~Replied /\ Requested(s) /\ ~Idle("pm")
      /\ ~At("pm", "cleanup") /\ ~At("pm", "cleanup")'
      /\ wire[s] = call["pm"].request /\ UNCHANGED <<details, told, call>>
  BY ServedInTurn
<1>2. call["pm"].op = "cancel" /\ wire[s].id = i /\ i \in DOMAIN details
  <2>1. call["pm"].op # "stop"
    BY <1>1 DEF Asking, ReportInv, CallersOK, StopPlaces
  <2> QED
    BY <1>1, <2>1 DEF RequestsOK, ReportInv, CallersOK
<1>3. i \in DOMAIN resting
  BY <1>1, <1>2, RestsInBook
<1>4. /\ reply' = [call |-> "CancelOrder", id |-> i, ok |-> TRUE]
      /\ resting' = Book!Restrict(resting, DOMAIN resting \ {i})
  BY <1>2, <1>3 DEF Book!Cancel
<1>5. answer = [kind |-> "answer", status |-> "OK", fills |-> << >>, final |-> "CANCELLED"]
  BY <1>4 DEF Answer
<1>6. answer # Null
  <2>1. << >> \in Seq([id : Nat, quantity : Nat])
    OBVIOUS
  <2>2. answer \in [kind : {"answer"}, status : {"OK", "ERROR"},
                    fills : Seq([id : Nat, quantity : Nat]),
                    final : {Null, "FILLED", "REJECTED_BY_BOOK", "WORKING", "CANCELLED", "CANCEL_REJECTED"}]
    BY <1>5, <2>1
  <2> QED
    BY <2>2, NullAssumption
<1>7. /\ InTurn' /\ Replied' /\ TheAnswer' = answer
      /\ \A id : Owed(id)' = FilledIn(answer, id)
  BY <1>6, ServedInTurn
<1>8. \A id : FilledIn(answer, id) = 0
  <2>1. DOMAIN answer.fills = 1 .. 0 /\ 1 .. 0 = {}
    BY <1>5
  <2>2. FillsOK(answer) /\ \A id : \A n \in DOMAIN answer.fills : answer.fills[n].id # id
    BY <2>1 DEF FillsOK
  <2> HIDE DEF answer
  <2> QED
    BY <2>2, NothingFilled
<1>9. DOMAIN resting' = DOMAIN resting \ {i}
  BY <1>4 DEF Book!Restrict
<1>10. executed' = executed
  <2>1. ~(wire[s].command = "ADD_ORDER" /\ reply'.order # Null)
    OBVIOUS
  <2> QED
    BY <2>1, Zenon DEF ServeRequest
<1>11. answer.status = "OK" /\ answer.final = "CANCELLED"
  BY <1>5
<1> HIDE DEF answer, i
<1>12. \A id : Owed(id)' = 0 /\ Owed(id) = 0
  BY <1>1, <1>7, <1>8 DEF Owed
<1>13. Exact'
  BY <1>1, <1>10, <1>12 DEF InStep, Exact
<1>14. Mirrored'
  <2>1. ASSUME NEW id \in DOMAIN details \ DOMAIN resting' PROVE Settling(id)'
    <3>1. CASE id = i
      BY <1>1, <1>7, <1>11, <3>1 DEF Settling, Verdicts, i
    <3>2. CASE id # i
      <4>1. Settling(id)
        BY <1>9, <2>1, <3>2 DEF InStep, Mirrored
      <4>2. executed[details[id].client] = details[id].quantity
        BY <1>2, <3>2, <4>1 DEF Settling, i
      <4> QED
        BY <1>1, <1>10, <4>2 DEF Settling
    <3> QED
      BY <3>1, <3>2
  <2> QED
    BY <1>1, <1>9, <2>1 DEF InStep, Mirrored
<1>15. Decided'
  BY <1>1, <1>2, <1>7, <1>11, <1>12 DEF Decided
<1> QED
  BY <1>7, <1>13, <1>14, <1>15 DEF InStep

\* A turn of the server's loop.
LEMMA ServeInStep ==
  ASSUME SocketInv, ReportInv, OwnersOK, KnownOK, FateOK, RequestsOK, Tallied, InStep,
         Threads = {"pm"}, OrderTypes \subseteq {"GoodTillCancel", "FillAndKill"},
         NEW s \in Sockets, ServeRequest(s)
  PROVE  InStep'
<1>1. /\ Requested(s) /\ wire[s] = call["pm"].request /\ ~Idle("pm") /\ Asking
  BY ServedInTurn
<1>2. wire[s].command \in {"ADD_ORDER", "CANCEL_ORDER"}
  <2>1. call["pm"].op # "stop"
    BY <1>1 DEF Asking, ReportInv, CallersOK, StopPlaces
  <2> QED
    BY <1>1, <2>1 DEF RequestsOK
<1>3. \/ wire[s].command = "ADD_ORDER" /\ Book!Add(wire[s].order)
      \/ wire[s].command = "ADD_ORDER" /\ Book!AddDuplicate(wire[s].order.id)
      \/ wire[s].command = "CANCEL_ORDER" /\ Book!Cancel(wire[s].id)
  BY <1>2, Zenon DEF ServeRequest, Serve
<1>4. ~(wire[s].command = "ADD_ORDER" /\ Book!AddDuplicate(wire[s].order.id))
  <2> SUFFICES ASSUME wire[s].command = "ADD_ORDER", wire[s].order.id \in DOMAIN resting PROVE FALSE
    BY DEF Book!AddDuplicate
  <2>1. wire[s].id = wire[s].order.id /\ Untouched(wire[s].id, wire[s].client)
    BY <1>1 DEF KnownOK, AddsKnown, FateOK, OnceOK, Adds
  <2> QED
    BY <2>1 DEF Untouched, OwnersOK
<1> QED
  BY <1>3, <1>4, AddInStep, CancelServedInStep

-----------------------------------------------------------------------------
(* Every step, where no request fails *)

\* Nothing begins to fail.
LEMMA NextKeepsCalm ==
  ASSUME Calm, [Next]_vars PROVE Calm'
<1>1. /\ budget.calls \in Int /\ budget.timeouts = 0 /\ budget.crashes = 0 /\ budget.restarts = 0
      /\ budget \in [calls : Int, timeouts : {0}, crashes : {0}, restarts : {0}]
  BY DEF Calm
<1>2. CASE budget' = budget
  BY <1>2 DEF Calm
<1>3. CASE budget' = [budget EXCEPT !.calls = @ - 1]
  <2>1. budget.calls - 1 \in Int
    BY <1>1
  <2> QED
    BY <1>1, <1>3, <2>1 DEF Calm
<1>4. CASE Calling
  BY <1>2, <1>3, <1>4 DEF Calling, Submit, SubmitUnpriced, Cancel, GetMarketDataSnapshot
<1>5. ASSUME NEW t \in Threads, Step(t) \/ Stopped(t) PROVE Calm'
  <2>1. CASE Timeout(t)
    <3>1. budget' = budget \/ budget.timeouts > 0
      BY <2>1, Zenon DEF Timeout
    <3> QED
      BY <1>1, <1>2, <3>1
  <2>2. CASE ~Timeout(t)
    <3>1. budget' = budget
      <4>1. CASE Looks(t)
        BY <4>1, LookGoes
      <4>2. CASE Requests(t) /\ ~Looks(t)
        BY <2>2, <4>2, Zenon DEF Requests, Open, Send, NoSocket, Recv, Receive, ReceiveBroken, CloseSocket,
                                 Forget, ReturnNone
      <4>3. CASE Answers(t) \/ Stopped(t)
        BY <4>3, AnswersLeave
      <4> QED
        BY <1>5, <4>1, <4>2, <4>3, StepIs
    <3> QED
      BY <1>2, <3>1
  <2> QED
    BY <2>1, <2>2
<1>6. CASE (\E t \in Threads : Stop(t)) \/ (\E s \in Sockets : ServeRequest(s) \/ Linger(s)) \/ UNCHANGED vars
  BY <1>2, <1>6, Zenon DEF Stop, ServeRequest, Linger, vars
<1>7. ~ServerRestarts /\ ~ClientRestarts
  BY <1>1 DEF ServerRestarts, ClientRestarts
<1> QED
  BY <1>4, <1>5, <1>6, <1>7 DEF Next

\* The only thread waits for itself for ever.
LEMMA StuckStays ==
  ASSUME Calls, Calm, Threads = {"pm"}, Stuck, [Next]_vars PROVE Stuck'
<1>1. call["pm"].at = "cleanup" /\ lock # Null /\ ~Idle("pm") /\ "api" \notin Threads
  BY DEF Stuck, At, Idle
<1>2. ~Calling
  BY <1>1 DEF Calling, Submit, SubmitUnpriced, Cancel, MayCall
<1>3. ASSUME NEW t \in Threads PROVE ~Step(t) /\ ~Stop(t) /\ ~Stopped(t)
  <2>1. t = "pm"
    OBVIOUS
  <2>2. ~Requests(t)
    <3>1. ~Looks(t)
      BY <1>1, <2>1, LookMoves
    <3> QED
      BY <1>1, <2>1, <3>1 DEF Requests, Open, Send, NoSocket, Recv, Receive, ReceiveBroken, Timeout,
                              CloseSocket, Forget, ReturnNone, At
  <2>3. ~At(t, "answer")
    BY <1>1, <2>1 DEF At
  <2>4. ~(SubmitFailed(t) \/ SubmitAnswered(t) \/ CancelFailed(t) \/ CancelAnswered(t) \/ InfoReturned(t))
    BY <2>3, Zenon DEF SubmitFailed, SubmitAnswered, CancelFailed, CancelAnswered, InfoReturned
  <2>5. ~Cleanup(t) /\ ~Stop(t) /\ ~Stopped(t)
    BY <1>1, <2>1, <2>3 DEF Cleanup, Stop, Stopped
  <2> QED
    BY <2>2, <2>4, <2>5, StepIs DEF Answers
<1>4. CASE (\E s \in Sockets : ServeRequest(s) \/ Linger(s)) \/ UNCHANGED vars
  <2>1. UNCHANGED <<call, lock>>
    BY <1>4, Zenon DEF ServeRequest, Linger, vars, maps
  <2> QED
    BY <2>1 DEF Stuck, At
<1>5. ~ServerRestarts /\ ~ClientRestarts
  BY DEF Calm, ServerRestarts, ClientRestarts
<1> QED
  BY <1>2, <1>3, <1>4, <1>5 DEF Next

\* Every step of client and server keeps them in step, or ends in a call that
\* waits for itself.
LEMMA NextKeepsInStep ==
  ASSUME BaseInv, FateInv, Calm, Threads = {"pm"},
         OrderTypes \subseteq {"GoodTillCancel", "FillAndKill"}, InStep, [Next]_vars
  PROVE  Stuck' \/ InStep'
<1>0. /\ SocketInv /\ ReportInv /\ WireOK /\ ExecInv /\ OwnersOK /\ KnownOK
      /\ FateOK /\ RequestsOK /\ Tallied /\ Traffic /\ Calls /\ CallersOK /\ InTurn /\ Decided
      /\ "pm" \in Threads /\ "api" \notin Threads
  BY DEF BaseInv, FateInv, ExecInv, ReportInv, InStep
<1>1. CASE Calling /\ UNCHANGED stopped
  BY <1>0, <1>1, SubmitInStep, SubmitUnpricedInStep, CancelInStep DEF Calling
<1>2. ASSUME NEW t \in Threads, Step(t) \/ Stopped(t) PROVE Stuck' \/ InStep'
  <2>1. CASE Requests(t)
    BY <1>0, <2>1, RequestKeepsInStep, StoppingInStep DEF InTurn
  <2>6. CASE Stopped(t)
    BY <1>0, <2>6, StoppedInStep
  <2>2. CASE SubmitAnswered(t)
    BY <1>0, <2>2, SubmitAnsweredInStep
  <2>3. CASE CancelAnswered(t)
    BY <1>0, <2>3, CancelAnsweredInStep
  <2>4. CASE Cleanup(t)
    BY <1>0, <2>4, CleanupInStep
  <2>5. ~SubmitFailed(t) /\ ~CancelFailed(t) /\ ~InfoReturned(t)
    <3> SUFFICES ASSUME At("pm", "answer"),
                        \/ call["pm"].op = "submit" /\ ~Ok("pm")
                        \/ call["pm"].op = "cancel" /\ ~CancelConfirmed("pm")
                        \/ call["pm"].op = "info"
                 PROVE  FALSE
      BY DEF SubmitFailed, CancelFailed, InfoReturned
    <3>1. call["pm"].answer # Null /\ call["pm"].op \in {"submit", "cancel"}
      BY <1>0 DEF InTurn, InStop, CallersOK, Idle, At
    <3>2. Replied /\ TheAnswer = call["pm"].answer
      BY DEF Replied, TheAnswer
    <3>3. Ok("pm") /\ (call["pm"].op = "cancel" => CancelConfirmed("pm"))
      BY <1>0, <3>1, <3>2 DEF Decided, Ok, CancelConfirmed
    <3> QED
      BY <3>1, <3>3
  <2> QED
    BY <1>2, <2>1, <2>2, <2>3, <2>4, <2>5, <2>6, StepIs DEF Answers
<1>3. ASSUME NEW t \in Threads, Stop(t) PROVE InStep'
  BY <1>0, <1>3, StopInStep
<1>4. ASSUME NEW s \in Sockets, ServeRequest(s) PROVE InStep'
  BY <1>0, <1>4, ServeInStep
<1>5. ASSUME NEW s \in Sockets PROVE ~Linger(s)
  <2> SUFFICES ASSUME Requested(s), state[s] = "closed" PROVE FALSE
    BY DEF Linger
  <2>1. s = socket /\ s # Null /\ wire[s] # Null
    BY <1>0, BrokerAssumption DEF InTurn, Requested
  <2> QED
    BY <1>0, <2>1 DEF InTurn
<1>6. ~ServerRestarts /\ ~ClientRestarts
  BY DEF Calm, ServerRestarts, ClientRestarts
<1>7. CASE UNCHANGED vars
  <2>1. UNCHANGED <<resting, details, lock, socket, state, call, stopped, told, executed, wire>>
    BY <1>7 DEF vars, bookVars, maps, sockets, history
  <2>2. /\ Asking' <=> Asking
        /\ Requested(socket)' <=> Requested(socket)
        /\ Answered(socket)' <=> Answered(socket)
    BY <2>1 DEF Asking, Requested, Answered
  <2>3. (Unserved' <=> Unserved) /\ (Replied' <=> Replied) /\ TheAnswer' = TheAnswer
    BY <2>1, <2>2 DEF Unserved, Replied, TheAnswer, At
  <2>4. InTurn'
    BY <1>0, <2>1, <2>2 DEF InTurn, InCall, InStop, At, Idle
  <2>5. \A id : Owed(id)' = Owed(id) /\ (Settling(id)' <=> Settling(id))
    BY <2>1, <2>3 DEF Owed, Settling, At
  <2>6. Mirrored' /\ Exact' /\ Decided'
    BY <2>1, <2>3, <2>5 DEF InStep, Mirrored, Exact, Decided, At
  <2> QED
    BY <2>4, <2>6 DEF InStep
<1> QED
  BY <1>1, <1>2, <1>3, <1>4, <1>5, <1>6, <1>7 DEF Next

\* They are in step initially.
LEMMA InStepInit ==
  ASSUME Threads = {"pm"}, MaxTimeouts = 0, MaxCrashes = 0, MaxRestarts = 0, Init
  PROVE  Calm /\ InStep
<1>1. /\ DOMAIN details = {} /\ DOMAIN told = {} /\ DOMAIN resting = {}
      /\ \A s \in Sockets : wire[s] = Null
      /\ call["pm"].at = "idle" /\ call["pm"].op # "stop" /\ lock = Null /\ stopped = {}
      /\ socket \in Sockets /\ state[socket] = "ready"
  BY NoCallIsIdle DEF Init, InitServer, Book!Init, Opened
<1>2. ~Asking /\ ~Replied /\ ~Unserved
  BY <1>1 DEF Asking, Replied, Unserved, At
<1>3. InTurn
  BY <1>1, <1>2, BrokerAssumption DEF InTurn, InCall, InStop, At, Idle
<1>4. Mirrored /\ Exact /\ Decided
  BY <1>1, <1>2 DEF Mirrored, Exact, Decided, At
<1>5. Calm
  BY BrokerAssumption DEF Init, Calm
<1> QED
  BY <1>3, <1>4, <1>5 DEF InStep

\* The inductive invariant where no request fails.
CalmInv == BaseInv /\ FateInv /\ Calm /\ (Stuck \/ InStep)

\* It is one.
LEMMA CalmInvHolds ==
  ASSUME Threads = {"pm"}, MaxTimeouts = 0, MaxCrashes = 0, MaxRestarts = 0,
         OrderTypes \subseteq {"GoodTillCancel", "FillAndKill"}
  PROVE  Spec => []CalmInv
<1>1. Init => CalmInv
  <2>1. Init => WireOK /\ NoRestarts
    BY BrokerAssumption DEF Init, InitServer, WireOK, Answered, NoRestarts
  <2> QED
    BY <2>1, SocketsInit, ReportsInit, ExecInit, FateInit, InStepInit DEF BaseInv, CalmInv
<1>2. CalmInv /\ [Next]_vars => CalmInv'
  <2> SUFFICES ASSUME CalmInv, [Next]_vars PROVE CalmInv'
    OBVIOUS
  <2>1. BaseInv /\ FateInv /\ Calm /\ (Stuck \/ InStep) /\ Calls
    BY DEF CalmInv, BaseInv, SocketInv
  <2>2. BaseInv'
    BY <2>1, NextKeepsSockets, NextKeepsReports, NextKeepsWire, NextKeepsNoRestarts, NextKeepsExec
       DEF BaseInv
  <2>3. FateInv' /\ Calm'
    BY <2>1, NextKeepsFate, NextKeepsCalm
  <2>4. Stuck' \/ InStep'
    BY <2>1, StuckStays, NextKeepsInStep
  <2> QED
    BY <2>2, <2>3, <2>4 DEF CalmInv
<1> QED
  BY <1>1, <1>2, PTL DEF Spec

\* Between the calls the thread owes no report.
LEMMA IdleInStep ==
  ASSUME CalmInv, Idle("pm")
  PROVE  /\ ReportInv /\ OwnersOK /\ FateOK /\ Tallied /\ InStep
         /\ ~Replied /\ ~At("pm", "cleanup") /\ ~Unserved /\ \A id : Owed(id) = 0
<1>1. ~Replied /\ ~At("pm", "cleanup") /\ ~Unserved
  BY DEF Idle, Replied, At, Unserved, Asking
<1> QED
  BY <1>1 DEF CalmInv, Stuck, BaseInv, FateInv, ExecInv, Owed

\* Where no request fails, the manager's client and the server agree between the
\* calls on what was executed of every order: what its owner was told of its
\* fills, on entry or while it rested, is what was executed of it in the book,
\* though the fills of all orders come with the answers to the submissions of
\* others (cpp_ob_broker.py:151-191).
THEOREM FillsAlwaysReported ==
  ASSUME Threads = {"pm"}, MaxTimeouts = 0, MaxCrashes = 0, MaxRestarts = 0,
         OrderTypes \subseteq {"GoodTillCancel", "FillAndKill"}
  PROVE  Spec => []FillsReported
<1>1. CalmInv => FillsReported
  <2> SUFFICES ASSUME CalmInv, Idle("pm"), NEW c \in DOMAIN told PROVE Filled(c) = executed[c]
    BY DEF FillsReported
  <2>1. Filled(c) = Reported(told, c)
    BY Zenon DEF Filled, Reported, PlusReported
  <2>2. Exact /\ Reported(told, c) \in Nat /\ \A id : Owed(id) = 0
    BY IdleInStep, TrackedNumbers DEF InStep
  <2>3. Reported(told, c) = executed[c]
    <3>1. CASE \E id \in DOMAIN details : details[id].client = c
      <4>1. PICK id \in DOMAIN details : details[id].client = c
        BY <3>1
      <4>2. Reported(told, c) + 0 = executed[c]
        BY <2>2, <4>1 DEF Exact
      <4> QED
        BY <2>2, <4>2
    <3>2. CASE ~(\E id \in DOMAIN details : details[id].client = c)
      BY <2>2, <3>2 DEF Exact
    <3> QED
      BY <3>1, <3>2
  <2> QED
    BY <2>1, <2>3
<1> QED
  BY <1>1, CalmInvHolds, PTL

\* Where no request fails, the maps are the book between the calls: every order in
\* one is in the other, is the same client's and has the same quantity left, for
\* either type of order; one that the book killed never lets its call return
\* (cpp_ob_broker.py:27-29).
THEOREM OpenOrdersAlwaysTracked ==
  ASSUME Threads = {"pm"}, MaxTimeouts = 0, MaxCrashes = 0, MaxRestarts = 0,
         OrderTypes \subseteq {"GoodTillCancel", "FillAndKill"}
  PROVE  Spec => []OpenOrdersTracked
<1>1. CalmInv => OpenOrdersTracked
  <2> SUFFICES ASSUME CalmInv, Idle("pm")
               PROVE  /\ DOMAIN details = DOMAIN resting
                      /\ \A id \in DOMAIN details :
                           /\ details[id].client = owner[id]
                           /\ details[id].quantity - details[id].filled_quantity = resting[id].remaining
    BY DEF OpenOrdersTracked
  <2>1. /\ ReportInv /\ OwnersOK /\ FateOK /\ Tallied /\ InStep
        /\ ~Replied /\ ~At("pm", "cleanup") /\ ~Unserved /\ \A id : Owed(id) = 0
    BY IdleInStep
  <2>2. DOMAIN details = DOMAIN resting
    BY <2>1, RestsInBook DEF InStep, Mirrored
  <2>3. ASSUME NEW id \in DOMAIN details
        PROVE  /\ details[id].client = owner[id]
               /\ details[id].quantity - details[id].filled_quantity = resting[id].remaining
    <3> DEFINE c == details[id].client
    <3>1. /\ owner[id] = c /\ executed[c] + resting[id].remaining = details[id].quantity
          /\ resting[id].remaining \in Nat
      BY <2>1, <2>2, RestingOpen
    <3>2. Reported(told, c) + 0 = executed[c] /\ details[id].filled_quantity = Reported(told, c)
      BY <2>1 DEF InStep, Exact, Tallied, TalliedIn
    <3>3. Reported(told, c) \in Nat
      BY <2>1, TrackedNumbers DEF Placed
    <3> HIDE DEF c
    <3>4. details[id].quantity - details[id].filled_quantity = resting[id].remaining
      BY <3>1, <3>2, <3>3
    <3> QED
      BY <3>1, <3>4 DEF c
  <2> QED
    BY <2>2, <2>3
<1> QED
  BY <1>1, CalmInvHolds, PTL
=============================================================================
