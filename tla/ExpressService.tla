--------------------------- MODULE ExpressService ---------------------------
(***************************************************************************)
(* The two Express services, src/primos/app.js and src/multiplica/app.js,  *)
(* on node 18: one thread that runs one callback to its end before the     *)
(* next.  Requests wait in their connections, and connections not yet      *)
(* accepted in the backlog of the listening socket, while a handler is     *)
(* busy.  The image that runs is chosen by Init.                           *)
(***************************************************************************)
EXTENDS TrialDivision, FiniteSets

CONSTANTS
  Clients,      \* who sends requests
  Numbers,      \* what the parameter :number may be parsed to
  Loads,        \* what both parameters of /load may be parsed to
  NaN,          \* what parseInt and parseFloat make of other texts
  MULTIPLIER,   \* the variable of the environment, parsed
  HeapMB,       \* megabytes that fit into the heap of node
  None

ASSUME ParsedAssumption ==
  /\ NaN \notin Int /\ None \notin Clients
  /\ Numbers \subseteq Int \cup {NaN}
  /\ Loads \subseteq [cpu : Int \cup {NaN}, mem : Int \cup {NaN}]
  /\ MULTIPLIER \in Int \cup {NaN}
  /\ HeapMB \in Nat

VARIABLES
  image,     \* the program: "primos" or "multiplica"
  phase,     \* "serving"; "closing" after server.close; "exited"; "crashed"
  sigterm,   \* a SIGTERM that its handler has not seen
  conn,      \* each client's connection: "none"; "backlog"; "fresh", accepted;
             \* "kept" (alive) once a request has been answered on it
  request,   \* the last request on it
  answer,    \* and its answer, None until there is one
  current,   \* the client whose handler runs, or None
  search     \* the variables of that handler

vars == <<image, phase, sigterm, conn, request, answer, current, search>>

Requests ==
  [route : {"number"}, arg : Numbers]
    \cup [route : {"load"}, load : Loads]
    \cup [route : {"health", "other"}]

Alive == phase \in {"serving", "closing"}
Idle == Alive /\ current = None
Accepted(c) == conn[c] \in {"fresh", "kept"}
Pending(c) == request[c] # None /\ answer[c] = None

Init ==
  /\ image \in {"primos", "multiplica"}
  /\ phase = "serving"
  /\ sigterm = FALSE
  /\ conn = [c \in Clients |-> "none"]
  /\ request = [c \in Clients |-> None]
  /\ answer = [c \in Clients |-> None]
  /\ current = None
  /\ search = Search(0)

-----------------------------------------------------------------------------
\* Clients.  One may connect and ask nothing, ask on its connection as often
\* as it likes, after server.close too, and end it when it awaits no answer.
Connect(c) ==
  /\ phase = "serving" /\ conn[c] = "none"
  /\ conn' = [conn EXCEPT ![c] = "backlog"]
  /\ request' = [request EXCEPT ![c] = None]
  /\ answer' = [answer EXCEPT ![c] = None]
  /\ UNCHANGED <<image, phase, sigterm, current, search>>

Send(c) ==
  /\ Alive /\ conn[c] # "none"
  /\ ~Pending(c)
  /\ \E r \in Requests : request' = [request EXCEPT ![c] = r]
  /\ answer' = [answer EXCEPT ![c] = None]
  /\ UNCHANGED <<image, phase, sigterm, conn, current, search>>

Leave(c) ==
  /\ Alive /\ conn[c] # "none"
  /\ ~Pending(c)
  /\ conn' = [conn EXCEPT ![c] = "none"]
  /\ request' = [request EXCEPT ![c] = None]
  /\ answer' = [answer EXCEPT ![c] = None]
  /\ UNCHANGED <<image, phase, sigterm, current, search>>

\* The listening socket gets a connection out of the backlog.
Accept(c) ==
  /\ Idle /\ phase = "serving"
  /\ conn[c] = "backlog"
  /\ conn' = [conn EXCEPT ![c] = "fresh"]
  /\ UNCHANGED <<image, phase, sigterm, request, answer, current, search>>

-----------------------------------------------------------------------------
\* Answers: a status and what of the body depends on the request.
Ok(body) == [status |-> 200, body |-> body]
Failed(status) == [status |-> status, body |-> None]

\* The connection is ended instead, and its request forgotten.
Cut == Failed(0)
Unread(c) == IF Pending(c) THEN Cut ELSE None

multiplier == IF MULTIPLIER = NaN THEN 2 ELSE MULTIPLIER

\* x || other, for a number x.
Or(x, other) == IF x \in {NaN, 0} THEN other ELSE x

\* The handlers that answer at once, after the routes and their checks.
\* The mutant lets negative numbers pass.
NotANumber(r) == r.arg = NaN
BadNumber(r) == r.arg = NaN \/ (image = "primos" /\ r.arg < 0)

\* /load: both parameters, in millions of iterations and in megabytes.
\* new Array throws a RangeError from 2^32 elements of 8 bytes on, which
\* Express answers with 500.
BadLoad(r) == Or(r.load.cpu, 1) < 0 \/ Or(r.load.mem, 10) < 0
consumirMemoria(mb) == IF mb >= 32768 THEN Failed(500) ELSE Ok(mb * 131072)
Aborts(r) == r.route = "load" /\ ~BadLoad(r) /\ Or(r.load.mem, 10) \in HeapMB + 1 .. 32767

Response(r) ==
  CASE r.route = "number" /\ BadNumber(r) -> Failed(400)
    [] r.route = "number" /\ ~BadNumber(r) -> Ok(r.arg * multiplier)
    [] r.route = "load" /\ BadLoad(r) -> Failed(400)
    [] r.route = "load" /\ ~BadLoad(r) -> consumirMemoria(Or(r.load.mem, 10))
    [] r.route = "health" -> Ok(None)
    [] r.route = "other" -> Failed(404)

Searches(r) == image = "primos" /\ r.route = "number" /\ ~BadNumber(r)

\* The mutant turns its back on its connections once it has stopped listening.
Listening(c) == Idle /\ phase = "serving" /\ Accepted(c) /\ Pending(c)
Ready(c) == Idle /\ Accepted(c) /\ Pending(c)

Respond(c) ==
  /\ Ready(c)
  /\ ~Searches(request[c]) /\ ~Aborts(request[c])
  /\ answer' = [answer EXCEPT ![c] = Response(request[c])]
  /\ conn' = [conn EXCEPT ![c] = "kept"]
  /\ UNCHANGED <<image, phase, sigterm, request, current, search>>

\* The heap is exhausted: V8 aborts the process.
Abort(c) ==
  /\ Ready(c)
  /\ Aborts(request[c])
  /\ phase' = "crashed"
  /\ UNCHANGED <<image, sigterm, conn, request, answer, current, search>>

\* GET /primos/:number: the loops, which nothing interrupts, and the answer.
StartSearch(c) ==
  /\ Ready(c)
  /\ Searches(request[c])
  /\ current' = c
  /\ search' = Search(request[c].arg)
  /\ UNCHANGED <<image, phase, sigterm, conn, request, answer>>

obtenerPrimos ==
  /\ Alive /\ current # None
  /\ ~Over(search)
  /\ search' = Turn(search)
  /\ UNCHANGED <<image, phase, sigterm, conn, request, answer, current>>

\* The search is left as it was at the start, its variables being gone.
AnswerPrimes ==
  /\ Alive /\ current # None
  /\ Over(search)
  /\ answer' = [answer EXCEPT ![current] =
                  Ok([input |-> search.n, primos |-> search.primos,
                      cantidad |-> Len(search.primos)])]
  /\ conn' = [conn EXCEPT ![current] = "kept"]
  /\ current' = None
  /\ search' = Search(0)
  /\ UNCHANGED <<image, phase, sigterm, request>>

-----------------------------------------------------------------------------
\* Node ends a connection; a request that it has not read yet is cut off.
\* The event loop looks at its timers before it reads, so that may happen to
\* one that came in the same moment, or during the loops of another.
End(c) ==
  /\ Idle
  /\ conn' = [conn EXCEPT ![c] = "none"]
  /\ request' = [request EXCEPT ![c] = None]
  /\ answer' = [answer EXCEPT ![c] = Unread(c)]
  /\ UNCHANGED <<image, phase, sigterm, current, search>>

\* keepAliveTimeout counts from the last answer on.
KeepAliveTimeout(c) == conn[c] = "kept" /\ End(c)

\* headersTimeout counts from the accept on, until server.close clears the
\* interval that looks for connections without a request.
HeadersTimeout(c) == phase = "serving" /\ conn[c] = "fresh" /\ End(c)

-----------------------------------------------------------------------------
\* The kubelet, or anybody, sends a SIGTERM.
Signal ==
  /\ Alive /\ ~sigterm
  /\ sigterm' = TRUE
  /\ UNCHANGED <<image, phase, conn, request, answer, current, search>>

\* server.close: the socket no longer listens, and the connections in its
\* backlog are reset; those accepted stay.  The mutant forgets the backlog.
Kept(c) == FALSE
Refused(c) == conn[c] = "backlog"

OnSigterm ==
  /\ Idle /\ sigterm
  /\ sigterm' = FALSE
  /\ phase' = "closing"
  /\ conn' = [c \in Clients |-> IF Refused(c) THEN "none" ELSE conn[c]]
  /\ request' = [c \in Clients |-> IF Refused(c) THEN None ELSE request[c]]
  /\ answer' = [c \in Clients |-> IF Refused(c) THEN Unread(c) ELSE answer[c]]
  /\ UNCHANGED <<image, current, search>>

\* The callback of server.close runs when no connection is left.
\* The mutant does not wait for it.
AtOnce == TRUE
Drained == \A c \in Clients : conn[c] = "none"

Exit ==
  /\ Idle /\ phase = "closing"
  /\ Drained
  /\ phase' = "exited"
  /\ UNCHANGED <<image, sigterm, conn, request, answer, current, search>>

-----------------------------------------------------------------------------
Client(c) == Connect(c) \/ Send(c) \/ Leave(c)
Serve(c) == Accept(c) \/ Respond(c) \/ Abort(c) \/ StartSearch(c)
Timeout(c) == KeepAliveTimeout(c) \/ HeadersTimeout(c)
Loop == obtenerPrimos \/ AnswerPrimes

Next ==
  \/ \E c \in Clients : Client(c) \/ Serve(c) \/ Timeout(c)
  \/ Loop
  \/ Signal \/ OnSigterm \/ Exit

Spec == Init /\ [][Next]_vars

\* The thread runs, and its event loop gets round to everything that waits;
\* a kept connection on which nothing is asked ends.
Fairness ==
  /\ WF_vars(Loop)
  /\ SF_vars(OnSigterm)
  /\ WF_vars(Exit)
  /\ \A c \in Clients :
       SF_vars(Serve(c)) /\ WF_vars(~Pending(c) /\ KeepAliveTimeout(c))

FairSpec == Spec /\ Fairness
=============================================================================
