---------------------- MODULE ExpressServiceProperties ----------------------
(***************************************************************************)
(* What the two Express services should guarantee.                         *)
(***************************************************************************)
EXTENDS ExpressService

\* The variables have their types; only answers have a status of HTTP.
TypeOK ==
  /\ image \in {"primos", "multiplica"}
  /\ phase \in {"serving", "closing", "exited", "crashed"}
  /\ sigterm \in BOOLEAN
  /\ conn \in [Clients -> {"none", "backlog", "fresh", "kept"}]
  /\ request \in [Clients -> Requests \cup {None}]
  /\ \A c \in Clients : answer[c] \notin {None, Cut} => answer[c].status \in {200, 400, 404, 500}
  /\ current \in Clients \cup {None}
  /\ search \in [n : Nat, i : Nat, d : Nat, primos : Seq(Nat)]

\* An answer of GET /primos/:number lists, in order, exactly the primes up
\* to the number that this client asked for (primos/app.js:72).
PrimesRight ==
  \A c \in Clients :
    (image = "primos" /\ answer[c] \notin {None, Cut} /\ Searches(request[c])) =>
      /\ answer[c].status = 200
      /\ answer[c].body.input = request[c].arg
      /\ answer[c].body.cantidad = Len(answer[c].body.primos)
      /\ ListsPrimes(answer[c].body.primos, request[c].arg)

\* A process that ends by itself after SIGTERM leaves no request waiting: it
\* has answered all that it read (primos/app.js:129), and ended the
\* connections of those that it did not.
Graceful ==
  phase = "exited" => \A c \in Clients : ~Pending(c)

\* No request waits for ever, however many others come and however long their
\* loops: it is answered, or its connection is ended under it, or the process
\* dies.  The first request of an accepted connection is answered though the
\* server is closed meanwhile: no timer is left that could cut it off.
EveryRequestSettled ==
  \A c \in Clients :
    /\ Pending(c) ~> (~Pending(c) \/ phase = "crashed")
    /\ (phase = "closing" /\ conn[c] = "fresh" /\ Pending(c))
         ~> (answer[c] \notin {None, Cut} \/ phase = "crashed")

\* After a SIGTERM the process ends, whatever it was doing, when clients ask
\* no more and none keeps a connection on which it never asked.  Either could
\* hold it for ever: server.close of node 18 ends no accepted connection.
ShutsDown ==
  (\A c \in Clients : <>[][~Send(c)]_vars /\ <>[](conn[c] # "fresh"))
    => (sigterm ~> (phase \in {"exited", "crashed"}))
=============================================================================
