--------------------------- MODULE WebClientProofs ---------------------------
(***************************************************************************)
(* The banner shows the errors of the last two seconds, and the probes     *)
(* behind the pages fail as they were told, for any pages, clicks and      *)
(* connections, whatever is lost and in whatever order it is answered; a   *)
(* page shows answers to its own visit, and a poll leaves its form alone.  *)
(***************************************************************************)
EXTENDS WebClientProperties, DebugProbeProofs, FiniteSetTheorems

-----------------------------------------------------------------------------
\* The banner has one interval exactly while it is shown, and that interval
\* is due when two seconds are over.
BannerInv ==
  \/ isDisconnected = FALSE /\ intervals = {} /\ timer = NoTimer /\ quiet = 2
  \/ isDisconnected = TRUE /\ quiet \in {0, 1} /\ timer = 2 - quiet /\ intervals = {timer}

\* A step of the client leaves the banner alone, reports an error or lets a
\* second pass.
LEMMA BannerSteps == ASSUME [Next]_vars
                     PROVE  UNCHANGED bannerVars \/ reportConnError \/ Tick
<1>1. CASE User
  BY <1>1 DEF User, handleNavigation, configure, AllocOrClear, KeyGenSubmit,
              KeyGenChange, DnsSubmit, Click, fetch
<1>2. CASE loadState \/ Second \/ Restart \/ Meanwhile
  BY <1>2 DEF loadState, Second, Restart, Meanwhile
<1>3. ASSUME NEW k \in Conns, Begin(k) \/ Write(k) \/ Answer(k) \/ Lose(k) \/ Settle(k)
      PROVE  UNCHANGED bannerVars \/ reportConnError
  BY <1>3 DEF Begin, Write, Answer, Lose, Settle, Deliver, Reject
<1>4. CASE UNCHANGED vars
  BY <1>4 DEF vars
<1> QED
  BY <1>1, <1>2, <1>3, <1>4 DEF Next

\* An error shows the banner for two more seconds.
LEMMA ReportKeeps == BannerInv /\ reportConnError => BannerInv'
  BY DEF BannerInv, reportConnError, Cleared, NoTimer

\* A second that passes hides it when it is due.
LEMMA TickKeeps == BannerInv /\ Tick => BannerInv'
<1> SUFFICES ASSUME BannerInv, Tick PROVE BannerInv'
  OBVIOUS
<1> USE DEF BannerInv, Tick, NoTimer
<1>1. CASE quiet = 0
  <2>1. isDisconnected = TRUE /\ timer = 2 /\ intervals = {2} /\ 1 \notin intervals
    BY <1>1
  <2>2. {s - 1 : s \in intervals \ {1}} = {1}
    BY <2>1
  <2>3. intervals' = {1} /\ timer' = 1 /\ quiet' = 1
    BY <1>1, <2>1, <2>2
  <2>4. isDisconnected' = TRUE
    BY <2>1
  <2> QED
    BY <2>3, <2>4
<1>2. CASE quiet = 1
  <2>1. timer = 1 /\ intervals = {1} /\ 1 \in intervals
    BY <1>2
  <2>2. {s - 1 : s \in intervals \ {1}} = {}
    BY <2>1
  <2>3. intervals' = {} /\ timer' = NoTimer /\ quiet' = 2
    BY <1>2, <2>1, <2>2
  <2>4. isDisconnected' = FALSE
    BY <2>1
  <2> QED
    BY <2>3, <2>4
<1> QED
  BY <1>1, <1>2

\* So it is in every state.
LEMMA BannerInvariant == Spec => []BannerInv
<1>1. Init => BannerInv
  BY DEF Init, BannerInit, BannerInv, NoTimer
<1>2. BannerInv /\ [Next]_vars => BannerInv'
  <2> SUFFICES ASSUME BannerInv, [Next]_vars PROVE BannerInv'
    OBVIOUS
  <2>1. CASE UNCHANGED bannerVars
    BY <2>1 DEF BannerInv, bannerVars
  <2> QED
    BY <2>1, BannerSteps, ReportKeeps, TickKeeps
<1> QED
  BY <1>1, <1>2, PTL DEF Spec

\* The banner is shown for two seconds after the last error, however many
\* come and whatever else happens (disconnected.jsx:11-24).
THEOREM BannerCorrect == Spec => []BannerShown
<1>1. BannerInv => BannerShown
  BY DEF BannerInv, BannerShown, BannerRight, Visible
<1> QED
  BY <1>1, BannerInvariant, PTL

-----------------------------------------------------------------------------
\* The server has all its fields, and each of its probes is right.
ServerRight(s) ==
  /\ s = [probes |-> s.probes, config |-> s.config, history |-> s.history,
          nextHistoryID |-> s.nextHistoryID, enqueued |-> s.enqueued,
          leaks |-> s.leaks]
  /\ s.probes = [p \in ProbePages |-> s.probes[p]]
  /\ \A p \in ProbePages : ProbeRight(s.probes[p])

\* What a probe is told, in a request under way, is an integer.
MessageRight(m) ==
  /\ m = [page |-> m.page, op |-> m.op, arg |-> m.arg, mounted |-> m.mounted,
          stage |-> m.stage, body |-> m.body]
  /\ m.op = "put" => m.page = "keygen" \/ (m.page \in ProbePages /\ m.arg \in Int)

NetRight ==
  /\ net = [k \in Conns |-> net[k]]
  /\ \A k \in Conns : net[k] # None => MessageRight(net[k])

ProbeInv == ServerRight(server) /\ NetRight

\* A container starts with right probes.
LEMMA NewAppRight == ServerRight(NewApp)
  BY NewRight DEF ServerRight, NewApp

\* Every write of the server keeps its probes right.
LEMMA WritesRight ==
  ASSUME NEW s, ServerRight(s)
  PROVE  /\ \A p \in ProbePages, n \in Int : ServerRight(LoadConfig(s, p, n))
         /\ \A c : ServerRight(LoadConfig(s, "keygen", c))
         /\ \A l : ServerRight(APIAlloc(s, l))
         /\ ServerRight(APIClear(s))
         /\ \A p \in ProbePages : ServerRight(Probed(s, p))
         /\ ServerRight(WorkloadOutput(s))
         /\ \A q : ServerRight(Enqueued(s, q))
<1>1. ASSUME NEW p \in ProbePages, NEW n \in Int
      PROVE  ServerRight(LoadConfig(s, p, n))
  <2>1. p # "keygen" /\ ProbeRight(SetConfig(s.probes[p], n))
    BY SetConfigRight DEF ServerRight, ProbePages
  <2> QED
    BY <2>1 DEF ServerRight, LoadConfig
<1>2. ASSUME NEW p \in ProbePages
      PROVE  ServerRight(Probed(s, p))
  <2>1. ProbeRight(Handle(s.probes[p]))
    BY HandleRight DEF ServerRight
  <2> QED
    BY <2>1 DEF ServerRight, Probed
<1>3. ASSUME NEW c PROVE ServerRight(LoadConfig(s, "keygen", c))
  BY DEF ServerRight, LoadConfig
<1>4. /\ \A l : ServerRight(APIAlloc(s, l))
      /\ ServerRight(APIClear(s))
      /\ ServerRight(WorkloadOutput(s))
  <2>1. \A l : ServerRight(APIAlloc(s, l))
    BY DEF ServerRight, APIAlloc
  <2>2. ServerRight(APIClear(s))
    BY DEF ServerRight, APIClear
  <2>3. ServerRight(WorkloadOutput(s))
    <3> DEFINE lines == Trimmed(Append(s.history, s.nextHistoryID))
               next == s.nextHistoryID + 1
    <3>1. WorkloadOutput(s) = [s EXCEPT !.nextHistoryID = next, !.history = lines]
      BY DEF WorkloadOutput
    <3> HIDE DEF lines, next
    <3> QED
      BY <3>1 DEF ServerRight
  <2> QED
    BY <2>1, <2>2, <2>3
<1>5. ASSUME NEW q PROVE ServerRight(Enqueued(s, q))
  BY DEF ServerRight, Enqueued
<1> QED
  BY <1>1, <1>2, <1>3, <1>4, <1>5

\* A request enters a free connection as it should be.
LEMMA SentRight ==
  ASSUME NEW r, NEW m,
         r.op = "put" => r.page = "keygen" \/ (r.page \in ProbePages /\ r.arg \in Int)
  PROVE  MessageRight(Sent(r, m))
  BY DEF MessageRight, Sent

\* A request that is sent keeps those under way right.
LEMMA FetchRight ==
  ASSUME NetRight, NEW r, NEW m, NEW k \in Conns,
         r.op = "put" => r.page = "keygen" \/ (r.page \in ProbePages /\ r.arg \in Int),
         net' = [net EXCEPT ![k] = Sent(r, m)]
  PROVE  NetRight'
  BY SentRight DEF NetRight

\* What the user does changes no probe but by a request.
LEMMA UserKeeps == ASSUME ProbeInv, User PROVE ProbeInv'
<1>1. UNCHANGED server
  BY DEF User, handleNavigation, configure, AllocOrClear, KeyGenSubmit,
         KeyGenChange, DnsSubmit, Click, fetch, serverVars
<1>2. NetRight'
  <2>1. ASSUME NEW page \in tour, handleNavigation(page) PROVE NetRight'
    <3> DEFINE left == [k \in Conns |-> Orphan(net[k])]
    <3>1. \A k \in Conns : left[k] # None => MessageRight(left[k])
      <4>1. ASSUME NEW m, MessageRight(m) PROVE MessageRight(Orphan(m))
        BY <4>1 DEF Orphan, MessageRight
      <4>2. ASSUME NEW k \in Conns, left[k] # None PROVE net[k] # None
        BY <4>2 DEF Orphan
      <4> QED
        BY <4>1, <4>2 DEF ProbeInv, NetRight
    <3>2. MessageRight(Sent(FirstLoad(page), TRUE))
      BY SentRight DEF FirstLoad, Get
    <3>3. \/ net' = left
          \/ \E k \in Conns : net' = [left EXCEPT ![k] = Sent(FirstLoad(page), TRUE)]
      BY <2>1 DEF handleNavigation
    <3> QED
      BY <3>1, <3>2, <3>3 DEF NetRight
  <2>2. ASSUME NEW r, fetch(r),
               r.op = "put" => r.page = "keygen" \/ (r.page \in ProbePages /\ r.arg \in Int)
        PROVE  NetRight'
    BY <2>2, FetchRight DEF fetch, ProbeInv
  <2>3. CASE configure
    BY <2>2, <2>3, ClientAssumption DEF configure, Click
  <2>4. CASE AllocOrClear \/ KeyGenSubmit \/ DnsSubmit
    BY <2>2, <2>4 DEF AllocOrClear, KeyGenSubmit, DnsSubmit, Click
  <2>5. CASE KeyGenChange
    BY <2>5 DEF KeyGenChange, ProbeInv, NetRight
  <2> QED
    BY <2>1, <2>3, <2>4, <2>5 DEF User
<1> QED
  BY <1>1, <1>2 DEF ProbeInv

\* The handlers of the server and the callbacks of a promise keep them.
LEMMA RequestKeeps ==
  ASSUME ProbeInv, NEW k \in Conns, Begin(k) \/ Write(k) \/ Answer(k) \/ Lose(k) \/ Settle(k)
  PROVE  ProbeInv'
<1>1. CASE Write(k)
  <2>1. MessageRight(net[k])
    BY <1>1 DEF Write, ProbeInv, NetRight
  <2>2. ServerRight(server')
    BY <1>1, <2>1, WritesRight DEF Write, Writes, ProbeInv, MessageRight
  <2>3. NetRight'
    BY <1>1, <2>1 DEF Write, ProbeInv, NetRight, MessageRight
  <2> QED
    BY <2>2, <2>3 DEF ProbeInv
<1>5. CASE Begin(k)
  <2>1. MessageRight(net[k])
    BY <1>5 DEF Begin, ProbeInv, NetRight
  <2>2. net' = [net EXCEPT ![k].stage = "begun", ![k].body = server.leaks]
    BY <1>5 DEF Begin
  <2>3. NetRight'
    BY <2>1, <2>2 DEF ProbeInv, NetRight, MessageRight
  <2> QED
    BY <1>5, <2>3 DEF Begin, ProbeInv, serverVars
<1>2. CASE Answer(k)
  <2>1. MessageRight(net[k])
    BY <1>2 DEF Answer, ProbeInv, NetRight
  <2>2. PICK body : net' = [net EXCEPT ![k].stage = "answered", ![k].body = body]
    BY <1>2 DEF Answer
  <2>3. NetRight'
    BY <2>1, <2>2 DEF ProbeInv, NetRight, MessageRight
  <2> QED
    BY <1>2, <2>3 DEF Answer, ProbeInv, serverVars
<1>3. CASE Lose(k)
  <2>1. MessageRight(net[k])
    BY <1>3 DEF Lose, ProbeInv, NetRight
  <2>2. NetRight'
    BY <1>3, <2>1 DEF Lose, ProbeInv, NetRight, MessageRight
  <2> QED
    BY <1>3, <2>2 DEF Lose, ProbeInv, serverVars
<1>4. CASE Settle(k)
  BY <1>4 DEF Settle, Deliver, Reject, ProbeInv, NetRight, serverVars
<1> QED
  BY <1>1, <1>2, <1>3, <1>4, <1>5

\* So do intervals, restarts, the kubelet and other users.
LEMMA OthersKeep ==
  ASSUME ProbeInv, loadState \/ Second \/ Restart \/ Meanwhile
  PROVE  ProbeInv'
<1>1. CASE loadState
  <2>1. PICK t \in timers, k \in Conns :
          net' = [net EXCEPT ![k] = Sent(Get(t.page, "load"), t.mounted)]
    BY <1>1 DEF loadState
  <2>2. NetRight'
    BY <2>1, FetchRight DEF ProbeInv, Get
  <2> QED
    BY <1>1, <2>2 DEF loadState, ProbeInv, serverVars
<1>2. CASE Second
  BY <1>2 DEF Second, ProbeInv, NetRight, serverVars
<1>3. CASE Restart
  <2>1. NetRight'
    BY <1>3 DEF Restart, ProbeInv, NetRight, MessageRight
  <2> QED
    BY <1>3, <2>1, NewAppRight DEF Restart, ProbeInv
<1>4. CASE Meanwhile
  BY <1>4, WritesRight DEF Meanwhile, ProbeInv, NetRight
<1> QED
  BY <1>1, <1>2, <1>3, <1>4

\* The probes are right in every state.
LEMMA ProbeInvariant == Spec => []ProbeInv
<1>1. Init => ProbeInv
  <2> SUFFICES ASSUME Init PROVE ProbeInv
    OBVIOUS
  <2>1. MessageRight(Sent(FirstLoad(path), TRUE))
    BY SentRight DEF FirstLoad, Get
  <2> QED
    BY <2>1, NewAppRight DEF Init, ProbeInv, NetRight
<1>2. ProbeInv /\ [Next]_vars => ProbeInv'
  <2> SUFFICES ASSUME ProbeInv, [Next]_vars PROVE ProbeInv'
    OBVIOUS
  <2>1. CASE UNCHANGED vars
    BY <2>1 DEF vars, serverVars, ProbeInv, NetRight
  <2> QED
    BY <2>1, UserKeeps, RequestKeeps, OthersKeep DEF Next
<1> QED
  BY <1>1, <1>2, PTL DEF Spec

\* A probe told to fail N times fails the next N times and no more, told a
\* negative number it fails for ever, and told 0 never (debugprobe/config.go:10).
THEOREM ProbesCorrect == Spec => []ProbesAsAsked
<1>1. ProbeInv => ProbesAsAsked
  BY DEF ProbeInv, ServerRight, ProbeRight, ProbesAsAsked
<1> QED
  BY <1>1, ProbeInvariant, PTL

\* A probe's history is its last calls, up to maxHistory, none missing.
THEOREM HistoriesCorrect == Spec => []HistoriesComplete
<1>1. ProbeInv => HistoriesComplete
  BY DEF ProbeInv, ServerRight, ProbeRight, HistoriesComplete
<1> QED
  BY <1>1, ProbeInvariant, PTL

-----------------------------------------------------------------------------
\* The pages.  Each component keeps the fields of its constructor.
HasFields(page, v) ==
  /\ page \in ProbePages => v = [failNext |-> v.failNext, history |-> v.history]
  /\ page = "keygen" => v = [config |-> v.config, history |-> v.history]
  /\ page = "memq" => v = [stats |-> v.stats]
  /\ page = "mem" => v = [memStats |-> v.memStats]
  /\ page = "env" => v = [commandLine |-> v.commandLine]
  /\ page = "dns" => v = [query |-> v.query, response |-> v.response]
  /\ page = "request" => v = [page |-> v.page]

\* Each operation belongs to some of the pages.
OfPage(m) ==
  /\ m.op \in {"load", "initial", "put", "alloc", "clear", "query"}
  /\ m.op = "load" => m.page \in Polled \cup {"env"}
  /\ m.op = "initial" => m.page = "keygen"
  /\ m.op = "put" => m.page \in ProbePages \cup {"keygen"}
  /\ m.op \in {"alloc", "clear"} => m.page = "mem"
  /\ m.op = "query" => m.page = "dns"

\* Whether the answer is what GET of the page serves.
Serves(m) == m.op \in {"load", "initial", "put"}

\* What such an answer holds, and what it makes a page show.
Holds(m) ==
  m.stage = "answered" /\ Serves(m) /\ m.page # "memq" => HasFields(m.page, m.body)

Brings(m) ==
  CASE m.page \in ProbePages -> ShownProbe(m.body)
    [] m.page = "keygen" -> Reverse(m.body.history)
    [] m.page = "memq" -> SetToSortSeq(Range(m.body), byName)
    [] m.page = "mem" -> m.body.memStats

\* Only requests of the page shown are mounted, and what they bring the
\* server had since it was opened.
Message(m) ==
  /\ OfPage(m) /\ Holds(m)
  /\ m.stage \in {"sent", "begun", "written", "answered", "failed"}
  /\ m.mounted => m.page = path
  /\ m.mounted /\ m.stage = "answered" /\ Serves(m) /\ m.page \in Polled
     => Brings(m) \in since

Messages == \A k \in Conns : net[k] # None => Message(net[k])

\* So are only the intervals of the page shown.
Shape ==
  /\ tour \in Tours /\ path \in tour
  /\ HasFields(path, view)
  /\ timers \subseteq [page : Polled, mounted : BOOLEAN]
  /\ \A t \in timers : t.mounted => t.page = path

\* What is typed stays until no answer under way may overwrite it.
Form == typed # None => path = "keygen" /\ ~FormPending /\ view.config = typed

\* What the page shows, and what it would show of the server now.
Seen == FromThisVisit /\ (path \in Polled => Truth(server, path) \in since)

Finite == IsFiniteSet(DOMAIN server.enqueued)

PageInv == Shape /\ Messages /\ Form /\ Seen /\ Finite

\* Every page is one of those with a component.
LEMMA PathIsPage == ASSUME Shape PROVE path \in Pages
  BY ClientAssumption DEF Shape

\* The list of the queues that the server answers with.
List(e) == {[name |-> q, depth |-> e[q]] : q \in DOMAIN e}

\* What the definitions by page say of each.
LEMMA BlankOf ==
  ASSUME NEW page
  PROVE  /\ page \in ProbePages => Blank(page) = [failNext |-> 0, history |-> <<>>]
         /\ page = "keygen" => Blank(page) = [config |-> Off, history |-> <<>>]
         /\ page = "memq" => Blank(page) = [stats |-> <<>>]
         /\ page = "mem" => Blank(page) = [memStats |-> 0]
         /\ page = "env" => Blank(page) = [commandLine |-> ""]
         /\ page = "dns" => Blank(page) = [query |-> None, response |-> None]
         /\ page = "request" => Blank(page) = [page |-> "pageContext"]
<1>1. page \in ProbePages => Blank(page) = [failNext |-> 0, history |-> <<>>]
  BY DEF Blank, ProbePages, BlankProbe
<1>2. page = "keygen" => Blank(page) = [config |-> Off, history |-> <<>>]
  BY DEF Blank, ProbePages, BlankKeyGen
<1>3. page = "memq" => Blank(page) = [stats |-> <<>>]
  BY DEF Blank, ProbePages, BlankMemQ
<1>4. page = "mem" => Blank(page) = [memStats |-> 0]
  BY DEF Blank, ProbePages, BlankMem
<1>5. page = "env" => Blank(page) = [commandLine |-> ""]
  BY DEF Blank, ProbePages, BlankEnv
<1>6. page = "dns" => Blank(page) = [query |-> None, response |-> None]
  BY DEF Blank, ProbePages, BlankDns
<1>7. page = "request" => Blank(page) = [page |-> "pageContext"]
  BY DEF Blank, ProbePages
<1> QED
  BY <1>1, <1>2, <1>3, <1>4, <1>5, <1>6, <1>7, Zenon

LEMMA ShowsOf ==
  ASSUME NEW page, NEW v
  PROVE  /\ page \in ProbePages => Shows(page, v) = ShownProbe(v)
         /\ page = "keygen" => Shows(page, v) = Reverse(v.history)
         /\ page = "memq" => Shows(page, v) = v.stats
         /\ page = "mem" => Shows(page, v) = v.memStats
  BY DEF Shows, ProbePages, ShownKeyGen, ShownMemQ, ShownMem

LEMMA TruthOf ==
  ASSUME NEW s, NEW page
  PROVE  /\ page \in ProbePages =>
              Truth(s, page) = <<Behaves(s.probes[page]), Reverse(s.probes[page].history)>>
         /\ page = "keygen" => Truth(s, page) = Reverse(s.history)
         /\ page = "memq" => Truth(s, page) = Alphabetic(List(s.enqueued))
         /\ page = "mem" => Truth(s, page) = s.leaks
  BY DEF Truth, ProbePages, List

LEMMA ServesOf ==
  ASSUME NEW s, NEW page
  PROVE  /\ page \in ProbePages => ServeJSON(s, page) = {lockedGet(s.probes[page])}
         /\ page = "keygen" =>
              ServeJSON(s, page) = {[config |-> s.config, history |-> s.history]}
         /\ page = "memq" => ServeJSON(s, page) = SetToSeqs(List(s.enqueued))
         /\ page = "mem" => ServeJSON(s, page) = {[memStats |-> s.leaks]}
         /\ page = "env" => ServeJSON(s, page) = {[commandLine |-> "kuard"]}
  BY DEF ServeJSON, ProbePages, List

LEMMA BringsOf ==
  ASSUME NEW m
  PROVE  /\ m.page \in ProbePages => Brings(m) = ShownProbe(m.body)
         /\ m.page = "keygen" => Brings(m) = Reverse(m.body.history)
         /\ m.page = "memq" => Brings(m) = SetToSortSeq(Range(m.body), byName)
         /\ m.page = "mem" => Brings(m) = m.body.memStats
  BY DEF Brings, ProbePages

LEMMA LoadedOf ==
  ASSUME NEW m
  PROVE  /\ m.page \in ProbePages => Loaded(m) = m.body
         /\ m.page = "keygen" =>
              Loaded(m) = IF Initial(m) THEN m.body
                          ELSE [view EXCEPT !.history = m.body.history]
         /\ m.page = "memq" => Loaded(m) = [stats |-> SetToSortSeq(Range(m.body), byName)]
         /\ m.page = "mem" => Loaded(m) = IF m.op = "load" THEN m.body ELSE view
         /\ m.page = "env" => Loaded(m) = m.body
         /\ m.page = "dns" => Loaded(m) = [view EXCEPT !.response = m.body]
<1> USE DEF Loaded, ProbePages
<1>1. m.page \in ProbePages => Loaded(m) = m.body
  BY DEF ProbeLoaded
<1>2. m.page = "keygen" =>
        Loaded(m) = IF Initial(m) THEN m.body ELSE [view EXCEPT !.history = m.body.history]
  BY DEF KeyGenLoaded
<1>3. m.page = "memq" => Loaded(m) = [stats |-> SetToSortSeq(Range(m.body), byName)]
  BY DEF MemQLoaded
<1>4. m.page = "mem" => Loaded(m) = IF m.op = "load" THEN m.body ELSE view
  BY DEF MemLoaded
<1>5. m.page = "env" => Loaded(m) = m.body
  BY DEF EnvLoaded
<1>6. m.page = "dns" => Loaded(m) = [view EXCEPT !.response = m.body]
  BY DEF DnsAnswered
<1> QED
  BY <1>1, <1>2, <1>3, <1>4, <1>5, <1>6

\* The fields of a component are those its constructor sets.
LEMMA BlankFields ==
  ASSUME NEW page \in Pages
  PROVE  /\ HasFields(page, Blank(page))
         /\ \A v : HasFields(page, v) => DOMAIN v = DOMAIN Blank(page)
<1>1. CASE page \in ProbePages
  <2>1. Blank(page) = [failNext |-> 0, history |-> <<>>]
    BY <1>1, BlankOf, Zenon
  <2> QED
    BY <1>1, <2>1 DEF HasFields, ProbePages
<1>2. CASE page = "keygen"
  <2>1. Blank(page) = [config |-> Off, history |-> <<>>]
    BY <1>2, BlankOf, Zenon
  <2> QED
    BY <1>2, <2>1 DEF HasFields, ProbePages
<1>3. CASE page = "memq"
  <2>1. Blank(page) = [stats |-> <<>>]
    BY <1>3, BlankOf, Zenon
  <2> QED
    BY <1>3, <2>1 DEF HasFields, ProbePages
<1>4. CASE page = "mem"
  <2>1. Blank(page) = [memStats |-> 0]
    BY <1>4, BlankOf, Zenon
  <2> QED
    BY <1>4, <2>1 DEF HasFields, ProbePages
<1>5. CASE page = "env"
  <2>1. PICK c : Blank(page) = [commandLine |-> c]
    BY <1>5, BlankOf, Zenon
  <2> QED
    BY <1>5, <2>1 DEF HasFields, ProbePages
<1>6. CASE page = "dns"
  <2>1. Blank(page) = [query |-> None, response |-> None]
    BY <1>6, BlankOf, Zenon
  <2> QED
    BY <1>6, <2>1 DEF HasFields, ProbePages
<1>7. CASE page = "request"
  <2>1. PICK c : Blank(page) = [page |-> c]
    BY <1>7, BlankOf, Zenon
  <2> QED
    BY <1>7, <2>1 DEF HasFields, ProbePages
<1> QED
  BY <1>1, <1>2, <1>3, <1>4, <1>5, <1>6, <1>7 DEF Pages

\* A sequence of the elements of a finite set, each once, has them all.
LEMMA AllInSequence ==
  ASSUME NEW S, IsFiniteSet(S), NEW f \in SetToSeqs(S) PROVE Range(f) = S
<1> DEFINE D == 1 .. Cardinality(S)
<1>1. /\ Cardinality(S) \in Nat
      /\ IsFiniteSet(D) /\ Cardinality(D) = Cardinality(S)
  BY FS_CardinalityType, FS_Interval
<1>2. f \in Injection(D, S)
  BY DEF SetToSeqs, Injection, IsInjective
<1>3. f \in Surjection(D, S)
  BY <1>1, <1>2, FS_Injection
<1> QED
  BY <1>2, <1>3 DEF Range, Surjection, Injection

\* A list of finitely many queues is finite.
LEMMA FiniteList ==
  ASSUME NEW e, IsFiniteSet(DOMAIN e)
  PROVE  IsFiniteSet(List(e))
<1> DEFINE f == [q \in DOMAIN e |-> [name |-> q, depth |-> e[q]]]
<1>1. f \in Surjection(DOMAIN e, List(e))
  BY DEF Surjection, List
<1> QED
  BY <1>1, FS_Surjection

\* What the server answers is what the page should show.
LEMMA AnswerShows ==
  ASSUME ServerRight(server), Finite, NEW page \in Polled \cup {"env"},
         NEW body \in ServeJSON(server, page)
  PROVE  /\ page # "memq" => HasFields(page, body)
         /\ page \in ProbePages => ShownProbe(body) = Truth(server, page)
         /\ page = "keygen" => Reverse(body.history) = Truth(server, page)
         /\ page = "memq" => SetToSortSeq(Range(body), byName) = Truth(server, page)
         /\ page = "mem" => body.memStats = Truth(server, page)
<1>1. CASE page \in ProbePages
  <2> DEFINE p == server.probes[page]
  <2>1. /\ p.failNext \in Int /\ p.asked \in Int /\ p.failed \in Nat
        /\ FailsAsAsked(p)
    BY <1>1 DEF ServerRight, ProbeRight, Probes
  <2>2. body = [failNext |-> p.failNext, history |-> Reverse(p.history)]
    <3>1. body = lockedGet(p)
      BY <1>1, ServesOf
    <3> QED
      BY <3>1 DEF lockedGet
  <2>3. /\ body.failNext = p.failNext /\ body.history = Reverse(p.history)
        /\ HasFields(page, body)
    BY <1>1, <2>2 DEF HasFields, ProbePages
  <2>4. Truth(server, page) = <<Behaves(p), Reverse(p.history)>>
    BY <1>1, TruthOf
  <2>5. ShownProbe(body) = <<Behaves(p), Reverse(p.history)>>
    <3> DEFINE n == body.failNext
               desc == CASE n = 0 -> "permanently succeed"
                         [] n > 0 -> "fail for next calls"
                         [] n < 0 -> "permanently fail"
    <3>1. desc = Behaves(p)
      <4>1. CASE n = 0
        <5>1. ~(n > 0) /\ ~(n < 0) /\ status(p) = 200
          BY <2>3, <4>1 DEF status
        <5> QED
          BY <4>1, <5>1, Zenon DEF Behaves
      <4>2. CASE n > 0
        <5>1. ~(n = 0) /\ ~(n < 0) /\ p.asked > 0 /\ status(p) # 200
          BY <2>1, <2>3, <4>2 DEF FailsAsAsked, status
        <5> QED
          BY <4>2, <5>1, Zenon DEF Behaves
      <4>3. CASE n < 0
        <5>1. ~(n = 0) /\ ~(n > 0) /\ ~(p.asked > 0) /\ status(p) # 200
          BY <2>1, <2>3, <4>3 DEF FailsAsAsked, status
        <5> QED
          BY <4>3, <5>1, Zenon DEF Behaves
      <4>4. n = 0 \/ n > 0 \/ n < 0
        BY <2>1, <2>3
      <4> QED
        BY <4>1, <4>2, <4>3, <4>4, Zenon
    <3>2. ShownProbe(body) = <<desc, Reverse(p.history)>>
      BY <2>3 DEF ShownProbe
    <3> QED
      BY <3>1, <3>2, Zenon
  <2> QED
    BY <1>1, <2>3, <2>4, <2>5 DEF ProbePages
<1>2. CASE page = "memq"
  <2> DEFINE S == List(server.enqueued)
  <2>1. body \in SetToSeqs(S) /\ Truth(server, page) = Alphabetic(S)
    BY <1>2, ServesOf, TruthOf
  <2>2. Range(body) = S
    BY <2>1, AllInSequence, FiniteList DEF Finite
  <2> HIDE DEF S
  <2>3. SetToSortSeq(Range(body), byName) = Alphabetic(S)
    BY <2>2, Zenon DEF byName, SetToSortSeq, Alphabetic
  <2> QED
    BY <1>2, <2>1, <2>3 DEF ProbePages
<1>3. CASE page \in {"keygen", "mem", "env"}
  BY <1>3, ServesOf, TruthOf DEF HasFields, ProbePages
<1> QED
  BY <1>1, <1>2, <1>3 DEF Polled

\* The callback of a promise shows what its answer brings.
LEMMA DeliveryShows ==
  ASSUME HasFields(path, view), NEW m, OfPage(m), Holds(m), m.stage = "answered",
         m.page = path
  PROVE  /\ HasFields(path, Loaded(m))
         /\ path \in Polled =>
              \/ Serves(m) /\ Shows(path, Loaded(m)) = Brings(m)
              \/ Loaded(m) = view
         /\ path = "keygen" /\ ~Initial(m) => Loaded(m).config = view.config
<1>1. CASE path \in ProbePages
  <2>1. Serves(m) /\ Loaded(m) = m.body
    BY <1>1, LoadedOf DEF OfPage, Serves, ProbePages
  <2>2. HasFields(path, m.body)
    BY <1>1, <2>1 DEF Holds, ProbePages
  <2>3. Shows(path, m.body) = Brings(m)
    BY <1>1, ShowsOf, BringsOf, Zenon
  <2> QED
    BY <1>1, <2>1, <2>2, <2>3 DEF ProbePages
<1>2. CASE path = "keygen"
  <2>1. Serves(m) /\ HasFields(path, m.body)
    BY <1>2 DEF OfPage, Serves, Holds, ProbePages
  <2>2. Loaded(m) = IF Initial(m) THEN m.body ELSE [view EXCEPT !.history = m.body.history]
    BY <1>2, LoadedOf
  <2>3. /\ HasFields(path, Loaded(m)) /\ Loaded(m).history = m.body.history
        /\ ~Initial(m) => Loaded(m).config = view.config
    BY <1>2, <2>1, <2>2 DEF HasFields, ProbePages
  <2>4. Shows(path, Loaded(m)) = Reverse(Loaded(m).history) /\ Brings(m) = Reverse(m.body.history)
    BY <1>2, ShowsOf, BringsOf, Zenon
  <2> QED
    BY <2>1, <2>3, <2>4
<1>3. CASE path = "memq"
  <2>1. Loaded(m) = [stats |-> SetToSortSeq(Range(m.body), byName)]
    BY <1>3, LoadedOf, Zenon
  <2>2. Serves(m)
    BY <1>3 DEF OfPage, Serves, ProbePages
  <2>3. Shows(path, Loaded(m)) = Loaded(m).stats /\ Brings(m) = SetToSortSeq(Range(m.body), byName)
    BY <1>3, ShowsOf, BringsOf, Zenon
  <2> QED
    BY <1>3, <2>1, <2>2, <2>3 DEF HasFields, ProbePages
<1>4. CASE path = "mem"
  <2>1. m.op = "load" => Serves(m)
    BY DEF Serves
  <2>2. Loaded(m) = IF m.op = "load" THEN m.body ELSE view
    BY <1>4, LoadedOf
  <2>3. m.op = "load" => HasFields(path, m.body)
    BY <1>4, <2>1 DEF Holds
  <2>4. Shows(path, m.body) = Brings(m)
    BY <1>4, ShowsOf, BringsOf, Zenon
  <2> QED
    BY <1>4, <2>1, <2>2, <2>3, <2>4
<1>5. CASE path = "env"
  <2>1. Serves(m) /\ Loaded(m) = m.body
    BY <1>5, LoadedOf DEF OfPage, Serves, ProbePages
  <2> QED
    BY <1>5, <2>1 DEF Holds, Polled, ProbePages
<1>6. CASE path = "dns"
  <2>1. Loaded(m) = [view EXCEPT !.response = m.body]
    BY <1>6, LoadedOf
  <2> QED
    BY <1>6, <2>1 DEF HasFields, Polled, ProbePages
<1> QED
  BY <1>1, <1>2, <1>3, <1>4, <1>5, <1>6 DEF OfPage, Polled, ProbePages

\* Each connection carries what it did, a regular load, or the same request
\* further on its way.
LEMMA EachChanges ==
  ASSUME PageInv, path' = path, path \in Polled => since \subseteq since',
         \A j \in Conns : net'[j] # None /\ net'[j] # net[j] =>
           /\ Message(net[j])'
           /\ \/ net'[j].op = "load"
              \/ /\ net[j] # None /\ net'[j].mounted = net[j].mounted
                 /\ net'[j].page = net[j].page /\ net'[j].op = net[j].op
  PROVE  Messages' /\ (FormPending' => FormPending)
<1>1. ASSUME NEW j \in Conns, net'[j] # None PROVE Message(net[j])'
  <2>1. CASE net'[j] # net[j]
    BY <1>1, <2>1
  <2>2. CASE net'[j] = net[j]
    BY <1>1, <2>2 DEF PageInv, Messages, Message
  <2> QED
    BY <2>1, <2>2
<1>2. FormPending' => FormPending
  BY DEF FormPending, Initial
<1> QED
  BY <1>1, <1>2 DEF Messages

\* A step that leaves the page alone.
LEMMA PageStays ==
  ASSUME PageInv, UNCHANGED pageVars, Finite',
         path \in Polled => since \subseteq since' /\ Truth(server, path)' \in since',
         Messages', FormPending' => FormPending
  PROVE  PageInv'
<1> USE DEF pageVars
<1>1. Shape'
  BY DEF PageInv, Shape
<1>2. Form'
  BY DEF PageInv, Form
<1>3. Seen'
  BY DEF PageInv, Seen, FromThisVisit
<1> QED
  BY <1>1, <1>2, <1>3 DEF PageInv

\* A request as it is sent.
LEMMA SentMessage ==
  ASSUME NEW r, NEW m, OfPage(r)
  PROVE  LET s == Sent(r, m)
         IN  /\ OfPage(s) /\ Holds(s) /\ s.stage = "sent"
             /\ s.mounted = m /\ s.page = r.page /\ s.op = r.op
  BY DEF Sent, OfPage, Holds

\* The queues stay finitely many.
LEMMA StillFinite ==
  ASSUME ServerRight(server), Finite
  PROVE  /\ \A p, c : IsFiniteSet(DOMAIN LoadConfig(server, p, c).enqueued)
         /\ \A l : IsFiniteSet(DOMAIN APIAlloc(server, l).enqueued)
         /\ IsFiniteSet(DOMAIN APIClear(server).enqueued)
         /\ \A p : IsFiniteSet(DOMAIN Probed(server, p).enqueued)
         /\ IsFiniteSet(DOMAIN WorkloadOutput(server).enqueued)
         /\ \A q : IsFiniteSet(DOMAIN Enqueued(server, q).enqueued)
         /\ IsFiniteSet(DOMAIN NewApp.enqueued)
<1>1. \A p, c : LoadConfig(server, p, c).enqueued = server.enqueued
  BY DEF ServerRight, LoadConfig
<1>2. \A l : APIAlloc(server, l).enqueued = server.enqueued
  BY DEF ServerRight, APIAlloc
<1>3. APIClear(server).enqueued = server.enqueued
  BY DEF ServerRight, APIClear
<1>4. \A p : Probed(server, p).enqueued = server.enqueued
  BY DEF ServerRight, Probed
<1>5. WorkloadOutput(server).enqueued = server.enqueued
  BY DEF ServerRight, WorkloadOutput
<1>6. ASSUME NEW q PROVE IsFiniteSet(DOMAIN Enqueued(server, q).enqueued)
  <2>1. DOMAIN Enqueued(server, q).enqueued = DOMAIN server.enqueued \cup {q}
    BY DEF ServerRight, Enqueued
  <2> QED
    BY <2>1, FS_AddElement DEF Finite
<1>7. DOMAIN NewApp.enqueued = {}
  BY DEF NewApp
<1> QED
  BY <1>1, <1>2, <1>3, <1>4, <1>5, <1>6, <1>7, FS_EmptySet DEF Finite

\* The user opens another page.
LEMMA NavigationKeeps ==
  ASSUME PageInv, ProbeInv, NEW page \in tour, handleNavigation(page)
  PROVE  PageInv'
<1>1. /\ page \in Pages /\ path' = page /\ view' = Blank(page) /\ typed' = None
      /\ tour' = tour /\ server' = server
      /\ timers' = Unmounted \cup (IF page \in Polled THEN {[page |-> page, mounted |-> TRUE]} ELSE {})
      /\ since' = IF page \notin Polled THEN {}
                  ELSE (IF page = path THEN since ELSE {}) \cup {Truth(server', page)}
  BY ClientAssumption DEF handleNavigation, Mount, Watch, PageInv, Shape
<1>2. Shape'
  <2>1. HasFields(path', view')
    BY <1>1, BlankFields
  <2>2. timers' \subseteq [page : Polled, mounted : BOOLEAN]
    <3>1. Unmounted \subseteq [page : Polled, mounted : BOOLEAN]
      BY DEF PageInv, Shape, Unmounted
    <3>2. page \in Polled =>
            [page |-> page, mounted |-> TRUE] \in [page : Polled, mounted : BOOLEAN]
      OBVIOUS
    <3> DEFINE new == [page |-> page, mounted |-> TRUE]
    <3> HIDE DEF new
    <3>3. timers' = Unmounted \cup (IF page \in Polled THEN {new} ELSE {})
      BY <1>1 DEF new
    <3>4. page \in Polled => new \in [page : Polled, mounted : BOOLEAN]
      BY <3>2 DEF new
    <3> QED
      BY <3>1, <3>3, <3>4, Zenon
  <2>3. \A t \in timers' : t.mounted => t.page = page
    BY <1>1 DEF PageInv, Shape, Unmounted
  <2> QED
    BY <1>1, <2>1, <2>2, <2>3 DEF PageInv, Shape
<1>3. Messages'
  <2> DEFINE left == [k \in Conns |-> Orphan(net[k])]
  <2>1. \/ net' = left
        \/ /\ Loads(page)
           /\ \E k \in Conns : net' = [left EXCEPT ![k] = Sent(FirstLoad(page), TRUE)]
    BY DEF handleNavigation
  <2>2. ASSUME NEW k \in Conns, left[k] # None
        PROVE  /\ OfPage(left[k]) /\ Holds(left[k]) /\ left[k].mounted = FALSE
               /\ left[k].stage \in {"sent", "begun", "written", "answered", "failed"}
    <3>1. net[k] # None /\ left[k] = [net[k] EXCEPT !.mounted = FALSE]
      BY <2>2 DEF Orphan
    <3>2. MessageRight(net[k]) /\ Message(net[k])
      BY <3>1 DEF ProbeInv, NetRight, PageInv, Messages
    <3> QED
      BY <3>1, <3>2 DEF MessageRight, Message, OfPage, Holds, Serves
  <2>3. Loads(page) =>
          LET s == Sent(FirstLoad(page), TRUE)
          IN  OfPage(s) /\ Holds(s) /\ s.stage = "sent" /\ s.page = page
    <3>1. Loads(page) => OfPage(FirstLoad(page)) /\ FirstLoad(page).page = page
      BY <1>1 DEF Loads, FirstLoad, Get, OfPage, Pages, Polled
    <3> QED
      BY <3>1, SentMessage
  <2> HIDE DEF left
  <2>4. ASSUME NEW k \in Conns, net'[k] # None PROVE Message(net[k])'
    <3>1. CASE net'[k] = left[k]
      BY <2>2, <2>4, <3>1 DEF Message
    <3>2. CASE Loads(page) /\ net'[k] = Sent(FirstLoad(page), TRUE)
      BY <1>1, <2>3, <3>2 DEF Message
    <3> QED
      BY <2>1, <3>1, <3>2 DEF left
  <2> QED
    BY <2>4 DEF Messages
<1>4. Form' /\ Finite'
  BY <1>1 DEF PageInv, Form, Finite
<1>5. Seen'
  BY <1>1 DEF Seen, FromThisVisit
<1> QED
  BY <1>2, <1>3, <1>4, <1>5 DEF PageInv

\* A click sends a request of the page shown.
LEMMA FetchSends ==
  ASSUME PageInv, ProbeInv, NEW r, OfPage(r), r.page = path, fetch(r), path' = path, UNCHANGED since
  PROVE  Messages'
<1>1. PICK k \in Conns : net' = [net EXCEPT ![k] = Sent(r, TRUE)]
  BY DEF fetch
<1>2. LET s == Sent(r, TRUE)
      IN  /\ OfPage(s) /\ Holds(s) /\ s.stage = "sent" /\ s.page = path
  BY SentMessage
<1>3. ASSUME NEW j \in Conns, net'[j] # None PROVE Message(net[j])'
  <2>1. CASE net'[j] = net[j]
    BY <1>3, <2>1 DEF PageInv, Messages, Message
  <2>2. CASE net'[j] = Sent(r, TRUE)
    BY <1>2, <2>2 DEF Message
  <2> QED
    BY <1>1, <2>1, <2>2 DEF ProbeInv, NetRight
<1> QED
  BY <1>3 DEF Messages

\* What the user does.
LEMMA UserKeepsPage == ASSUME PageInv, ProbeInv, User PROVE PageInv'
<1>1. CASE \E page \in tour : handleNavigation(page)
  BY <1>1, NavigationKeeps
<1>2. ASSUME NEW page \in Pages, NEW r, Click(page, r), r.page = page, OfPage(r)
      PROVE  /\ UNCHANGED <<tour, path, timers, server, since>>
             /\ path = page /\ Messages' /\ Finite'
  BY <1>2, FetchSends DEF Click, serverVars, PageInv, Finite
<1>3. ASSUME NEW page \in Pages \ {"keygen"}, NEW r, Click(page, r), r.page = page,
             OfPage(r), UNCHANGED <<view, typed>>
      PROVE  PageInv'
  <2>1. typed = None
    BY <1>3, <1>2 DEF PageInv, Form
  <2> QED
    BY <1>2, <1>3, <2>1 DEF PageInv, Shape, Form, Seen, FromThisVisit
<1>4. CASE configure
  BY <1>3, <1>4 DEF configure, OfPage, ProbePages, Pages
<1>5. CASE AllocOrClear
  BY <1>3, <1>5 DEF AllocOrClear, OfPage, Pages
<1>6. CASE KeyGenSubmit
  <2>1. /\ UNCHANGED <<tour, path, timers, server, since, view>> /\ Messages' /\ Finite'
        /\ typed' = None
    BY <1>2, <1>6 DEF KeyGenSubmit, OfPage, Pages
  <2> QED
    BY <2>1 DEF PageInv, Shape, Form, Seen, FromThisVisit
<1>7. CASE KeyGenChange
  <2>1. PICK c : /\ view' = [view EXCEPT !.config = c]
                 /\ typed' = IF FormPending THEN None ELSE c
    BY <1>7 DEF KeyGenChange
  <2>2. path = "keygen" /\ UNCHANGED <<tour, path, timers, net, server, since>>
    BY <1>7 DEF KeyGenChange, serverVars
  <2>3. HasFields(path, view') /\ view'.config = c /\ view'.history = view.history
    BY <2>1, <2>2 DEF PageInv, Shape, HasFields, ProbePages
  <2>4. Shape' /\ Messages' /\ Finite'
    BY <2>2, <2>3 DEF PageInv, Shape, Messages, Message, Finite
  <2>5. Form'
    BY <2>1, <2>2, <2>3 DEF Form, FormPending
  <2>6. Seen'
    <3>1. Shows(path, view') = Shows(path, view)
      BY <2>2, <2>3, ShowsOf, Zenon
    <3> QED
      BY <2>2, <3>1 DEF PageInv, Seen, FromThisVisit
  <2> QED
    BY <2>4, <2>5, <2>6 DEF PageInv
<1>8. CASE DnsSubmit
  <2>1. PICK q : /\ Click("dns", [page |-> "dns", op |-> "query", arg |-> q])
                 /\ view' = [view EXCEPT !.query = q] /\ typed' = typed
    BY <1>8 DEF DnsSubmit
  <2>2. /\ UNCHANGED <<tour, path, timers, server, since>>
        /\ path = "dns" /\ Messages' /\ Finite'
    BY <1>2, <2>1 DEF OfPage, Pages
  <2>3. HasFields(path, view')
    BY <2>1, <2>2 DEF PageInv, Shape, HasFields, ProbePages
  <2> QED
    BY <2>1, <2>2, <2>3 DEF PageInv, Shape, Form, Seen, FromThisVisit, Polled, ProbePages
<1> QED
  BY <1>1, <1>4, <1>5, <1>6, <1>7, <1>8 DEF User

\* The interval of the page asks again.
LEMMA LoadKeepsPage == ASSUME PageInv, ProbeInv, loadState PROVE PageInv'
<1>1. PICK t \in timers, k \in Conns :
        net' = [net EXCEPT ![k] = Sent(Get(t.page, "load"), t.mounted)]
  BY DEF loadState
<1>2. UNCHANGED <<pageVars, server, since>>
  BY DEF loadState, serverVars
<1>3. LET s == Sent(Get(t.page, "load"), t.mounted)
      IN  /\ OfPage(s) /\ Holds(s) /\ s.stage = "sent" /\ s.op = "load"
          /\ s.mounted => s.page = path
  <2>1. t.page \in Polled /\ (t.mounted => t.page = path)
    BY DEF PageInv, Shape
  <2>2. OfPage(Get(t.page, "load")) /\ Get(t.page, "load").page = t.page
        /\ Get(t.page, "load").op = "load"
    BY <2>1 DEF Get, OfPage
  <2> QED
    BY <2>1, <2>2, SentMessage
<1>4. \A j \in Conns : net'[j] = net[j] \/ net'[j] = Sent(Get(t.page, "load"), t.mounted)
  BY <1>1 DEF ProbeInv, NetRight
<1>5. Messages' /\ (FormPending' => FormPending)
  <2>1. \A j \in Conns : net'[j] # None /\ net'[j] # net[j] =>
          Message(net[j])' /\ net'[j].op = "load"
    BY <1>2, <1>3, <1>4 DEF Message, pageVars
  <2> QED
    BY <1>2, <2>1, EachChanges DEF pageVars
<1> QED
  BY <1>2, <1>5, PageStays DEF PageInv, Finite, Seen, pageVars

\* A step that moves one request to another stage, short of its answer.
LEMMA StageMoves ==
  ASSUME PageInv, ProbeInv, NEW k \in Conns, net[k] # None, UNCHANGED pageVars,
         path \in Polled => since \subseteq since',
         NEW stage \in {"begun", "written", "failed"},
         \A j \in Conns : j # k => net'[j] = net[j],
         net'[k].op = net[k].op, net'[k].page = net[k].page,
         net'[k].mounted = net[k].mounted, net'[k].stage = stage
  PROVE  Messages' /\ (FormPending' => FormPending)
<1>1. Message(net[k])'
  BY DEF PageInv, Messages, Message, OfPage, Holds, pageVars
<1> QED
  BY <1>1, EachChanges DEF pageVars

\* What the ghost has seen, when the server changes.
LEMMA Watched ==
  ASSUME path' = path, Watch
  PROVE  path \in Polled => since \subseteq since' /\ Truth(server, path)' \in since'
  BY DEF Watch

\* A handler begins, or writes.
LEMMA HandlerKeepsPage ==
  ASSUME PageInv, ProbeInv, NEW k \in Conns, Begin(k) \/ Write(k)
  PROVE  PageInv'
<1>1. net[k] # None /\ MessageRight(net[k]) /\ UNCHANGED pageVars
  BY DEF Begin, Write, ProbeInv, NetRight
<1>2. CASE Begin(k)
  <2>1. /\ \A j \in Conns : j # k => net'[j] = net[j]
        /\ net'[k].op = net[k].op /\ net'[k].page = net[k].page
        /\ net'[k].mounted = net[k].mounted /\ net'[k].stage = "begun"
    BY <1>1, <1>2 DEF Begin, ProbeInv, NetRight, MessageRight
  <2>2. UNCHANGED <<server, since>>
    BY <1>2 DEF Begin, serverVars
  <2>3. Messages' /\ (FormPending' => FormPending)
    BY <1>1, <2>1, <2>2, StageMoves
  <2> QED
    BY <1>1, <2>2, <2>3, PageStays DEF PageInv, Finite, Seen, pageVars
<1>3. CASE Write(k)
  <2>1. /\ \A j \in Conns : j # k => net'[j] = net[j]
        /\ net'[k].op = net[k].op /\ net'[k].page = net[k].page
        /\ net'[k].mounted = net[k].mounted /\ net'[k].stage = "written"
    BY <1>1, <1>3 DEF Write, ProbeInv, NetRight, MessageRight
  <2>2. path \in Polled => since \subseteq since' /\ Truth(server, path)' \in since'
    BY <1>1, <1>3, Watched DEF Write, pageVars
  <2>3. Finite'
    BY <1>1, <1>3, StillFinite DEF Write, Writes, PageInv, ProbeInv, Finite
  <2>4. Messages' /\ (FormPending' => FormPending)
    BY <1>1, <2>1, <2>2, StageMoves
  <2> QED
    BY <1>1, <2>2, <2>3, <2>4, PageStays
<1> QED
  BY <1>2, <1>3

\* The server answers with what it has.
LEMMA AnswerKeepsPage ==
  ASSUME PageInv, ProbeInv, NEW k \in Conns, Answer(k)
  PROVE  PageInv'
<1>1. net[k] # None /\ MessageRight(net[k]) /\ Message(net[k])
  BY DEF Answer, ProbeInv, NetRight, PageInv, Messages
<1>2. PICK body \in Answers(net[k]) :
        net' = [net EXCEPT ![k].stage = "answered", ![k].body = body]
  BY DEF Answer
<1>3. UNCHANGED pageVars /\ UNCHANGED <<server, since>>
  BY DEF Answer, serverVars
<1>4. /\ \A j \in Conns : j # k => net'[j] = net[j]
      /\ net'[k].op = net[k].op /\ net'[k].page = net[k].page
      /\ net'[k].mounted = net[k].mounted /\ net'[k].stage = "answered"
      /\ net'[k].body = body
  BY <1>1, <1>2 DEF ProbeInv, NetRight, MessageRight
<1>5. ASSUME Serves(net[k])
      PROVE  /\ net[k].page # "memq" => HasFields(net[k].page, body)
             /\ net[k].page \in Polled => Brings(net[k])' = Truth(server, net[k].page)
  <2> DEFINE page == net[k].page
  <2>1. body \in ServeJSON(server, page)
    BY <1>5 DEF Answers, Serves
  <2>2. page \in Polled \cup {"env"}
    BY <1>1, <1>5 DEF Message, OfPage, Serves, Polled
  <2>3. /\ page # "memq" => HasFields(page, body)
        /\ page \in ProbePages => ShownProbe(body) = Truth(server, page)
        /\ page = "keygen" => Reverse(body.history) = Truth(server, page)
        /\ page = "memq" => SetToSortSeq(Range(body), byName) = Truth(server, page)
        /\ page = "mem" => body.memStats = Truth(server, page)
    BY <2>1, <2>2, AnswerShows DEF ProbeInv, PageInv
  <2>4. net'[k].page = page /\ net'[k].body = body
    BY <1>4
  <2> HIDE DEF page
  <2>5. page \in Polled => Brings(net'[k]) = Truth(server, page)
    BY <2>3, <2>4, BringsOf, Zenon DEF Polled
  <2> QED
    BY <2>3, <2>5 DEF page
<1>6. Message(net[k])'
  <2>1. OfPage(net[k])'
    BY <1>1, <1>4 DEF Message, OfPage
  <2>2. Holds(net[k])'
    BY <1>4, <1>5 DEF Holds, Serves
  <2>3. (net[k].mounted => net[k].page = path)'
    BY <1>1, <1>3, <1>4 DEF Message, pageVars
  <2>4. net'[k].mounted /\ Serves(net'[k]) /\ net'[k].page \in Polled
        => Brings(net'[k]) \in since'
    BY <1>1, <1>3, <1>4, <1>5 DEF Message, Serves, PageInv, Seen
  <2> QED
    BY <1>4, <2>1, <2>2, <2>3, <2>4 DEF Message
<1>7. Messages' /\ (FormPending' => FormPending)
  BY <1>1, <1>3, <1>4, <1>6, EachChanges DEF pageVars
<1> QED
  BY <1>3, <1>7, PageStays DEF PageInv, Finite, Seen, pageVars

\* A connection breaks; a promise settles.
LEMMA LoseKeepsPage == ASSUME PageInv, ProbeInv, NEW k \in Conns, Lose(k) PROVE PageInv'
<1>1. /\ net[k] # None /\ MessageRight(net[k])
      /\ UNCHANGED pageVars /\ UNCHANGED <<server, since>>
  BY DEF Lose, ProbeInv, NetRight, serverVars
<1>2. /\ \A j \in Conns : j # k => net'[j] = net[j]
      /\ net'[k].op = net[k].op /\ net'[k].page = net[k].page
      /\ net'[k].mounted = net[k].mounted /\ net'[k].stage = "failed"
  BY <1>1 DEF Lose, ProbeInv, NetRight, MessageRight
<1>3. Messages' /\ (FormPending' => FormPending)
  BY <1>1, <1>2, StageMoves
<1> QED
  BY <1>1, <1>3, PageStays DEF PageInv, Finite, Seen, pageVars

LEMMA RejectKeepsPage == ASSUME PageInv, ProbeInv, NEW k \in Conns, Reject(k) PROVE PageInv'
<1>1. UNCHANGED pageVars /\ UNCHANGED <<server, since>>
  BY DEF Reject, serverVars
<1>2. \A j \in Conns : net'[j] = net[j] \/ net'[j] = None
  BY DEF Reject, ProbeInv, NetRight
<1>3. Messages' /\ (FormPending' => FormPending)
  BY <1>1, <1>2, EachChanges DEF pageVars
<1> QED
  BY <1>1, <1>3, PageStays DEF PageInv, Finite, Seen, pageVars

\* The page shows what an answer brings, and keeps what was typed.
LEMMA DeliverKeepsPage == ASSUME PageInv, ProbeInv, NEW k \in Conns, Deliver(k) PROVE PageInv'
<1>1. /\ net[k] # None /\ net[k].stage = "answered" /\ Message(net[k])
      /\ view' = IF net[k].mounted THEN Loaded(net[k]) ELSE view
      /\ UNCHANGED <<tour, path, timers, typed, server, since>>
  BY DEF Deliver, serverVars, PageInv, Messages
<1>2. \A j \in Conns : net'[j] = net[j] \/ net'[j] = None
  BY DEF Deliver, ProbeInv, NetRight
<1>3. Messages' /\ (FormPending' => FormPending)
  BY <1>1, <1>2, EachChanges
<1>4. CASE ~net[k].mounted
  BY <1>1, <1>3, <1>4, PageStays DEF PageInv, Finite, Seen, pageVars
<1>5. CASE net[k].mounted
  <2>1. net[k].page = path /\ view' = Loaded(net[k])
    BY <1>1, <1>5 DEF Message
  <2>2. /\ HasFields(path, view')
        /\ path \in Polled =>
             \/ Serves(net[k]) /\ Shows(path, view') = Brings(net[k])
             \/ view' = view
        /\ path = "keygen" /\ ~Initial(net[k]) => view'.config = view.config
    BY <1>1, <2>1, DeliveryShows DEF Message, PageInv, Shape
  <2>3. Shape'
    BY <1>1, <2>2 DEF PageInv, Shape
  <2>4. Form'
    BY <1>1, <1>3, <1>5, <2>1, <2>2 DEF PageInv, Form, FormPending
  <2>5. Seen'
    <3>1. path \in Polled /\ Serves(net[k]) => Brings(net[k]) \in since
      BY <1>1, <1>5, <2>1 DEF Message
    <3> QED
      BY <1>1, <2>2, <3>1 DEF PageInv, Seen, FromThisVisit
  <2> QED
    BY <1>1, <1>3, <2>3, <2>4, <2>5 DEF PageInv, Finite
<1> QED
  BY <1>4, <1>5

\* The container is restarted, and others use the server.
LEMMA OthersKeepPage ==
  ASSUME PageInv, ProbeInv, Restart \/ Meanwhile PROVE PageInv'
<1>1. UNCHANGED pageVars /\ Watch
  BY DEF Restart, Meanwhile
<1>2. path \in Polled => since \subseteq since' /\ Truth(server, path)' \in since'
  BY <1>1, Watched DEF pageVars
<1>3. Finite'
  BY StillFinite DEF Restart, Meanwhile, PageInv, ProbeInv, Finite
<1>4. Messages' /\ (FormPending' => FormPending)
  <2>1. CASE Meanwhile
    BY <1>1, <1>2, <2>1, EachChanges DEF Meanwhile, pageVars
  <2>2. CASE Restart
    <3>1. ASSUME NEW j \in Conns, net'[j] # None, net'[j] # net[j]
          PROVE  /\ Message(net[j])'
                 /\ net[j] # None /\ net'[j].mounted = net[j].mounted
                 /\ net'[j].page = net[j].page /\ net'[j].op = net[j].op
      <4>1. net[j] # None /\ net'[j] = [net[j] EXCEPT !.stage = "failed"]
        BY <2>2, <3>1 DEF Restart
      <4>2. MessageRight(net[j]) /\ Message(net[j])
        BY <4>1 DEF ProbeInv, NetRight, PageInv, Messages
      <4>3. /\ net'[j].mounted = net[j].mounted /\ net'[j].page = net[j].page
            /\ net'[j].op = net[j].op /\ net'[j].stage = "failed"
        BY <4>1, <4>2 DEF MessageRight
      <4> QED
        BY <1>1, <4>1, <4>2, <4>3 DEF Message, OfPage, Holds, pageVars
    <3> QED
      BY <1>1, <1>2, <3>1, EachChanges DEF pageVars
  <2> QED
    BY <2>1, <2>2
<1> QED
  BY <1>1, <1>2, <1>3, <1>4, PageStays

\* Every step keeps the page right.
LEMMA PageStep == ASSUME PageInv, ProbeInv, [Next]_vars PROVE PageInv'
<1>1. ASSUME NEW k \in Conns, Begin(k) \/ Write(k) \/ Answer(k) \/ Lose(k) \/ Settle(k)
      PROVE  PageInv'
  BY <1>1, HandlerKeepsPage, AnswerKeepsPage, LoseKeepsPage, DeliverKeepsPage,
     RejectKeepsPage DEF Settle
<1>2. CASE Second \/ UNCHANGED vars
  <2>1. UNCHANGED <<pageVars, net, server, since>>
    BY <1>2 DEF Second, vars, serverVars
  <2>2. Messages' /\ (FormPending' => FormPending)
    BY <2>1, EachChanges DEF pageVars
  <2> QED
    BY <2>1, <2>2, PageStays DEF PageInv, Finite, Seen, pageVars
<1> QED
  BY <1>1, <1>2, UserKeepsPage, LoadKeepsPage, OthersKeepPage DEF Next

\* The first page is right.
LEMMA InitPage == ASSUME Init PROVE PageInv
<1>1. /\ tour \in Tours /\ path \in tour /\ path \in Pages /\ view = Blank(path)
      /\ typed = None /\ server = NewApp
      /\ timers = IF path \in Polled THEN {[page |-> path, mounted |-> TRUE]} ELSE {}
      /\ since = IF path \in Polled THEN {Truth(NewApp, path)} ELSE {}
  BY ClientAssumption DEF Init
<1>2. Shape
  <2>1. HasFields(path, view)
    BY <1>1, BlankFields
  <2>2. \A t \in timers : t = [page |-> path, mounted |-> TRUE] /\ path \in Polled
    BY <1>1
  <2>3. /\ timers \subseteq [page : Polled, mounted : BOOLEAN]
        /\ \A t \in timers : t.page = path
    <3> SUFFICES ASSUME NEW t \in timers
                 PROVE  t \in [page : Polled, mounted : BOOLEAN] /\ t.page = path
      OBVIOUS
    <3>1. t = [page |-> path, mounted |-> TRUE] /\ path \in Polled
      BY <2>2
    <3> QED
      BY <3>1
  <2> QED
    BY <1>1, <2>1, <2>3 DEF Shape
<1>3. Messages
  <2>1. Loads(path) =>
          LET s == Sent(FirstLoad(path), TRUE)
          IN  OfPage(s) /\ Holds(s) /\ s.stage = "sent" /\ s.page = path
    <3>1. Loads(path) => OfPage(FirstLoad(path)) /\ FirstLoad(path).page = path
      BY <1>1 DEF Loads, FirstLoad, Get, OfPage, Pages, Polled
    <3> QED
      BY <3>1, SentMessage
  <2>2. \A k \in Conns : net[k] # None =>
          Loads(path) /\ net[k] = Sent(FirstLoad(path), TRUE)
    BY DEF Init
  <2> QED
    BY <2>1, <2>2 DEF Messages, Message
<1>4. Form /\ Seen /\ Finite
  BY <1>1, FS_EmptySet DEF Form, Seen, FromThisVisit, Finite, NewApp
<1> QED
  BY <1>2, <1>3, <1>4 DEF PageInv

\* The page is right in every state.
LEMMA PageInvariant == Spec => []PageInv
<1>1. Init => PageInv
  BY InitPage
<1>2. PageInv /\ ProbeInv /\ [Next]_vars => PageInv'
  BY PageStep
<1> QED
  BY <1>1, <1>2, ProbeInvariant, PTL DEF Spec

\* A page shows what the server had since it was opened: no answer to another
\* page, or to an earlier visit, is ever shown.
THEOREM ShowsThisVisit == Spec => []FromThisVisit
<1>1. PageInv => FromThisVisit
  BY DEF PageInv, Seen
<1> QED
  BY <1>1, PageInvariant, PTL

\* The form keeps what is typed into it, unless an answer that fills it was
\* awaited.
THEOREM FormStays == Spec => []FormKept
<1>1. PageInv => FormKept
  BY DEF PageInv, Form, FormKept
<1> QED
  BY <1>1, PageInvariant, PTL

\* The variables have their types.
THEOREM PagesTyped == Spec => []TypeOK
<1>1. PageInv /\ BannerInv => TypeOK
  <2> SUFFICES ASSUME PageInv, BannerInv PROVE TypeOK
    OBVIOUS
  <2>1. DOMAIN view = DOMAIN Blank(path)
    BY PathIsPage, BlankFields DEF PageInv, Shape
  <2>2. isDisconnected \in BOOLEAN /\ timer \in 0 .. 2 /\ intervals \subseteq 1 .. 2
    <3>1. /\ isDisconnected \in BOOLEAN
          /\ \/ intervals = {} /\ timer = NoTimer
             \/ quiet \in {0, 1} /\ timer = 2 - quiet /\ intervals = {timer}
      BY Zenon DEF BannerInv
    <3>2. \/ intervals = {} /\ timer = NoTimer
          \/ quiet \in {0, 1} /\ timer = 2 - quiet /\ intervals = {timer}
      BY <3>1
    <3>3. timer \in 0 .. 2 /\ intervals \subseteq 1 .. 2
      BY <3>2 DEF NoTimer
    <3> QED
      BY <3>1, <3>3
  <2> QED
    BY <2>1, <2>2 DEF PageInv, Shape, Messages, Message, OfPage, TypeOK
<1> QED
  BY <1>1, PageInvariant, BannerInvariant, PTL
=============================================================================
