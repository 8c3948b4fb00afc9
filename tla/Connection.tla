------------------------------ MODULE Connection ------------------------------
(***************************************************************************)
(* The sockets of 02_cuat/server (socket.cpp, server.cpp) and the HTTP      *)
(* requests and answers they carry (httpserver.cpp, http_types.cpp): the    *)
(* server's socket is made, connections are accepted into descriptors of    *)
(* the parent, and a child reads what a client sent, as TCP delivers it,    *)
(* and answers. HttpServer has the semaphore, the counts and the signals.   *)
(***************************************************************************)
EXTENDS Integers, Sequences, FiniteSets, SequencesExt, FiniteSetsExt

CONSTANTS
    Clients,        \* connections clients may make
    Requests,       \* what they may send: a request is a sequence of words
    Tails,          \* the words that no space follows
    Remains,        \* what may be behind the text of a read, on the stack
    Missing,        \* files that are not where the server looks for them
    Faults,         \* what else may go wrong: see FaultKinds
    MaxAddresses,   \* bound: addresses the server's name resolves to
    MaxFds,         \* descriptors a process may have
    MaxRequests,    \* bound: requests on a connection
    RequestSize     \* words a read returns at most (REQUEST_SIZE)

FaultKinds == {"socket", "setsockopt", "bind", "inet_ntop",
               "getsockname", "listen", "fork", "malloc", "signal"}

ASSUME ConnectionAssumption ==
    /\ Clients \cap {"free", "listener", "lost", "sensor"} = {}
    /\ Requests \subseteq Seq(STRING) /\ Remains \subseteq Seq(STRING)
    /\ Faults \subseteq FaultKinds
    /\ MaxAddresses \in Nat /\ MaxFds \in Nat /\ MaxRequests \in Nat /\ RequestSize \in Nat \ {0}

Fds    == 1 .. MaxFds
Free   == "free"
Owners == {Free, "listener", "lost", "sensor"} \cup Clients

VARIABLES
    server,     \* where the parent is
    addresses,  \* addresses its constructor has still to try
    fds,        \* whose each descriptor of the parent is
    socket,     \* Server::socket.sockfd, 0 before it is bound
    sockfd,     \* client_socket.sockfd, 0 before anyone connected
    current,    \* the client accepted last
    refused,    \* the parent has closed its descriptor
    strays,     \* closes of a number that was not the closer's own
    conn,       \* each connection, as TCP sees it
    stream,     \* words sent and not yet read
    asked,      \* requests sent
    child,      \* where the child is
    req,        \* the HttpRequest of on_accept
    res,        \* the HttpResponse of on_accept
    served,     \* reads that returned one request, before any other
    whole,      \* so far, each read returned one request and each was answered once
    got         \* what the client received since that read

parentVars == <<server, addresses, fds, socket, sockfd, current, refused, strays>>
wireVars   == <<conn, stream, asked>>
childVars  == <<child, req, res, served, whole, got>>
vars       == <<parentVars, wireVars, childVars>>

\* http_types: what an HttpResponse is made of.
OK          == "200 OK"
NOT_FOUND   == "404 Not Found"
BAD_REQUEST == "400 Bad Request"
Mime == [HTML |-> "text/html", FAVICON |-> "image/x-icon", JPG |-> "image/jpg",
         JSON |-> "application/json"]

Response(file, type, code) == [route |-> file, mime_type |-> Mime[type], code |-> code]

response_bad_request == Response("/errors/bad_request.html", "HTML", BAD_REQUEST)
response_update      == Response("{}", "JSON", OK)
response_404_image   == Response("/images/404.jpg", "JPG", OK)
response_max_clients_image == Response("/images/max_clients.jpg", "JPG", OK)
response_root        == Response("/index.html", "HTML", OK)
response_favicon     == Response("/images/favicon.ico", "FAVICON", OK)
response_max_clients == Response("/errors/max_clients.html", "HTML", NOT_FOUND)
response_not_found   == Response("/errors/not_found.html", "HTML", NOT_FOUND)

\* What a client gets that is no answer: part of one, or one with the wrong
\* length.
Part   == [route |-> "part", mime_type |-> "", code |-> ""]
Junk   == [route |-> "junk", mime_type |-> "", code |-> ""]

Unknown == "?"      \* a route nobody sent
Methods == {"GET", "POST", "INVALID"}

Init ==
    /\ server = "construct" /\ addresses \in 0 .. MaxAddresses
    /\ fds = [n \in Fds |-> Free] /\ socket = 0 /\ sockfd = 0
    /\ current \in Clients /\ refused = FALSE /\ strays = {}
    /\ conn = [c \in Clients |-> "none"]
    /\ stream = [c \in Clients |-> <<>>] /\ asked = [c \in Clients |-> <<>>]
    /\ child = [c \in Clients |-> "none"]
    /\ req = [c \in Clients |-> [method |-> "INVALID", route |-> Unknown]]
    /\ res = [c \in Clients |-> response_not_found]
    /\ served = [c \in Clients |-> 0]
    /\ whole = [c \in Clients |-> TRUE]
    /\ got = [c \in Clients |-> <<>>]

-----------------------------------------------------------------------------
(***************************************************************************)
(* Socket::Socket, for a server.                                           *)
(***************************************************************************)
FreeFds == {n \in Fds : fds[n] = Free}
Lowest  == Min(FreeFds)

Parent(from, to) == server = from /\ server' = to

\* The parent gives number n back, which it takes for a descriptor of "own".
Closes(by, n, own) ==
    /\ fds' = [fds EXCEPT ![n] = Free]
    /\ strays' = IF fds[n] = own THEN strays ELSE strays \cup {[by |-> by, of |-> fds[n]]}

\* What becomes of the descriptor when a call fails: only the last of the
\* calls leaves it open.
LeftBy(f) == IF f = "inet_ntop" THEN "lost" ELSE Free

\* One turn of the loop over the addresses fails.
AddressFails ==
    /\ Parent("construct", "construct") /\ addresses > 0
    /\ addresses' = addresses - 1
    /\ \/ FreeFds = {} /\ fds' = fds
       \/ \E f \in Faults \cap {"socket", "setsockopt", "bind", "inet_ntop"} :
             /\ FreeFds # {}
             /\ fds' = IF f = "socket" THEN fds ELSE [fds EXCEPT ![Lowest] = LeftBy(f)]
    /\ UNCHANGED <<socket, sockfd, current, refused, strays, wireVars, childVars>>

AddressBound ==
    /\ Parent("construct", "listen") /\ addresses > 0 /\ FreeFds # {}
    /\ socket' = Lowest
    /\ fds' = [fds EXCEPT ![Lowest] = "listener"]
    /\ UNCHANGED <<addresses, sockfd, current, refused, strays, wireVars, childVars>>

\* getaddrinfo gave no address, or none is left: the exception ends the
\* process.
SocketThrows ==
    /\ Parent("construct", "thrown") /\ addresses = 0
    /\ UNCHANGED <<addresses, fds, socket, sockfd, current, refused, strays, wireVars, childVars>>
-----------------------------------------------------------------------------
(***************************************************************************)
(* Server::start.                                                          *)
(***************************************************************************)
Listen ==
    /\ \/ Parent("listen", "accept")
       \/ "listen" \in Faults /\ Parent("listen", "destroy")
    /\ UNCHANGED <<addresses, fds, socket, sockfd, current, refused, strays, wireVars, childVars>>

\* The sensor's thread opens its device, whenever it gets to run before it is
\* joined: at the lowest number, or the next one while the parent has its pid
\* file or its configuration open. It never closes it.
SensorOpens ==
    /\ server \notin {"construct", "thrown", "done"}
    /\ \A n \in Fds : fds[n] # "sensor"
    /\ \E n \in FreeFds :
          /\ Cardinality({m \in FreeFds : m < n}) <= 1
          /\ fds' = [fds EXCEPT ![n] = "sensor"]
    /\ UNCHANGED <<server, addresses, socket, sockfd, current, refused, strays, wireVars, childVars>>

\* Mutant: the result of accept is not looked at.
AcceptUnchecked(c) ==
    /\ Parent("accept", "init") /\ conn[c] = "queued"
    /\ sockfd' = IF FreeFds # {} THEN Lowest ELSE -1
    /\ fds' = [n \in Fds |-> IF n = sockfd' THEN c ELSE fds[n]]
    /\ current' = c /\ refused' = FALSE
    /\ conn' = [conn EXCEPT ![c] = IF FreeFds # {} THEN "open" ELSE @]
    /\ UNCHANGED <<addresses, socket, strays, stream, asked, childVars>>

\* accept takes the lowest descriptor that is free. When there is none it
\* fails, and the loop goes round.
Accept(c) ==
    /\ Parent("accept", "init")
    /\ conn[c] = "queued" /\ FreeFds # {}
    /\ sockfd' = Lowest
    /\ fds' = [fds EXCEPT ![sockfd'] = c]
    /\ current' = c /\ refused' = FALSE
    /\ conn' = [conn EXCEPT ![c] = "open"]
    /\ UNCHANGED <<addresses, socket, strays, stream, asked, childVars>>

\* get_ip_from_sockaddr, and get_ip_from_sockfd, which loses its result.
IpFromSockaddr(failing) == IF "inet_ntop" \in failing THEN -1 ELSE 0
IpFromSockfd(failing)   == IF "getsockname" \in failing THEN -1 ELSE 0

\* Socket::init.
InitFails(failing) == IpFromSockfd(failing) = -1 \/ IpFromSockaddr(failing) = -1

\* Mutant: the descriptor is closed and the connection is not shut down.
ShutNot(c) == conn[c]

\* Socket::close: shutdown ends the connection, whoever else has it open.
Shut(c) == IF conn[c] = "open" THEN "shut" ELSE conn[c]

\* The parent closes the client it could not serve.
Refuse ==
    /\ conn' = [conn EXCEPT ![current] = Shut(current)]
    /\ Closes("start", sockfd, current)
    /\ refused' = TRUE

InitClient ==
    /\ \E failing \in SUBSET (Faults \cap {"inet_ntop", "getsockname"}) :
          \/ /\ ~InitFails(failing) /\ Parent("init", "fork")
             /\ UNCHANGED <<fds, conn, refused, strays>>
          \/ InitFails(failing) /\ Parent("init", "accept") /\ Refuse
    /\ UNCHANGED <<addresses, socket, sockfd, current, stream, asked, childVars>>

\* Mutant: the parent closes the client's descriptor.
ForkClosing ==
    /\ Parent("fork", "accept")
    /\ child' = [child EXCEPT ![current] = "read"]
    /\ fds' = [fds EXCEPT ![sockfd] = Free]
    /\ UNCHANGED <<addresses, socket, sockfd, current, refused, strays, wireVars,
                   req, res, served, whole, got>>

\* The child gets every descriptor; the parent keeps the client's.
Fork ==
    /\ Parent("fork", "accept")
    /\ child' = [child EXCEPT ![current] = "read"]
    /\ \E m \in Methods : req' = [req EXCEPT ![current].method = m]
    /\ UNCHANGED <<addresses, fds, socket, sockfd, current, refused, strays, wireVars,
                   res, served, whole, got>>

ForkFails ==
    /\ Parent("fork", "accept") /\ "fork" \in Faults
    /\ Refuse
    /\ UNCHANGED <<addresses, socket, sockfd, current, stream, asked, childVars>>

\* After Control-C: the socket is closed, and what waits is reset.
Leave ==
    /\ Parent("accept", "destroy")
    /\ Closes("start", socket, "listener")
    /\ conn' = [c \in Clients |-> IF conn[c] = "queued" THEN "shut" ELSE conn[c]]
    /\ UNCHANGED <<addresses, socket, sockfd, current, refused, stream, asked, childVars>>

\* The end of start: the destructor of client_socket closes its number, open
\* or not; any at all when nobody ever connected.
Destroy ==
    /\ Parent("destroy", "join")
    /\ \E n \in IF sockfd = 0 THEN Fds ELSE {sockfd} : Closes("client_socket", n, current)
    /\ UNCHANGED <<addresses, socket, sockfd, current, refused, wireVars, childVars>>

\* The end of main: the sensor's thread has been joined, and the destructor of
\* Server::socket closes the listener's number, for the first time only if
\* listen failed.
DestroyServer ==
    /\ Parent("join", "done")
    /\ Closes("socket", socket, "listener")
    /\ UNCHANGED <<addresses, socket, sockfd, current, refused, wireVars, childVars>>
-----------------------------------------------------------------------------
(***************************************************************************)
(* The client.                                                             *)
(***************************************************************************)
Connect(c) ==
    /\ conn[c] = "none" /\ server \in {"accept", "init", "fork"}
    /\ conn' = [conn EXCEPT ![c] = "queued"]
    /\ UNCHANGED <<parentVars, stream, asked, childVars>>

Send(c) ==
    /\ conn[c] \in {"queued", "open"} /\ Len(asked[c]) < MaxRequests
    /\ \E r \in Requests :
          /\ stream' = [stream EXCEPT ![c] = @ \o r]
          /\ asked' = [asked EXCEPT ![c] = Append(@, r)]
    /\ UNCHANGED <<parentVars, conn, childVars>>

\* It closes its end; Socket::is_listening does so as soon as it is connected.
Close(c) ==
    /\ conn[c] = "open"
    /\ conn' = [conn EXCEPT ![c] = "closed"]
    /\ UNCHANGED <<parentVars, stream, asked, childVars>>
-----------------------------------------------------------------------------
(***************************************************************************)
(* The child: on_accept.                                                   *)
(***************************************************************************)
\* The words a space follows, and the method and the route between the spaces
\* of a text. Without two spaces what is missing stays as it was.
Spaces(text) == {i \in DOMAIN text : text[i] \notin Tails}

Parsed(old, text) ==
    LET first  == Min(Spaces(text))
        second == Min(Spaces(text) \ {first})
    IN  [method |-> CASE Spaces(text) = {} -> old.method
                      [] Spaces(text) # {} /\ first = 1 /\ text[1] \in {"GET", "POST"} -> text[1]
                      [] OTHER -> "INVALID",
         route  |-> CASE Cardinality(Spaces(text)) < 2 -> old.route
                      [] second = first + 1 -> text[second]
                      [] OTHER -> Unknown]

\* Mutant: the second word is not looked for.
ParsedMethodOnly(old, text) == [Parsed(old, text) EXCEPT !.route = old.route]

Request(old, text) == Parsed(old, text)

\* Nothing ends the text in client_msg: what the stack holds may follow it, of
\* an earlier request or anything else.
Texts(read) == {read \o rest : rest \in Remains}

Prefetch == "Purpose: prefetch"

To(c, label) == child' = [child EXCEPT ![c] = label]

\* recv returns what has arrived, up to the size of the buffer.
Read(c) ==
    /\ child[c] = "read"
    /\ \E n \in 1 .. Min({RequestSize, Len(stream[c])}) :
       \E text \in Texts(SubSeq(stream[c], 1, n)) :
          LET read == SubSeq(stream[c], 1, n)
          IN  /\ stream' = [stream EXCEPT ![c] = SubSeq(@, n + 1, Len(@))]
              /\ whole' = [whole EXCEPT ![c] =
                              @ /\ served[c] < Len(asked[c]) /\ read = asked[c][served[c] + 1]]
              /\ served' = [served EXCEPT ![c] = IF whole'[c] THEN @ + 1 ELSE @]
              /\ got' = [got EXCEPT ![c] = <<>>]
              /\ IF Contains(text, Prefetch)
                 THEN To(c, "close") /\ UNCHANGED req
                 ELSE To(c, "answer") /\ req' = [req EXCEPT ![c] = Request(@, text)]
    /\ UNCHANGED <<parentVars, conn, asked, res>>

\* Mutant: recv's 0 does not count as an end.
ReadEndsOnErrorOnly(c) == FALSE /\ UNCHANGED vars

\* recv returns 0 once the client has closed its end.
ReadEnds(c) ==
    /\ child[c] = "read" /\ stream[c] = <<>> /\ conn[c] # "open"
    /\ To(c, "close")
    /\ UNCHANGED <<parentVars, wireVars, req, res, served, whole, got>>

\* The answers to a request; HttpServer decides between the two to "GET /".
Answers(r) ==
    CASE r.method = "INVALID" -> {response_bad_request}
      [] r.method = "GET" /\ r.route = "/" -> {response_root, response_max_clients}
      [] r.method = "GET" /\ r.route = "/update" -> {response_update}
      [] r.method = "GET" /\ r.route = "/images/favicon.ico" -> {response_favicon}
      [] r.method = "GET" /\ r.route = "/images/404.jpg" -> {response_404_image}
      [] r.method = "GET" /\ r.route = "/images/max_clients.jpg" -> {response_max_clients_image}
      [] OTHER -> {response_not_found}

Answer(c) ==
    /\ child[c] = "answer"
    /\ \E a \in Answers(req[c]) : res' = [res EXCEPT ![c] = a]
    /\ To(c, "respond")
    /\ UNCHANGED <<parentVars, wireVars, req, served, whole, got>>

\* response: without the file the name of the page that says so is sent, with
\* a length nobody set: what is sent then is junk, or malloc refuses, or the
\* process reads beyond its stack.
NoFile(c) == res[c].route \in Missing
Sent(c)   == IF NoFile(c) THEN Junk ELSE res[c]

\* Socket::write after a send that a signal cut short: all of it once more,
\* from the beginning.
Cut(answer) == <<Part, answer>>

Respond(c) ==
    /\ child[c] \in {"respond", "again"} /\ conn[c] = "open"
    /\ \/ got' = [got EXCEPT ![c] = Append(@, Sent(c))] /\ UNCHANGED whole
       \/ /\ "signal" \in Faults
          /\ got' = [got EXCEPT ![c] = @ \o Cut(Sent(c))]
          /\ whole' = [whole EXCEPT ![c] = FALSE]
    /\ To(c, "read")
    /\ UNCHANGED <<parentVars, wireVars, req, res, served>>

\* malloc or send fails: the answer is the page for what is not found, and
\* whether that one is sent is not looked at.
RespondFails(c) ==
    /\ child[c] \in {"respond", "again"}
    /\ conn[c] # "open" \/ "malloc" \in Faults \/ NoFile(c)
    /\ To(c, IF child[c] = "respond" THEN "again" ELSE "read")
    /\ res' = [res EXCEPT ![c] = response_not_found]
    /\ whole' = [whole EXCEPT ![c] = @ /\ child[c] = "respond" /\ NoFile(c)]
    /\ UNCHANGED <<parentVars, wireVars, req, served, got>>

\* The child dies without closing anything.
Crash(c) ==
    /\ child[c] \in {"respond", "again"} /\ NoFile(c)
    /\ To(c, "crashed")
    /\ UNCHANGED <<parentVars, wireVars, req, res, served, whole, got>>

\* client_socket.close(), exit.
End(c) ==
    /\ child[c] = "close"
    /\ conn' = [conn EXCEPT ![c] = Shut(c)]
    /\ To(c, "gone")
    /\ UNCHANGED <<parentVars, stream, asked, req, res, served, whole, got>>
-----------------------------------------------------------------------------
ParentStep == AddressFails \/ AddressBound \/ SocketThrows \/ Listen \/ InitClient
                 \/ Fork \/ ForkFails \/ Destroy
ChildStep(c) == Read(c) \/ ReadEnds(c) \/ Answer(c) \/ Respond(c) \/ RespondFails(c)
                 \/ Crash(c) \/ End(c)

Next ==
    \/ ParentStep \/ SensorOpens \/ Leave \/ DestroyServer
    \/ \E c \in Clients : Accept(c) \/ Connect(c) \/ Send(c) \/ Close(c) \/ ChildStep(c)

Fairness ==
    /\ WF_vars(ParentStep)
    /\ \A c \in Clients : WF_vars(Accept(c)) /\ WF_vars(ChildStep(c))

Spec == Init /\ [][Next]_vars /\ Fairness
-----------------------------------------------------------------------------
\* Every variable has its type.
TypeOK ==
    /\ server \in {"construct", "thrown", "listen", "accept", "init", "fork", "destroy", "join",
                   "done"}
    /\ addresses \in 0 .. MaxAddresses
    /\ fds \in [Fds -> Owners] /\ socket \in 0 .. MaxFds /\ sockfd \in 0 .. MaxFds
    /\ current \in Clients /\ refused \in BOOLEAN
    /\ strays \subseteq [by : {"start", "client_socket", "socket"}, of : Owners]
    /\ \A c \in Clients :
          /\ conn[c] \in {"none", "queued", "open", "closed", "shut"}
          /\ Len(asked[c]) <= MaxRequests
          /\ child[c] \in {"none", "read", "answer", "respond", "again", "close", "gone", "crashed"}
          /\ req[c].method \in Methods
          /\ res[c].code \in {OK, NOT_FOUND, BAD_REQUEST}

\* As long as each read returned one request, no send was cut short and no
\* memory refused, what the client gets answers the request just read: nothing
\* of an earlier one is left in it. For a missing file there may be junk.
AnswersMatch ==
    \A c \in Clients : whole[c] /\ got[c] # <<>> =>
        LET r       == asked[c][served[c]]
            m       == IF r[1] \in {"GET", "POST"} THEN r[1] ELSE "INVALID"
            answers == Answers([method |-> m, route |-> r[2]])
        IN  \/ got[c][1] \in answers
            \/ /\ \E a \in answers : a.route \in Missing
               /\ got[c][1] \in {Junk, response_not_found}

\* No connection stays open without a process that serves it: the parent's
\* descriptor, which it never closes, does not keep it open. A child that
\* crashed is the exception.
EndsAreSeen ==
    \A c \in Clients : conn[c] = "open" =>
        \/ child[c] \notin {"none", "gone"}
        \/ current = c /\ server \in {"init", "fork"}

\* What Server::start closes is its own, and its listener stays open as long as
\* it accepts. A constructor that throws leaves only what inet_ntop made it
\* leave. It is the destructors that close numbers a second time: client_socket
\* if the parent closed its last client itself, Server::socket always after
\* start closed it; what they hit is a free number or the sensor's device,
\* never a client's. Without any client ever the first hits whatever it likes.
StrayCloses ==
    /\ server = "thrown" => \A n \in Fds : fds[n] \in {Free, "lost"}
    /\ server \in {"listen", "accept", "init", "fork"} => fds[socket] = "listener"
    /\ \A s \in strays :
          /\ s.by # "start"
          /\ s.by = "client_socket" => refused \/ sockfd = 0
          /\ s.of \in {Free, "sensor"} \/ sockfd = 0

\* The child of a client that closed its end comes to an end.
ChildrenEnd ==
    \A c \in Clients : conn[c] = "closed" /\ child[c] # "none" ~> child[c] \in {"gone", "crashed"}
=============================================================================
