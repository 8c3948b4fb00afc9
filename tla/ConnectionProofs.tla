--------------------------- MODULE ConnectionProofs ---------------------------
(***************************************************************************)
(* Proofs about the sockets and the HTTP requests, for any clients,         *)
(* requests, descriptors and faults.                                       *)
(***************************************************************************)
EXTENDS Connection, FiniteSetTheorems, SequenceTheorems, WellFoundedInduction, TLAPS

\* What an HttpResponse of the server can be, and what a client gets.
Results == {response_bad_request, response_update, response_404_image,
            response_max_clients_image, response_root, response_favicon,
            response_max_clients, response_not_found}
Gets    == Results \cup {Part, Junk}

ParentOK ==
    /\ server \in {"construct", "thrown", "listen", "accept", "init", "fork", "destroy", "join",
                   "done"}
    /\ addresses \in 0 .. MaxAddresses
    /\ fds \in [Fds -> Owners] /\ socket \in 0 .. MaxFds /\ sockfd \in 0 .. MaxFds
    /\ current \in Clients /\ refused \in BOOLEAN
    /\ strays \subseteq [by : {"start", "client_socket", "socket"}, of : Owners]
    /\ server \notin {"construct", "thrown"} => socket \in Fds
    /\ server \in {"init", "fork"} => sockfd \in Fds

WireOK ==
    /\ conn \in [Clients -> {"none", "queued", "open", "closed", "shut"}]
    /\ stream \in [Clients -> Seq(STRING)]
    /\ asked \in [Clients -> Seq(Requests)]
    /\ \A c \in Clients : Len(asked[c]) <= MaxRequests

ReqOK ==
    /\ req = [c \in Clients |-> [method |-> req[c].method, route |-> req[c].route]]
    /\ \A c \in Clients : req[c].method \in Methods

ChildOK ==
    /\ child \in [Clients -> {"none", "read", "answer", "respond", "again", "close", "gone",
                              "crashed"}]
    /\ ReqOK
    /\ res \in [Clients -> Results]
    /\ served \in [Clients -> Nat]
    /\ whole \in [Clients -> BOOLEAN]
    /\ got \in [Clients -> Seq(Gets)]

Shape == ParentOK /\ WireOK /\ ChildOK
-----------------------------------------------------------------------------
(***************************************************************************)
(* The operators.                                                          *)
(***************************************************************************)
LEMMA MinIs ==
    ASSUME NEW S \in SUBSET Nat, S # {}
    PROVE  Min(S) \in S /\ \A y \in S : Min(S) <= y
<1> DEFINE less == OpToRel(<, Nat)
<1>1. IsWellFoundedOn(less, Nat)
  BY NatLessThanWellFounded
<1>2. \E i \in S : \A j \in S : ~(<<j, i>> \in less)
  <2> HIDE DEF less
  <2> QED BY <1>1, WFMin
<1>3. PICK i \in S : \A j \in S : ~(<<j, i>> \in less)
  BY <1>2
<1>4. \A j \in S : i <= j
  <2>1. \A j \in S : ~(j < i)
    BY <1>3 DEF OpToRel
  <2> QED BY <2>1
<1>5. \E x \in S : \A y \in S : x <= y
  BY <1>4
<1> QED BY <1>5 DEF Min

\* The lowest descriptor that is free.
LEMMA LowestIs ==
    ASSUME FreeFds # {}
    PROVE  Lowest \in Fds /\ fds[Lowest] = Free
<1>1. FreeFds \in SUBSET Nat
  BY ConnectionAssumption DEF FreeFds, Fds
<1>2. Lowest \in FreeFds
  BY <1>1, MinIs DEF Lowest
<1> QED BY <1>2 DEF FreeFds

LEMMA ResponsesAre ==
    /\ \A r : Answers(r) \subseteq Results
    /\ \A a \in Results : a.code \in {OK, NOT_FOUND, BAD_REQUEST}
    /\ response_not_found \in Results
<1>1. \A r : Answers(r) \subseteq Results
  BY DEF Answers, Results
<1>2. \A a \in Results : a.code \in {OK, NOT_FOUND, BAD_REQUEST}
  <2>1. \A file, type, code : Response(file, type, code).code = code
    BY DEF Response
  <2>2. /\ response_bad_request.code = BAD_REQUEST /\ response_update.code = OK
        /\ response_404_image.code = OK /\ response_max_clients_image.code = OK
        /\ response_root.code = OK /\ response_favicon.code = OK
        /\ response_max_clients.code = NOT_FOUND /\ response_not_found.code = NOT_FOUND
    BY <2>1 DEF response_bad_request, response_update, response_404_image,
                response_max_clients_image, response_root, response_favicon,
                response_max_clients, response_not_found
  <2> QED BY <2>2 DEF Results
<1>3. response_not_found \in Results
  BY DEF Results
<1> QED BY <1>1, <1>2, <1>3

\* The text after a read begins with what was read.
LEMMA TextsAre ==
    ASSUME NEW read \in Seq(STRING), NEW text \in Texts(read)
    PROVE  /\ text \in Seq(STRING) /\ Len(read) <= Len(text)
           /\ \A i \in 1 .. Len(read) : text[i] = read[i]
<1>1. PICK rest \in Remains : text = read \o rest
  BY DEF Texts
<1>2. rest \in Seq(STRING)
  BY <1>1, ConnectionAssumption
<1> QED BY <1>1, <1>2

LEMMA ParsedMethods ==
    ASSUME NEW old, old.method \in Methods, NEW text
    PROVE  /\ Parsed(old, text).method \in Methods
           /\ Parsed(old, text) = [method |-> Parsed(old, text).method,
                                   route |-> Parsed(old, text).route]
BY DEF Parsed, Methods

\* A request begins with a method and a route, and a space follows each.
RequestLines == \A r \in Requests : Len(r) >= 2 /\ r[1] \notin Tails /\ r[2] \notin Tails

\* What a request asks for.
Asks(r) == [method |-> IF r[1] \in {"GET", "POST"} THEN r[1] ELSE "INVALID", route |-> r[2]]

\* Nothing of an earlier request, on the stack or in the HttpRequest, is left
\* in one that was read whole.
LEMMA ParsedIs ==
    ASSUME RequestLines, NEW old, NEW read \in Requests, NEW text \in Seq(STRING),
           Len(read) <= Len(text), \A i \in 1 .. Len(read) : text[i] = read[i]
    PROVE  Parsed(old, text) = Asks(read)
<1>1. /\ read \in Seq(STRING) /\ Len(read) >= 2
      /\ read[1] \notin Tails /\ read[2] \notin Tails
  BY ConnectionAssumption DEF RequestLines
<1>2. text[1] = read[1] /\ text[2] = read[2] /\ Len(text) \in Nat /\ Len(text) >= 2
  BY <1>1
<1>3. 1 \in Spaces(text) /\ 2 \in Spaces(text) /\ Spaces(text) \subseteq 1 .. Len(text)
  BY <1>1, <1>2 DEF Spaces
<1> DEFINE first  == Min(Spaces(text))
           second == Min(Spaces(text) \ {first})
<1>4. first = 1
  <2>1. Spaces(text) \in SUBSET Nat /\ Spaces(text) # {}
    BY <1>3
  <2>2. first \in Spaces(text) /\ first <= 1
    BY <1>3, <2>1, MinIs
  <2> QED BY <1>3, <2>2
<1>5. second = 2
  <2>1. Spaces(text) \ {first} \in SUBSET Nat /\ 2 \in Spaces(text) \ {first}
    BY <1>3, <1>4
  <2>2. second \in Spaces(text) \ {first} /\ second <= 2
    BY <2>1, MinIs
  <2> QED BY <1>3, <1>4, <2>2
<1>6. ~(Cardinality(Spaces(text)) < 2)
  <2>1. IsFiniteSet(1 .. Len(text))
    BY <1>2, FS_Interval
  <2>2. IsFiniteSet(Spaces(text))
    BY <1>3, <2>1, FS_Subset
  <2>3. Cardinality({1, 2}) = 2
    <3>1. IsFiniteSet({}) /\ Cardinality({}) = 0
      BY FS_EmptySet
    <3>2. IsFiniteSet({1}) /\ Cardinality({1}) = 1
      BY FS_Singleton
    <3>3. 2 \notin {1} /\ {1} \cup {2} = {1, 2}
      OBVIOUS
    <3> DEFINE one == {1}
    <3> HIDE DEF one
    <3>4. IsFiniteSet(one) /\ Cardinality(one) = 1 /\ 2 \notin one
      BY <3>2, <3>3 DEF one
    <3>5. Cardinality(one \cup {2}) = Cardinality(one) + 1
      BY <3>4, FS_AddElement
    <3>6. Cardinality(one \cup {2}) = 2
      BY <3>4, <3>5
    <3> QED BY <3>3, <3>6, Zenon DEF one
  <2>4. Cardinality({1, 2}) <= Cardinality(Spaces(text)) /\ Cardinality(Spaces(text)) \in Nat
    BY <1>3, <2>2, FS_Subset, FS_CardinalityType
  <2> QED BY <2>3, <2>4
<1> DEFINE few    == Cardinality(Spaces(text)) < 2
           method == CASE Spaces(text) = {} -> old.method
                       [] Spaces(text) # {} /\ first = 1 /\ text[1] \in {"GET", "POST"} -> text[1]
                       [] OTHER -> "INVALID"
           route  == CASE few -> old.route
                       [] second = first + 1 -> text[second]
                       [] OTHER -> Unknown
<1>7. Parsed(old, text) = [method |-> method, route |-> route]
  BY DEF Parsed
<1> HIDE DEF first, second, few
<1>8. method = IF text[1] \in {"GET", "POST"} THEN text[1] ELSE "INVALID"
  BY <1>3, <1>4
<1>9. route = text[2]
  <2>1. ~few /\ second = first + 1
    BY <1>4, <1>5, <1>6 DEF few
  <2> QED BY <1>5, <2>1
<1> HIDE DEF method, route
<1> QED BY <1>2, <1>7, <1>8, <1>9 DEF Asks
-----------------------------------------------------------------------------
(***************************************************************************)
(* The types.                                                              *)
(***************************************************************************)
LEMMA InitShape == Init => Shape
<1> SUFFICES ASSUME Init PROVE Shape
  OBVIOUS
<1>1. ParentOK
  <2>1. fds \in [Fds -> Owners]
    BY DEF Init, Owners
  <2>2. sockfd \in 0 .. MaxFds /\ socket \in 0 .. MaxFds
    BY ConnectionAssumption DEF Init
  <2>3. strays = {}
    BY DEF Init
  <2> QED BY <2>1, <2>2, <2>3 DEF Init, ParentOK
<1>2. WireOK
  <2>1. 0 <= MaxRequests
    BY ConnectionAssumption
  <2>2. \A c \in Clients : asked[c] = <<>>
    BY DEF Init
  <2>3. \A c \in Clients : Len(asked[c]) <= MaxRequests
    BY <2>1, <2>2
  <2>4. asked \in [Clients -> Seq(Requests)]
    BY DEF Init
  <2>5. stream \in [Clients -> Seq(STRING)]
    BY DEF Init
  <2>6. conn \in [Clients -> {"none", "queued", "open", "closed", "shut"}]
    BY DEF Init
  <2> QED BY <2>3, <2>4, <2>5, <2>6 DEF WireOK
<1>3. ChildOK
  <2>1. ReqOK
    BY DEF Init, ReqOK, Methods
  <2>4. res \in [Clients -> Results]
    BY ResponsesAre DEF Init
  <2>5. got \in [Clients -> Seq(Gets)]
    BY DEF Init
  <2>6. /\ child \in [Clients -> {"none", "read", "answer", "respond", "again", "close", "gone",
                                  "crashed"}]
        /\ served \in [Clients -> Nat] /\ whole \in [Clients -> BOOLEAN]
    BY DEF Init
  <2> QED BY <2>1, <2>4, <2>5, <2>6 DEF ChildOK
<1> QED BY <1>1, <1>2, <1>3 DEF Shape

\* The socket is made and closed, clients are accepted and the sensor opens.
LEMMA ParentTyped ==
    ASSUME Shape, Next PROVE ParentOK'
<1>1. ParentOK
  BY DEF Shape
<1>2. FreeFds # {} => Lowest \in Fds
  BY LowestIs
<1>3. Fds = 1 .. MaxFds /\ Fds \subseteq 0 .. MaxFds /\ FreeFds \subseteq Fds
  BY DEF Fds, FreeFds
<1>14. \A by \in {"start", "client_socket", "socket"}, n \in Fds :
      \A own : Closes(by, n, own) =>
         /\ fds' \in [Fds -> Owners]
         /\ strays' \subseteq [by : {"start", "client_socket", "socket"}, of : Owners]
  <2>1. ASSUME NEW by \in {"start", "client_socket", "socket"}, NEW n \in Fds, NEW own,
               Closes(by, n, own)
        PROVE  /\ fds' \in [Fds -> Owners]
               /\ strays' \subseteq [by : {"start", "client_socket", "socket"}, of : Owners]
    <3>1. fds \in [Fds -> Owners] /\ fds[n] \in Owners /\ Free \in Owners
      BY <1>1 DEF ParentOK, Owners
    <3>2. fds' \in [Fds -> Owners]
      BY <2>1, <3>1 DEF Closes
    <3>3. [by |-> by, of |-> fds[n]] \in [by : {"start", "client_socket", "socket"}, of : Owners]
      BY <3>1
    <3>4. \A s \in strays' : s \in strays \/ s = [by |-> by, of |-> fds[n]]
      BY <2>1 DEF Closes
    <3>5. strays \subseteq [by : {"start", "client_socket", "socket"}, of : Owners]
      BY <1>1 DEF ParentOK
    <3> QED BY <3>2, <3>3, <3>4, <3>5
  <2> QED BY <2>1
<1>4. CASE AddressFails
  <2>1. \A f : LeftBy(f) \in Owners
    BY DEF LeftBy, Owners
  <2>2. fds' \in [Fds -> Owners]
    BY <1>1, <1>2, <1>4, <2>1 DEF AddressFails, ParentOK
  <2>3. addresses' \in 0 .. MaxAddresses
    BY <1>1, <1>4, ConnectionAssumption DEF AddressFails, ParentOK
  <2> QED BY <1>1, <1>4, <2>2, <2>3 DEF AddressFails, Parent, ParentOK
<1>5. CASE AddressBound
  BY <1>1, <1>2, <1>3, <1>5 DEF AddressBound, Parent, ParentOK, Owners
<1>6. CASE SocketThrows \/ Listen
  BY <1>1, <1>6 DEF SocketThrows, Listen, Parent, ParentOK
<1>7. ASSUME Refuse, server \in {"init", "fork"}, server' = "accept",
             UNCHANGED <<addresses, socket, sockfd, current>>
      PROVE  ParentOK'
  <2>1. Closes("start", sockfd, current) /\ refused' = TRUE /\ sockfd \in Fds
    BY <1>1, <1>7 DEF Refuse, ParentOK
  <2>2. /\ fds' \in [Fds -> Owners]
        /\ strays' \subseteq [by : {"start", "client_socket", "socket"}, of : Owners]
    BY <1>14, <2>1
  <2> QED BY <1>1, <1>7, <2>1, <2>2 DEF ParentOK
<1>8. CASE InitClient \/ Fork \/ ForkFails
  <2>1. /\ server \in {"init", "fork"} /\ server' \in {"accept", "fork"}
        /\ UNCHANGED <<addresses, socket, sockfd, current>>
    BY <1>8 DEF InitClient, Fork, ForkFails, Parent
  <2>2. \/ Refuse /\ server' = "accept"
        \/ UNCHANGED <<fds, refused, strays>>
    BY <1>8 DEF InitClient, Fork, ForkFails, Parent
  <2>3. CASE Refuse /\ server' = "accept"
    BY <1>7, <2>1, <2>3
  <2>4. CASE UNCHANGED <<fds, refused, strays>>
    BY <1>1, <2>1, <2>4 DEF ParentOK
  <2> QED BY <2>2, <2>3, <2>4
<1>9. CASE Leave \/ DestroyServer
  <2>1. PICK by \in {"start", "client_socket", "socket"} : Closes(by, socket, "listener")
    BY <1>9 DEF Leave, DestroyServer
  <2>2. socket \in Fds
    BY <1>1, <1>9 DEF Leave, DestroyServer, Parent, ParentOK
  <2>3. /\ fds' \in [Fds -> Owners]
        /\ strays' \subseteq [by : {"start", "client_socket", "socket"}, of : Owners]
    BY <1>14, <2>1, <2>2
  <2> QED BY <1>1, <1>9, <2>2, <2>3 DEF Leave, DestroyServer, Parent, ParentOK
<1>11. CASE Destroy
  <2>1. PICK n \in IF sockfd = 0 THEN Fds ELSE {sockfd} : Closes("client_socket", n, current)
    BY <1>11 DEF Destroy
  <2>2. n \in Fds
    BY <1>1, <1>3, <2>1 DEF ParentOK
  <2>3. /\ fds' \in [Fds -> Owners]
        /\ strays' \subseteq [by : {"start", "client_socket", "socket"}, of : Owners]
    BY <1>14, <2>1, <2>2
  <2> QED BY <1>1, <1>11, <2>3 DEF Destroy, Parent, ParentOK
<1>10. CASE SensorOpens
  BY <1>1, <1>3, <1>10 DEF SensorOpens, ParentOK, Owners
<1>12. ASSUME NEW c \in Clients, Accept(c) PROVE ParentOK'
  BY <1>1, <1>2, <1>3, <1>12 DEF Accept, Parent, ParentOK, Owners
<1>13. CASE UNCHANGED parentVars
  BY <1>1, <1>13 DEF parentVars, ParentOK
<1> QED BY <1>4, <1>5, <1>6, <1>7, <1>8, <1>9, <1>10, <1>11, <1>12, <1>13
    DEF Next, ParentStep, ChildStep, Connect, Send, Close, Read, ReadEnds, Answer, Respond,
        RespondFails, Crash, End

\* Connections, what is sent on them and what is read of it.
LEMMA WireTyped ==
    ASSUME Shape, Next PROVE WireOK'
<1>1. WireOK
  BY DEF Shape
<1>2. CASE UNCHANGED wireVars
  BY <1>1, <1>2 DEF wireVars, WireOK
<1>3. ASSUME conn' \in [Clients -> {"none", "queued", "open", "closed", "shut"}],
             UNCHANGED <<stream, asked>>
      PROVE  WireOK'
  BY <1>1, <1>3 DEF WireOK
<1>4. \A c \in Clients : Shut(c) \in {"none", "queued", "open", "closed", "shut"}
  BY <1>1 DEF Shut, WireOK
<1>5. current \in Clients
  BY DEF Shape, ParentOK
<1>6. CASE InitClient
  BY <1>1, <1>3, <1>4, <1>5, <1>6 DEF InitClient, Refuse, WireOK
<1>7. CASE ForkFails
  BY <1>1, <1>3, <1>4, <1>5, <1>7 DEF ForkFails, Refuse, WireOK
<1>8. CASE Leave
  BY <1>1, <1>3, <1>8 DEF Leave, WireOK
<1>9. ASSUME NEW c \in Clients, Accept(c) \/ Connect(c) \/ Close(c) PROVE WireOK'
  BY <1>1, <1>3, <1>9 DEF Accept, Connect, Close, WireOK
<1>10. ASSUME NEW c \in Clients, End(c) PROVE WireOK'
  BY <1>1, <1>3, <1>4, <1>10 DEF End, WireOK
<1>11. ASSUME NEW c \in Clients, Send(c) PROVE WireOK'
  <2>1. PICK r \in Requests : /\ stream' = [stream EXCEPT ![c] = @ \o r]
                              /\ asked' = [asked EXCEPT ![c] = Append(@, r)]
    BY <1>11 DEF Send
  <2>2. r \in Seq(STRING) /\ stream[c] \in Seq(STRING) /\ asked[c] \in Seq(Requests)
        /\ Len(asked[c]) < MaxRequests /\ MaxRequests \in Nat
    BY <1>1, <1>11, ConnectionAssumption DEF Send, WireOK
  <2>3. stream[c] \o r \in Seq(STRING)
    BY <2>2
  <2>4. Append(asked[c], r) \in Seq(Requests) /\ Len(Append(asked[c], r)) <= MaxRequests
    BY <2>2
  <2>5. stream' \in [Clients -> Seq(STRING)]
    BY <1>1, <2>1, <2>3 DEF WireOK
  <2>6. asked' \in [Clients -> Seq(Requests)] /\ \A d \in Clients : Len(asked'[d]) <= MaxRequests
    BY <1>1, <2>1, <2>4 DEF WireOK
  <2> QED BY <1>1, <1>11, <2>5, <2>6 DEF Send, WireOK
<1>12. ASSUME NEW c \in Clients, Read(c) PROVE WireOK'
  <2>1. PICK n \in 1 .. Min({RequestSize, Len(stream[c])}) :
            stream' = [stream EXCEPT ![c] = SubSeq(@, n + 1, Len(@))]
    BY <1>12 DEF Read
  <2>2. stream[c] \in Seq(STRING)
    BY <1>1 DEF WireOK
  <2>3. SubSeq(stream[c], n + 1, Len(stream[c])) \in Seq(STRING)
    <3>1. \A i \in n + 1 .. Len(stream[c]) : stream[c][i] \in STRING
      BY <2>2, ElementOfSeq, LenProperties
    <3> QED BY <2>2, <3>1, SubSeqProperties
  <2>4. stream' \in [Clients -> Seq(STRING)]
    BY <1>1, <2>1, <2>3 DEF WireOK
  <2> QED BY <1>1, <1>12, <2>4 DEF Read, WireOK, parentVars
<1> QED BY <1>2, <1>6, <1>7, <1>8, <1>9, <1>10, <1>11, <1>12
    DEF Next, ParentStep, ChildStep, AddressFails, AddressBound, SocketThrows, Listen, Fork,
        Destroy, DestroyServer, SensorOpens, ReadEnds, Answer, Respond, RespondFails, Crash

\* A read: what arrived, at most the size of the buffer, and what follows it.
LEMMA ReadIs ==
    ASSUME Shape, NEW c \in Clients, Read(c)
    PROVE  \E n \in 1 .. Len(stream[c]) :
           LET read == SubSeq(stream[c], 1, n)
           IN  /\ read \in Seq(STRING)
               /\ \E text \in Texts(read) :
                     /\ whole' = [whole EXCEPT ![c] =
                                     @ /\ served[c] < Len(asked[c])
                                       /\ read = asked[c][served[c] + 1]]
                     /\ \/ To(c, "close") /\ UNCHANGED req
                        \/ To(c, "answer") /\ req' = [req EXCEPT ![c] = Request(@, text)]
<1>1. stream[c] \in Seq(STRING) /\ RequestSize \in Nat
  BY ConnectionAssumption DEF Shape, WireOK
<1>2. PICK n \in 1 .. Min({RequestSize, Len(stream[c])}) :
      \E text \in Texts(SubSeq(stream[c], 1, n)) :
         /\ whole' = [whole EXCEPT ![c] =
                         @ /\ served[c] < Len(asked[c])
                           /\ SubSeq(stream[c], 1, n) = asked[c][served[c] + 1]]
         /\ \/ To(c, "close") /\ UNCHANGED req
            \/ To(c, "answer") /\ req' = [req EXCEPT ![c] = Request(@, text)]
  BY Zenon DEF Read
<1>3. n \in 1 .. Len(stream[c])
  <2> DEFINE size == Len(stream[c])
             S    == {RequestSize, size}
  <2>1. size \in Nat
    BY <1>1
  <2> HIDE DEF size
  <2>2. S \in SUBSET Nat /\ S # {} /\ RequestSize \in S /\ size \in S
    BY <1>1, <2>1
  <2>3. n \in 1 .. Min(S)
    BY DEF size
  <2> HIDE DEF S
  <2>4. Min(S) \in Nat /\ Min(S) <= size
    BY <2>2, MinIs
  <2>5. n \in 1 .. size
    BY <1>1, <2>1, <2>3, <2>4
  <2> QED BY <2>5 DEF size
<1>4. SubSeq(stream[c], 1, n) \in Seq(STRING)
  <2>1. \A i \in 1 .. n : stream[c][i] \in STRING
    BY <1>1, <1>3, ElementOfSeq, LenProperties
  <2>2. n \in Nat /\ n >= 1
    BY <1>3
  <2> QED BY <1>1, <1>3, <2>1, <2>2, SubSeqProperties
<1> QED BY <1>2, <1>3, <1>4

LEMMA RequestTyped ==
    ASSUME Shape, NEW c \in Clients, Read(c)
    PROVE  ReqOK' /\ whole' \in [Clients -> BOOLEAN]
<1>1. ReqOK /\ whole \in [Clients -> BOOLEAN]
  BY DEF Shape, ChildOK
<1>2. PICK n \in 1 .. Len(stream[c]) :
           LET read == SubSeq(stream[c], 1, n)
           IN  /\ read \in Seq(STRING)
               /\ \E text \in Texts(read) :
                     /\ whole' = [whole EXCEPT ![c] =
                                     @ /\ served[c] < Len(asked[c])
                                       /\ read = asked[c][served[c] + 1]]
                     /\ \/ To(c, "close") /\ UNCHANGED req
                        \/ To(c, "answer") /\ req' = [req EXCEPT ![c] = Request(@, text)]
  BY ReadIs
<1> DEFINE read == SubSeq(stream[c], 1, n)
<1>3. PICK text \in Texts(read) :
         /\ whole' = [whole EXCEPT ![c] = @ /\ served[c] < Len(asked[c])
                                            /\ read = asked[c][served[c] + 1]]
         /\ \/ UNCHANGED req
            \/ req' = [req EXCEPT ![c] = Request(@, text)]
  BY <1>2
<1>6. whole' \in [Clients -> BOOLEAN]
  BY <1>1, <1>3
<1>7. ReqOK'
  <2> DEFINE new == Request(req[c], text)
  <2>1. new.method \in Methods /\ new = [method |-> new.method, route |-> new.route]
    BY <1>1, ParsedMethods DEF ReqOK, Request
  <2>2. req' = req \/ req' = [req EXCEPT ![c] = new]
    BY <1>3
  <2> HIDE DEF new
  <2> QED BY <1>1, <2>1, <2>2 DEF ReqOK
<1> QED BY <1>6, <1>7

LEMMA ChildTyped ==
    ASSUME Shape, Next PROVE ChildOK'
<1> DEFINE States == {"none", "read", "answer", "respond", "again", "close", "gone", "crashed"}
<1>1. ChildOK /\ current \in Clients
  BY DEF Shape, ParentOK
<1>2. CASE UNCHANGED childVars
  BY <1>1, <1>2 DEF childVars, ChildOK, ReqOK
<1>3. ASSUME NEW c \in Clients, NEW to \in States, To(c, to) PROVE child' \in [Clients -> States]
  BY <1>1, <1>3 DEF To, ChildOK
<1>4. CASE Fork
  <2>1. PICK m \in Methods : req' = [req EXCEPT ![current].method = m]
    BY <1>4 DEF Fork
  <2>2. ReqOK'
    <3> DEFINE old == [method |-> req[current].method, route |-> req[current].route]
               new == [method |-> m, route |-> req[current].route]
    <3>1. req[current] = old /\ req = [c \in Clients |-> req[c]]
      BY <1>1 DEF ChildOK, ReqOK
    <3>2. [old EXCEPT !.method = m] = new
      OBVIOUS
    <3>3. req' = [req EXCEPT ![current] = new]
      <4> HIDE DEF old, new
      <4> QED BY <2>1, <3>1, <3>2
    <3>4. new.method \in Methods /\ new = [method |-> new.method, route |-> new.route]
      OBVIOUS
    <3> HIDE DEF new
    <3> QED BY <1>1, <3>3, <3>4 DEF ChildOK, ReqOK
  <2>3. child' \in [Clients -> States]
    BY <1>1, <1>4 DEF Fork, ChildOK
  <2> QED BY <1>1, <1>4, <2>2, <2>3 DEF Fork, ChildOK
<1>5. ASSUME NEW c \in Clients, Read(c) PROVE ChildOK'
  <2>1. child' \in [Clients -> States]
    BY <1>3, <1>5 DEF Read
  <2>2. served' \in [Clients -> Nat]
    <3>1. served' = [served EXCEPT ![c] = IF whole'[c] THEN @ + 1 ELSE @]
      BY <1>5 DEF Read
    <3> QED BY <1>1, <3>1 DEF ChildOK
  <2>3. got' \in [Clients -> Seq(Gets)]
    <3>1. got' = [got EXCEPT ![c] = <<>>]
      BY <1>5 DEF Read
    <3> QED BY <1>1, <3>1 DEF ChildOK
  <2>4. res' = res
    BY <1>5 DEF Read
  <2> QED BY <1>1, <1>5, <2>1, <2>2, <2>3, <2>4, RequestTyped DEF ChildOK
<1>6. ASSUME NEW c \in Clients, ReadEnds(c) \/ Crash(c) \/ End(c) PROVE ChildOK'
  <2>1. child' \in [Clients -> States]
    BY <1>3, <1>6 DEF ReadEnds, Crash, End
  <2> QED BY <1>1, <1>6, <2>1 DEF ReadEnds, Crash, End, ChildOK, ReqOK
<1>7. ASSUME NEW c \in Clients, Answer(c) PROVE ChildOK'
  <2>1. child' \in [Clients -> States]
    BY <1>3, <1>7 DEF Answer
  <2>2. res' \in [Clients -> Results]
    BY <1>1, <1>7, ResponsesAre DEF Answer, ChildOK
  <2> QED BY <1>1, <1>7, <2>1, <2>2 DEF Answer, ChildOK, ReqOK
<1>8. ASSUME NEW c \in Clients, Respond(c) PROVE ChildOK'
  <2>1. child' \in [Clients -> States]
    BY <1>3, <1>8 DEF Respond
  <2>2. Sent(c) \in Gets /\ Part \in Gets /\ got[c] \in Seq(Gets)
    BY <1>1 DEF Sent, Gets, ChildOK
  <2>3. Append(got[c], Sent(c)) \in Seq(Gets) /\ got[c] \o Cut(Sent(c)) \in Seq(Gets)
    <3>1. Cut(Sent(c)) \in Seq(Gets)
      BY <2>2 DEF Cut
    <3> QED BY <2>2, <3>1
  <2>4. got' \in [Clients -> Seq(Gets)] /\ whole' \in [Clients -> BOOLEAN]
    BY <1>1, <1>8, <2>3 DEF Respond, ChildOK
  <2> QED BY <1>1, <1>8, <2>1, <2>4 DEF Respond, ChildOK, ReqOK
<1>9. ASSUME NEW c \in Clients, RespondFails(c) PROVE ChildOK'
  <2>1. child' \in [Clients -> States]
    BY <1>3, <1>9 DEF RespondFails
  <2>2. res' \in [Clients -> Results] /\ whole' \in [Clients -> BOOLEAN]
    BY <1>1, <1>9, ResponsesAre DEF RespondFails, ChildOK
  <2> QED BY <1>1, <1>9, <2>1, <2>2 DEF RespondFails, ChildOK, ReqOK
<1> QED BY <1>2, <1>4, <1>5, <1>6, <1>7, <1>8, <1>9
    DEF Next, ParentStep, ChildStep, AddressFails, AddressBound, SocketThrows, Listen,
        InitClient, ForkFails, Destroy, DestroyServer, SensorOpens, Leave, Accept, Connect, Send,
        Close

LEMMA NextShape == Shape /\ [Next]_vars => Shape'
<1>1. ASSUME Shape, Next PROVE Shape'
  BY <1>1, ParentTyped, WireTyped, ChildTyped DEF Shape
<1>2. ASSUME Shape, UNCHANGED vars PROVE Shape'
  BY <1>2 DEF Shape, ParentOK, WireOK, ChildOK, ReqOK, vars, parentVars, wireVars, childVars
<1> QED BY <1>1, <1>2

LEMMA Shaped == Spec => []Shape
BY InitShape, NextShape, PTL DEF Spec

\* Every variable keeps its type: requests and answers of any client.
THEOREM Typed == Spec => []TypeOK
<1>1. Shape => TypeOK
  BY ResponsesAre DEF Shape, ParentOK, WireOK, ChildOK, ReqOK, TypeOK
<1> QED BY <1>1, Shaped, PTL
-----------------------------------------------------------------------------
(***************************************************************************)
(* Connections and descriptors.                                            *)
(***************************************************************************)
\* A connection stays open only while a child has it, or while the parent is
\* about to give it to one (Socket::close, Server::start), in any interleaving
\* of the clients, whatever fails.
THEOREM OpenIsServed == Spec => []EndsAreSeen
<1>1. Init => EndsAreSeen
  BY DEF Init, EndsAreSeen
<1>2. ASSUME Shape, EndsAreSeen, Next PROVE EndsAreSeen'
  <2>1. /\ conn \in [Clients -> {"none", "queued", "open", "closed", "shut"}]
        /\ current \in Clients
        /\ child \in [Clients -> {"none", "read", "answer", "respond", "again", "close", "gone",
                                  "crashed"}]
    BY <1>2 DEF Shape, ParentOK, WireOK, ChildOK
  <2>2. CASE InitClient \/ ForkFails
    <3>1. \A c \in Clients : conn'[c] = "open" => conn[c] = "open" /\ (c # current \/ server' = "fork")
      BY <2>1, <2>2 DEF InitClient, ForkFails, Refuse, Shut, Parent
    <3>2. child' = child /\ current' = current
      BY <2>2 DEF InitClient, ForkFails, childVars
    <3> QED BY <1>2, <3>1, <3>2 DEF EndsAreSeen
  <2>3. CASE Fork
    BY <1>2, <2>1, <2>3 DEF Fork, EndsAreSeen, wireVars
  <2>4. CASE \/ AddressFails \/ AddressBound \/ SocketThrows \/ Listen \/ Destroy
             \/ DestroyServer \/ SensorOpens
    BY <1>2, <2>4 DEF AddressFails, AddressBound, SocketThrows, Listen, Destroy, DestroyServer,
                      SensorOpens, EndsAreSeen, Parent, wireVars, childVars
  <2>5. CASE Leave
    BY <1>2, <2>1, <2>5 DEF Leave, EndsAreSeen, Parent, childVars
  <2>6. ASSUME NEW c \in Clients, Accept(c) PROVE EndsAreSeen'
    <3>1. /\ server = "accept" /\ server' = "init" /\ current' = c
          /\ conn' = [conn EXCEPT ![c] = "open"] /\ child' = child
      BY <2>6 DEF Accept, Parent, childVars
    <3> QED BY <1>2, <2>1, <3>1 DEF EndsAreSeen
  <2>7. ASSUME NEW c \in Clients, Connect(c) \/ Send(c) \/ Close(c) PROVE EndsAreSeen'
    BY <1>2, <2>1, <2>7 DEF Connect, Send, Close, EndsAreSeen, parentVars, childVars
  <2>8. ASSUME NEW c \in Clients, ChildStep(c) PROVE EndsAreSeen'
    <3>1. UNCHANGED parentVars
      BY <2>8 DEF ChildStep, Read, ReadEnds, Answer, Respond, RespondFails, Crash, End
    <3>2. CASE End(c)
      BY <1>2, <2>1, <3>1, <3>2 DEF End, Shut, To, EndsAreSeen, parentVars
    <3>3. CASE ~End(c)
      <4>1. conn' = conn /\ \E to \in {"read", "answer", "respond", "again", "close", "crashed"} :
                               child' = [child EXCEPT ![c] = to]
        BY <2>8, <3>3 DEF ChildStep, Read, ReadEnds, Answer, Respond, RespondFails, Crash, To,
                          wireVars
      <4> QED BY <1>2, <2>1, <3>1, <4>1 DEF EndsAreSeen, parentVars
    <3> QED BY <3>2, <3>3
  <2> QED BY <1>2, <2>2, <2>3, <2>4, <2>5, <2>6, <2>7, <2>8 DEF Next, ParentStep
<1>3. ASSUME EndsAreSeen, UNCHANGED vars PROVE EndsAreSeen'
  BY <1>3 DEF EndsAreSeen, vars, parentVars, wireVars, childVars
<1> QED BY <1>1, <1>2, <1>3, Shaped, PTL DEF Spec

\* Before the socket is bound nothing is open but what inet_ntop left; until
\* start ends the listener is open at its number and the client accepted last
\* at its own, unless the parent has closed it: then that number is free, or
\* the sensor's by now. So is the listener's number after start has closed it.
Descriptors ==
    /\ server \in {"construct", "thrown"} => \A n \in Fds : fds[n] \in {Free, "lost"}
    /\ server \in {"construct", "thrown", "listen"} => sockfd = 0
    /\ server \in {"construct", "thrown", "listen", "accept", "init", "fork"} => strays = {}
    /\ server \in {"listen", "accept", "init", "fork"} => fds[socket] = "listener"
    /\ server \in {"init", "fork"} => ~refused
    /\ server \in {"accept", "init", "fork", "destroy"} /\ sockfd # 0 =>
          IF refused THEN fds[sockfd] \in {Free, "sensor"} ELSE fds[sockfd] = current
    /\ server \in {"destroy", "join"} /\ sockfd # 0 => fds[socket] \in {Free, "sensor"}
    /\ \A s \in strays :
          /\ s.by # "start"
          /\ s.by = "client_socket" => refused \/ sockfd = 0
          /\ s.of \in {Free, "sensor"} \/ sockfd = 0

\* Server::start closes nothing but its own, and its listener stays open while
\* it accepts; the destructors hit nothing that is in use but the sensor's
\* device, and when (socket.cpp, server.cpp), for any clients and descriptors.
THEOREM StraysAre == Spec => []StrayCloses
<1>1. Init => Descriptors
  BY DEF Init, Descriptors, Free
<1>2. ASSUME Shape, Descriptors, Next PROVE Descriptors'
  <2>1. /\ fds \in [Fds -> Owners] /\ current \in Clients /\ sockfd \in 0 .. MaxFds
        /\ Fds = 1 .. MaxFds /\ (sockfd # 0 => sockfd \in Fds)
        /\ \A c \in Clients : c \notin {Free, "free", "listener", "lost", "sensor"}
        /\ server \notin {"construct", "thrown"} => socket \in Fds
        /\ server \in {"init", "fork"} => sockfd \in Fds
    BY <1>2, ConnectionAssumption DEF Shape, ParentOK, Fds, Free
  <2>2. FreeFds # {} => Lowest \in Fds /\ fds[Lowest] = Free
    BY LowestIs
  <2>3. CASE AddressFails
    <3>1. \A f : LeftBy(f) \in {Free, "lost"}
      BY DEF LeftBy
    <3>2. server = "construct" /\ server' = "construct" /\ UNCHANGED <<sockfd, strays>>
      BY <2>3 DEF AddressFails, Parent
    <3>3. \A n \in Fds : fds'[n] \in {Free, "lost"}
      BY <1>2, <2>1, <2>2, <2>3, <3>1, <3>2 DEF AddressFails, Descriptors
    <3> QED BY <1>2, <3>2, <3>3 DEF Descriptors
  <2>4. CASE AddressBound
    <3>1. /\ server = "construct" /\ server' = "listen" /\ UNCHANGED <<sockfd, strays>>
          /\ socket' = Lowest /\ Lowest \in Fds /\ fds' = [fds EXCEPT ![Lowest] = "listener"]
      BY <2>2, <2>4 DEF AddressBound, Parent
    <3>2. fds'[socket'] = "listener"
      BY <2>1, <3>1
    <3> QED BY <1>2, <3>1, <3>2 DEF Descriptors
  <2>5. CASE SocketThrows \/ Listen
    BY <1>2, <2>5 DEF SocketThrows, Listen, Parent, Descriptors
  <2>6. CASE InitClient \/ Fork \/ ForkFails
    <3>1. /\ server \in {"init", "fork"} /\ server' \in {"accept", "fork"}
          /\ UNCHANGED <<socket, sockfd, current>>
      BY <2>6 DEF InitClient, Fork, ForkFails, Parent
    <3>2. CASE UNCHANGED <<fds, refused, strays>>
      BY <1>2, <3>1, <3>2 DEF Descriptors
    <3>3. CASE Refuse /\ server' = "accept"
      <4>1. Closes("start", sockfd, current) /\ refused' = TRUE
        BY <3>3 DEF Refuse
      <4>2. fds[sockfd] = current /\ fds[socket] = "listener" /\ strays = {} /\ sockfd \in Fds
            /\ socket \in Fds
        BY <1>2, <2>1, <3>1 DEF Descriptors
      <4>3. strays' = {} /\ fds' = [fds EXCEPT ![sockfd] = Free]
        BY <4>1, <4>2 DEF Closes
      <4>4. fds'[sockfd] = Free /\ fds'[socket] = "listener"
        BY <2>1, <4>2, <4>3
      <4> QED BY <3>1, <3>3, <4>1, <4>3, <4>4 DEF Descriptors
    <3> QED BY <2>6, <3>2, <3>3 DEF InitClient, Fork, ForkFails, Parent
  <2>7. CASE Leave
    <3>1. /\ server = "accept" /\ server' = "destroy" /\ Closes("start", socket, "listener")
          /\ UNCHANGED <<socket, sockfd, current, refused>>
      BY <2>7 DEF Leave, Parent
    <3>2. fds[socket] = "listener" /\ socket \in Fds /\ strays = {}
      BY <1>2, <2>1, <3>1 DEF Descriptors
    <3>3. strays' = {} /\ fds' = [fds EXCEPT ![socket] = Free]
      BY <3>1, <3>2 DEF Closes
    <3>4. fds'[socket] = Free
      BY <2>1, <3>2, <3>3
    <3>5. sockfd # 0 => fds'[sockfd] = fds[sockfd] /\ fds[sockfd] # "listener"
      <4>1. sockfd # 0 => fds[sockfd] \in {Free, "sensor", current}
        BY <1>2, <3>1 DEF Descriptors
      <4>2. sockfd # 0 => fds[sockfd] # "listener"
        BY <2>1, <4>1 DEF Free
      <4> QED BY <2>1, <3>2, <3>3, <4>2
    <3> QED BY <1>2, <3>1, <3>3, <3>4, <3>5 DEF Descriptors
  <2>8. CASE Destroy
    <3>1. PICK n \in IF sockfd = 0 THEN Fds ELSE {sockfd} : Closes("client_socket", n, current)
      BY <2>8 DEF Destroy
    <3>2. /\ server = "destroy" /\ server' = "join" /\ UNCHANGED <<socket, sockfd, current, refused>>
      BY <2>8 DEF Destroy, Parent
    <3>3. n \in Fds /\ fds' = [fds EXCEPT ![n] = Free]
      BY <2>1, <3>1 DEF Closes
    <3>4. sockfd # 0 => fds'[socket] \in {Free, "sensor"}
      <4>1. socket \in Fds
        BY <2>1, <3>2
      <4> QED BY <1>2, <2>1, <3>2, <3>3, <4>1 DEF Descriptors
    <3>5. sockfd # 0 => n = sockfd /\ fds[n] \in {Free, "sensor", current}
                        /\ (~refused => fds[n] = current)
      BY <1>2, <3>1, <3>2 DEF Descriptors
    <3>6. ASSUME NEW s \in strays'
          PROVE  /\ s.by # "start" /\ (s.by = "client_socket" => refused \/ sockfd = 0)
                 /\ s.of \in {Free, "sensor"} \/ sockfd = 0
      <4>1. s \in strays \/ (fds[n] # current /\ s = [by |-> "client_socket", of |-> fds[n]])
        BY <3>1, <3>6 DEF Closes
      <4>2. CASE s \in strays
        BY <1>2, <4>2 DEF Descriptors
      <4>3. CASE fds[n] # current /\ s = [by |-> "client_socket", of |-> fds[n]]
        BY <3>5, <4>3
      <4> QED BY <4>1, <4>2, <4>3
    <3> QED BY <3>2, <3>4, <3>6 DEF Descriptors
  <2>9. CASE DestroyServer
    <3>1. /\ server = "join" /\ server' = "done" /\ Closes("socket", socket, "listener")
          /\ UNCHANGED <<socket, sockfd, current, refused>>
      BY <2>9 DEF DestroyServer, Parent
    <3>2. ASSUME NEW s \in strays'
          PROVE  /\ s.by # "start" /\ (s.by = "client_socket" => refused \/ sockfd = 0)
                 /\ s.of \in {Free, "sensor"} \/ sockfd = 0
      <4>1. s \in strays \/ s = [by |-> "socket", of |-> fds[socket]]
        BY <3>1, <3>2 DEF Closes
      <4>2. CASE s \in strays
        BY <1>2, <4>2 DEF Descriptors
      <4>3. CASE s = [by |-> "socket", of |-> fds[socket]]
        BY <1>2, <3>1, <4>3 DEF Descriptors
      <4> QED BY <4>1, <4>2, <4>3
    <3> QED BY <3>1, <3>2 DEF Descriptors
  <2>10. CASE SensorOpens
    <3>1. PICK n \in FreeFds : fds' = [fds EXCEPT ![n] = "sensor"]
      BY <2>10 DEF SensorOpens
    <3>2. /\ server \notin {"construct", "thrown", "done"}
          /\ UNCHANGED <<server, socket, sockfd, current, refused, strays>>
      BY <2>10 DEF SensorOpens
    <3>3. n \in Fds /\ fds[n] = Free
      BY DEF FreeFds
    <3>4. \A i \in Fds : fds'[i] = fds[i] \/ (fds[i] = Free /\ fds'[i] = "sensor")
      BY <2>1, <3>1, <3>3
    <3>5. fds[socket] = "listener" => fds'[socket] = "listener"
      BY <2>1, <3>2, <3>4 DEF Free
    <3>6. fds[socket] \in {Free, "sensor"} => fds'[socket] \in {Free, "sensor"}
      BY <2>1, <3>2, <3>4
    <3>7. sockfd # 0 => /\ fds[sockfd] = current => fds'[sockfd] = current
                        /\ fds[sockfd] \in {Free, "sensor"} => fds'[sockfd] \in {Free, "sensor"}
      BY <2>1, <3>4
    <3> QED BY <1>2, <3>2, <3>5, <3>6, <3>7 DEF Descriptors
  <2>11. ASSUME NEW c \in Clients, Accept(c) PROVE Descriptors'
    <3>1. /\ server = "accept" /\ server' = "init" /\ sockfd' = Lowest /\ current' = c
          /\ fds' = [fds EXCEPT ![Lowest] = c] /\ Lowest \in Fds /\ fds[Lowest] = Free
          /\ refused' = FALSE /\ UNCHANGED <<socket, strays>>
      BY <2>2, <2>11 DEF Accept, Parent
    <3>2. fds'[socket] = "listener" /\ fds'[sockfd'] = c /\ strays = {}
      BY <1>2, <2>1, <3>1 DEF Descriptors, Free
    <3> QED BY <3>1, <3>2 DEF Descriptors
  <2>12. CASE UNCHANGED parentVars
    BY <1>2, <2>12 DEF parentVars, Descriptors
  <2>13. ASSUME NEW c \in Clients, Connect(c) \/ Send(c) \/ Close(c) \/ ChildStep(c)
         PROVE  UNCHANGED parentVars
    BY <2>13 DEF ChildStep, Connect, Send, Close, Read, ReadEnds, Answer, Respond,
                 RespondFails, Crash, End
  <2> QED BY <1>2, <2>3, <2>4, <2>5, <2>6, <2>7, <2>8, <2>9, <2>10, <2>11, <2>12, <2>13
      DEF Next, ParentStep
<1>3. ASSUME Descriptors, UNCHANGED vars PROVE Descriptors'
  BY <1>3 DEF vars, parentVars, Descriptors
<1>4. Descriptors => StrayCloses
  BY DEF Descriptors, StrayCloses
<1> QED BY <1>1, <1>2, <1>3, <1>4, Shaped, PTL DEF Spec
-----------------------------------------------------------------------------
(***************************************************************************)
(* Answers.                                                                *)
(***************************************************************************)
\* The request the child read last, and whether an answer is one to it.
LastRead(c) == asked[c][served[c]]
ToIt(c)    == Answers(Asks(LastRead(c)))
Matches(c, a) == \/ a \in ToIt(c)
                 \/ /\ \E b \in ToIt(c) : b.route \in Missing
                    /\ a \in {Junk, response_not_found}

Busy(c) == child[c] \in {"answer", "respond", "again"}

\* A read throws away what came of the request before; then the HttpRequest is
\* the one just read, and the HttpResponse an answer to it, or the page that is
\* sent when a file is missing.
InAnswer(c) ==
    /\ served[c] <= Len(asked[c])
    /\ Busy(c) => got[c] = <<>>
    /\ whole[c] /\ (Busy(c) \/ got[c] # <<>>) => served[c] >= 1
    /\ whole[c] /\ Busy(c) => req[c] = Asks(LastRead(c))
    /\ whole[c] /\ child[c] = "respond" => res[c] \in ToIt(c)
    /\ whole[c] /\ child[c] = "again"   => res[c] = response_not_found
                                           /\ \E b \in ToIt(c) : b.route \in Missing
    /\ whole[c] /\ got[c] # <<>> => Matches(c, got[c][1])

InAnswers == \A c \in Clients : InAnswer(c)

LEMMA AnswerTypes ==
    ASSUME Shape
    PROVE  \A c \in Clients :
              /\ asked[c] \in Seq(Requests) /\ stream[c] \in Seq(STRING)
              /\ served[c] \in Nat /\ whole[c] \in BOOLEAN /\ got[c] \in Seq(Gets)
BY DEF Shape, WireOK, ChildOK

\* Nothing happened to an answer, or its child went on to something else.
LEMMA AnswerKept ==
    ASSUME NEW c, InAnswer(c), served[c] \in Nat, Len(asked[c]) <= Len(asked'[c]),
           Len(asked[c]) \in Nat, Len(asked'[c]) \in Nat,
           served[c] >= 1 => asked'[c][served[c]] = asked[c][served[c]],
           served'[c] = served[c], whole'[c] = whole[c], got'[c] = got[c],
           Busy(c)' => child'[c] = child[c] /\ req'[c] = req[c] /\ res'[c] = res[c]
    PROVE  InAnswer(c)'
<1>1. Busy(c)' => Busy(c)
  BY DEF Busy
<1>2. whole[c] /\ (Busy(c) \/ got[c] # <<>>) => LastRead(c)' = LastRead(c)
  BY DEF InAnswer, LastRead
<1>3. whole[c] /\ (Busy(c) \/ got[c] # <<>>) => ToIt(c)' = ToIt(c)
  BY <1>2 DEF ToIt
<1>4. child'[c] \in {"respond", "again"} => Busy(c)' /\ Busy(c) /\ child'[c] = child[c]
  BY <1>1 DEF Busy
<1> QED BY <1>1, <1>2, <1>3, <1>4 DEF InAnswer, Matches

LEMMA SendKeeps ==
    ASSUME Shape, InAnswers, NEW c \in Clients, Send(c) PROVE InAnswers'
<1>1. PICK r \in Requests : asked' = [asked EXCEPT ![c] = Append(@, r)]
  BY DEF Send
<1>2. asked \in [Clients -> Seq(Requests)]
  BY DEF Shape, WireOK
<1>3. asked'[c] = Append(asked[c], r) /\ \A d \in Clients : d # c => asked'[d] = asked[d]
  BY <1>1, <1>2
<1>4. UNCHANGED childVars
  BY DEF Send
<1>5. ASSUME NEW d \in Clients PROVE InAnswer(d)'
  <2>1. InAnswer(d) /\ served[d] \in Nat /\ asked[d] \in Seq(Requests) /\ served[d] <= Len(asked[d])
    BY AnswerTypes DEF InAnswers, InAnswer
  <2>2. /\ Len(asked[d]) <= Len(asked'[d]) /\ Len(asked[d]) \in Nat /\ Len(asked'[d]) \in Nat
        /\ served[d] >= 1 => asked'[d][served[d]] = asked[d][served[d]]
    <3>1. CASE d = c
      BY <1>3, <2>1, <3>1
    <3>2. CASE d # c
      BY <1>3, <2>1, <3>2
    <3> QED BY <3>1, <3>2
  <2> QED BY <1>4, <2>1, <2>2, AnswerKept DEF childVars, Busy
<1> QED BY <1>5 DEF InAnswers

\* A step of one child: the other answers are as they were.
LEMMA OthersKept ==
    ASSUME Shape, InAnswers, NEW c \in Clients, asked' = asked,
           \A d \in Clients \ {c} : /\ served'[d] = served[d] /\ whole'[d] = whole[d]
                                    /\ got'[d] = got[d] /\ child'[d] = child[d]
                                    /\ req'[d] = req[d] /\ res'[d] = res[d],
           InAnswer(c)'
    PROVE  InAnswers'
<1>1. ASSUME NEW d \in Clients \ {c} PROVE InAnswer(d)'
  <2>1. InAnswer(d) /\ served[d] \in Nat /\ Len(asked[d]) \in Nat
    BY AnswerTypes DEF InAnswers
  <2> QED BY <2>1, AnswerKept
<1> QED BY <1>1 DEF InAnswers

LEMMA ReadKeeps ==
    ASSUME RequestLines, Shape, InAnswers, NEW c \in Clients, Read(c) PROVE InAnswers'
<1>1. PICK n \in 1 .. Len(stream[c]) :
           LET read == SubSeq(stream[c], 1, n)
           IN  /\ read \in Seq(STRING)
               /\ \E text \in Texts(read) :
                     /\ whole' = [whole EXCEPT ![c] =
                                     @ /\ served[c] < Len(asked[c])
                                       /\ read = asked[c][served[c] + 1]]
                     /\ \/ To(c, "close") /\ UNCHANGED req
                        \/ To(c, "answer") /\ req' = [req EXCEPT ![c] = Request(@, text)]
  BY ReadIs
<1> DEFINE read == SubSeq(stream[c], 1, n)
<1>2. read \in Seq(STRING)
  BY <1>1
<1>3. PICK text \in Texts(read) :
         /\ whole' = [whole EXCEPT ![c] = @ /\ served[c] < Len(asked[c])
                                            /\ read = asked[c][served[c] + 1]]
         /\ \/ To(c, "close") /\ UNCHANGED req
            \/ To(c, "answer") /\ req' = [req EXCEPT ![c] = Request(@, text)]
  BY <1>1
<1> HIDE DEF read
<1>4. /\ asked' = asked /\ res' = res /\ got' = [got EXCEPT ![c] = <<>>]
      /\ served' = [served EXCEPT ![c] = IF whole'[c] THEN @ + 1 ELSE @]
  BY DEF Read
<1>5. /\ child \in [Clients -> {"none", "read", "answer", "respond", "again", "close", "gone",
                                "crashed"}]
      /\ served \in [Clients -> Nat] /\ whole \in [Clients -> BOOLEAN]
      /\ got \in [Clients -> Seq(Gets)] /\ req = [d \in Clients |-> req[d]]
      /\ asked[c] \in Seq(Requests) /\ served[c] <= Len(asked[c])
  <2>1. req = [d \in Clients |-> req[d]]
    BY DEF Shape, ChildOK, ReqOK
  <2> QED BY <2>1, AnswerTypes DEF Shape, ChildOK, InAnswers, InAnswer
<1>6. got'[c] = <<>>
  BY <1>4, <1>5
<1>7. ASSUME NEW d \in Clients \ {c}
      PROVE  /\ served'[d] = served[d] /\ whole'[d] = whole[d]
             /\ got'[d] = got[d] /\ child'[d] = child[d]
             /\ req'[d] = req[d] /\ res'[d] = res[d]
  <2>1. req'[d] = req[d] /\ child'[d] = child[d]
    BY <1>3, <1>5 DEF To
  <2> QED BY <1>3, <1>4, <1>5, <2>1
<1>8. CASE ~whole'[c]
  <2>1. served'[c] = served[c] /\ asked'[c] = asked[c]
    BY <1>4, <1>5, <1>8
  <2>2. InAnswer(c)'
    BY <1>5, <1>6, <1>8, <2>1 DEF InAnswer
  <2> QED BY <1>4, <1>7, <2>2, OthersKept
<1>9. CASE whole'[c]
  <2>1. /\ served[c] < Len(asked[c]) /\ read = asked[c][served[c] + 1]
        /\ served'[c] = served[c] + 1 /\ served[c] \in Nat /\ Len(asked[c]) \in Nat
    <3> DEFINE now == whole[c] /\ served[c] < Len(asked[c]) /\ read = asked[c][served[c] + 1]
    <3>1. whole' = [whole EXCEPT ![c] = now]
      BY <1>3
    <3> HIDE DEF now
    <3>2. now
      BY <1>5, <1>9, <3>1
    <3>3. served'[c] = served[c] + 1
      BY <1>4, <1>5, <1>9
    <3> QED BY <1>5, <3>2, <3>3 DEF now
  <2>2. read \in Requests
    <3>1. served[c] + 1 \in 1 .. Len(asked[c])
      BY <2>1
    <3> QED BY <1>5, <2>1, <3>1, ElementOfSeq
  <2>3. LastRead(c)' = read
    BY <1>4, <2>1 DEF LastRead
  <2>4. /\ text \in Seq(STRING) /\ Len(read) <= Len(text)
        /\ \A i \in 1 .. Len(read) : text[i] = read[i]
    BY <1>2, <1>3, TextsAre
  <2>5. Parsed(req[c], text) = Asks(read)
    BY <2>2, <2>4, ParsedIs
  <2>6. Busy(c)' => child'[c] = "answer" /\ req'[c] = Asks(read)
    <3>1. CASE To(c, "close")
      <4>1. child'[c] = "close"
        BY <1>5, <3>1 DEF To
      <4> QED BY <4>1 DEF Busy
    <3>2. CASE To(c, "answer") /\ req' = [req EXCEPT ![c] = Request(@, text)]
      <4>1. child'[c] = "answer"
        BY <1>5, <3>2 DEF To
      <4>2. req'[c] = Request(req[c], text)
        BY <1>5, <3>2
      <4> QED BY <2>5, <4>1, <4>2 DEF Request
    <3> QED BY <1>3, <3>1, <3>2
  <2>7. child'[c] \in {"respond", "again"} => Busy(c)'
    BY DEF Busy
  <2>8. InAnswer(c)'
    BY <1>4, <1>6, <2>1, <2>3, <2>6, <2>7 DEF InAnswer
  <2> QED BY <1>4, <1>7, <2>8, OthersKept
<1>10. whole'[c] \in BOOLEAN
  BY RequestTyped
<1> QED BY <1>8, <1>9, <1>10

\* A child whose read has ended answers nothing any more.
LEMMA LeavingKeeps ==
    ASSUME Shape, InAnswers, NEW c \in Clients, asked' = asked, UNCHANGED <<res, served, whole, got>>,
           child' = [child EXCEPT ![c] = child'[c]], ~Busy(c)',
           \A d \in Clients \ {c} : req'[d] = req[d]
    PROVE  InAnswers'
<1>1. \A d \in Clients \ {c} : child'[d] = child[d]
  BY DEF Shape, ChildOK
<1>2. InAnswer(c)'
  BY AnswerKept, AnswerTypes DEF InAnswers
<1> QED BY <1>1, <1>2, OthersKept

LEMMA AnswerKeeps ==
    ASSUME Shape, InAnswers, NEW c \in Clients, Answer(c) PROVE InAnswers'
<1>1. /\ child[c] = "answer" /\ child' = [child EXCEPT ![c] = "respond"]
      /\ \E a \in Answers(req[c]) : res' = [res EXCEPT ![c] = a]
      /\ UNCHANGED <<asked, req, served, whole, got>>
  BY DEF Answer, To, wireVars
<1>2. /\ child' [c] = "respond" /\ res'[c] \in Answers(req[c])
      /\ \A d \in Clients \ {c} : child'[d] = child[d] /\ res'[d] = res[d]
  BY <1>1 DEF Shape, ChildOK
<1>3. Busy(c) /\ Busy(c)' /\ InAnswer(c)
  BY <1>1, <1>2 DEF Busy, InAnswers
<1>4. LastRead(c)' = LastRead(c) /\ ToIt(c)' = ToIt(c)
  BY <1>1 DEF LastRead, ToIt
<1>5. whole[c] => Answers(req[c]) = ToIt(c)
  BY <1>3 DEF InAnswer, ToIt
<1>6. InAnswer(c)'
  BY <1>1, <1>2, <1>3, <1>4, <1>5 DEF InAnswer
<1> QED BY <1>1, <1>2, <1>6, OthersKept

LEMMA RespondKeeps ==
    ASSUME Shape, InAnswers, NEW c \in Clients, Respond(c) PROVE InAnswers'
<1>1. /\ child[c] \in {"respond", "again"} /\ child' = [child EXCEPT ![c] = "read"]
      /\ \/ got' = [got EXCEPT ![c] = Append(@, Sent(c))] /\ UNCHANGED whole
         \/ /\ got' = [got EXCEPT ![c] = @ \o Cut(Sent(c))]
            /\ whole' = [whole EXCEPT ![c] = FALSE]
      /\ UNCHANGED <<asked, req, res, served>>
  BY DEF Respond, To, wireVars
<1>2. /\ child'[c] = "read"
      /\ \A d \in Clients \ {c} : /\ child'[d] = child[d] /\ whole'[d] = whole[d]
                                  /\ got'[d] = got[d]
      /\ \/ got'[c] = Append(got[c], Sent(c)) /\ whole'[c] = whole[c]
         \/ whole'[c] = FALSE
  <2>1. /\ child \in [Clients -> {"none", "read", "answer", "respond", "again", "close", "gone",
                                  "crashed"}]
        /\ whole \in [Clients -> BOOLEAN] /\ got \in [Clients -> Seq(Gets)]
    BY DEF Shape, ChildOK
  <2> QED BY <1>1, <2>1
<1>3. Busy(c) /\ ~Busy(c)' /\ InAnswer(c)
  BY <1>1, <1>2 DEF Busy, InAnswers
<1>4. LastRead(c)' = LastRead(c) /\ ToIt(c)' = ToIt(c)
  BY <1>1 DEF LastRead, ToIt
<1>5. CASE whole'[c] = FALSE
  <2>1. InAnswer(c)'
    BY <1>1, <1>2, <1>3, <1>5 DEF InAnswer
  <2> QED BY <1>1, <1>2, <2>1, OthersKept
<1>6. CASE got'[c] = Append(got[c], Sent(c)) /\ whole'[c] = whole[c]
  <2>1. got'[c][1] = Sent(c)
    <3>1. got[c] = <<>>
      BY <1>3 DEF InAnswer
    <3> QED BY <1>6, <3>1
  <2>2. whole[c] => Matches(c, Sent(c))
    <3>1. CASE child[c] = "respond"
      BY <1>3, <3>1 DEF InAnswer, Matches, Sent, NoFile
    <3>2. CASE child[c] = "again"
      BY <1>3, <3>2 DEF InAnswer, Matches, Sent
    <3> QED BY <1>1, <3>1, <3>2
  <2>3. InAnswer(c)'
    BY <1>1, <1>2, <1>3, <1>4, <1>6, <2>1, <2>2 DEF InAnswer, Matches
  <2> QED BY <1>1, <1>2, <2>3, OthersKept
<1> QED BY <1>2, <1>5, <1>6

LEMMA RespondFailsKeeps ==
    ASSUME Shape, InAnswers, NEW c \in Clients, RespondFails(c) PROVE InAnswers'
<1>1. /\ child[c] \in {"respond", "again"}
      /\ child' = [child EXCEPT ![c] = IF child[c] = "respond" THEN "again" ELSE "read"]
      /\ res' = [res EXCEPT ![c] = response_not_found]
      /\ whole' = [whole EXCEPT ![c] = @ /\ child[c] = "respond" /\ NoFile(c)]
      /\ UNCHANGED <<asked, req, served, got>>
  BY DEF RespondFails, To, wireVars
<1>2. /\ child'[c] = IF child[c] = "respond" THEN "again" ELSE "read"
      /\ res'[c] = response_not_found
      /\ whole'[c] <=> whole[c] /\ child[c] = "respond" /\ NoFile(c)
      /\ \A d \in Clients \ {c} : /\ child'[d] = child[d] /\ whole'[d] = whole[d]
                                  /\ res'[d] = res[d]
  <2>1. /\ child \in [Clients -> {"none", "read", "answer", "respond", "again", "close", "gone",
                                  "crashed"}]
        /\ whole \in [Clients -> BOOLEAN] /\ res \in [Clients -> Results]
    BY DEF Shape, ChildOK
  <2> QED BY <1>1, <2>1
<1>3. Busy(c) /\ InAnswer(c)
  BY <1>1 DEF Busy, InAnswers
<1>4. LastRead(c)' = LastRead(c) /\ ToIt(c)' = ToIt(c)
  BY <1>1 DEF LastRead, ToIt
<1>5. whole'[c] => child'[c] = "again" /\ \E b \in ToIt(c) : b.route \in Missing
  BY <1>2, <1>3 DEF InAnswer, NoFile
<1>6. InAnswer(c)'
  BY <1>1, <1>2, <1>3, <1>4, <1>5 DEF InAnswer
<1> QED BY <1>1, <1>2, <1>6, OthersKept

\* Of a request that a read returned whole, what the client gets is an answer
\* (on_accept, HttpRequest and Socket of the server): for any requests, and
\* whatever follows it on the stack, and whatever an earlier one left in the
\* HttpRequest.
THEOREM Answered == RequestLines => (Spec => []AnswersMatch)
<1> SUFFICES ASSUME RequestLines PROVE Spec => []AnswersMatch
  OBVIOUS
<1>1. Init => InAnswers
  BY DEF Init, InAnswers, InAnswer, Busy
<1>2. ASSUME Shape, InAnswers, Next PROVE InAnswers'
  <2>1. CASE UNCHANGED <<asked, childVars>>
    <3>1. ASSUME NEW c \in Clients PROVE InAnswer(c)'
      BY <1>2, <2>1, AnswerKept, AnswerTypes DEF InAnswers, childVars, Busy
    <3> QED BY <3>1 DEF InAnswers
  <2>2. CASE Fork
    <3>0. PICK c \in Clients : c = current
      BY <1>2 DEF Shape, ParentOK
    <3>1. /\ child' = [child EXCEPT ![c] = "read"]
          /\ \E m \in Methods : req' = [req EXCEPT ![c].method = m]
          /\ UNCHANGED <<asked, res, served, whole, got>>
      BY <2>2, <3>0 DEF Fork, wireVars
    <3>2. /\ child \in [Clients -> {"none", "read", "answer", "respond", "again", "close", "gone",
                                    "crashed"}]
          /\ req = [d \in Clients |-> req[d]]
      BY <1>2 DEF Shape, ChildOK, ReqOK
    <3>3. child'[c] = "read" /\ \A d \in Clients \ {c} : req'[d] = req[d]
      BY <3>1, <3>2
    <3>4. ~Busy(c)'
      BY <3>3 DEF Busy
    <3> QED BY <1>2, <3>1, <3>2, <3>3, <3>4, LeavingKeeps
  <2>3. ASSUME NEW c \in Clients, ReadEnds(c) \/ Crash(c) \/ End(c) PROVE InAnswers'
    <3>1. \E to \in {"close", "crashed", "gone"} : child' = [child EXCEPT ![c] = to]
      BY <2>3 DEF ReadEnds, Crash, End, To
    <3>2. child'[c] \in {"close", "crashed", "gone"} /\ child' = [child EXCEPT ![c] = child'[c]]
      BY <1>2, <3>1 DEF Shape, ChildOK
    <3>3. ~Busy(c)'
      BY <3>2 DEF Busy
    <3>4. UNCHANGED <<asked, req, res, served, whole, got>>
      BY <2>3 DEF ReadEnds, Crash, End, wireVars
    <3> QED BY <1>2, <3>2, <3>3, <3>4, LeavingKeeps
  <2>4. ASSUME NEW c \in Clients, Send(c) PROVE InAnswers'
    BY <1>2, <2>4, SendKeeps
  <2>5. ASSUME NEW c \in Clients, Read(c) \/ Answer(c) \/ Respond(c) \/ RespondFails(c)
        PROVE  InAnswers'
    BY <1>2, <2>5, ReadKeeps, AnswerKeeps, RespondKeeps, RespondFailsKeeps
  <2> QED BY <1>2, <2>1, <2>2, <2>3, <2>4, <2>5
      DEF Next, ParentStep, ChildStep, AddressFails, AddressBound, SocketThrows, Listen,
          InitClient, ForkFails, Destroy, DestroyServer, SensorOpens, Leave, Accept, Connect,
          Close, wireVars
<1>3. ASSUME Shape, InAnswers, UNCHANGED vars PROVE InAnswers'
  <2>1. ASSUME NEW c \in Clients PROVE InAnswer(c)'
    BY <1>3, AnswerKept, AnswerTypes DEF InAnswers, vars, wireVars, childVars, Busy
  <2> QED BY <2>1 DEF InAnswers
<1>4. InAnswers => AnswersMatch
  BY DEF InAnswers, InAnswer, AnswersMatch, Matches, ToIt, Asks, LastRead
<1> QED BY <1>1, <1>2, <1>3, <1>4, Shaped, PTL DEF Spec
=============================================================================
