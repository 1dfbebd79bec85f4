----------------------------- MODULE HttpClient -----------------------------
(***************************************************************************)
(* The HttpRequesters of util/http.go, shared by all download threads of   *)
(* both tasks, and their internalClients.  There is one requester for each *)
(* address of the IP pool, or a single one without a pool, and every       *)
(* thread picks one at random.  A thread that sees too many network        *)
(* failures disposes of its requester's client while other threads may be  *)
(* using it, and picks again; closing a client kills its connections, so   *)
(* the client counts its pending requests and is closed by whoever ends    *)
(* the last one.                                                           *)
(*                                                                         *)
(* The requests are those of downloadSegment (download/download.go): one   *)
(* for the segment, and, when that is answered by anything but 200, one    *)
(* more before the bodies of both are closed.  Each of them is tried       *)
(* RetryThreshold times by doRequest.                                      *)
(***************************************************************************)
EXTENDS Integers, FiniteSets, Sequences

CONSTANTS
  Thread,          \* the download threads
  Address,         \* those of the IP pool, or a single one: a requester each
  RetryThreshold,  \* tries of each request
  MaxClients,      \* bound: how many clients a requester ever creates
  MaxLoops         \* bound: how often the server redirects a client forever,
                   \* which it does to one client

ASSUME FiniteThreads == IsFiniteSet(Thread)
ASSUME RetryAssumption == RetryThreshold \in Nat \ {0}
ASSUME MaxClientsAssumption == MaxClients \in Nat \ {0}
ASSUME MaxLoopsAssumption == MaxLoops \in Nat

Client == Address \X (1 .. MaxClients)  \* the n-th client of a requester
NoClient == <<>>

VARIABLES
  current,      \* HttpRequester.client, as its number, or 0 for nil
  created,      \* how many clients each requester has created so far
  requester,    \* the one each thread has got from GetRequester
  shouldClose,  \* internalClient.shouldClose
  pending,      \* internalClient.pendingRequests
  closes,       \* history: how often doClose was called on each client
  dropped,      \* history: responses returned with an error, and dropped
  pc,           \* "between" two downloadSegments, "request" (in doRequest),
                \* "got" (Do has released the lock), "sent", "response",
                \* "closing" (downloadSegment returns)
  left,         \* tries left to doRequest
  using,        \* the client of a thread's Do call
  bodies        \* the clients of the response bodies a thread has open

threadVars == <<pc, left, using, bodies>>
vars == <<current, created, requester, shouldClose, pending, closes, dropped, threadVars>>

TypeOK ==
  /\ current \in [Address -> 0 .. MaxClients]
  /\ created \in [Address -> 0 .. MaxClients]
  /\ \A a \in Address : current[a] <= created[a]
  /\ requester \in [Thread -> Address]
  /\ shouldClose \in [Client -> BOOLEAN]
  /\ pending \in [Client -> Nat]
  /\ closes \in [Client -> Nat]
  /\ dropped \in [Client -> 0 .. MaxLoops]
  /\ pc \in [Thread -> {"between", "request", "got", "sent", "response",
                        "closing"}]
  /\ left \in [Thread -> 0 .. RetryThreshold]
  /\ using \in [Thread -> Client \cup {NoClient}]
  /\ \A t \in Thread : pc[t] \in {"got", "sent"} => using[t] \in Client
  /\ bodies \in [Thread -> Seq(Client)]

Init ==
  /\ current = [a \in Address |-> 0]
  /\ created = [a \in Address |-> 0]
  /\ requester \in [Thread -> Address]
  /\ shouldClose = [c \in Client |-> FALSE]
  /\ pending = [c \in Client |-> 0]
  /\ closes = [c \in Client |-> 0]
  /\ dropped = [c \in Client |-> 0]
  /\ pc = [t \in Thread |-> "between"]
  /\ left = [t \in Thread |-> 0]
  /\ using = [t \in Thread |-> NoClient]
  /\ bodies = [t \in Thread |-> <<>>]

----------------------------------------------------------------------------
(* downloadSegment and doRequest *)

(* downloadSegment makes its first request, or, after a response other     *)
(* than 200, the second one.                                               *)
BeginRequest(t) ==
  /\ \/ pc[t] = "between"
     \/ pc[t] = "response" /\ Len(bodies[t]) = 1
  /\ pc' = [pc EXCEPT ![t] = "request"]
  /\ left' = [left EXCEPT ![t] = RetryThreshold]
  /\ UNCHANGED <<current, created, requester, shouldClose, pending, closes, dropped,
                 using, bodies>>

(* downloadSegment returns: with what it has read from the body, after the *)
(* second response, or because all the tries of a request failed.          *)
Returns(t) ==
  /\ \/ pc[t] = "response"
     \/ pc[t] = "request" /\ left[t] = 0
  /\ pc' = [pc EXCEPT ![t] = "closing"]
  /\ UNCHANGED <<current, created, requester, shouldClose, pending, closes, dropped,
                 left, using, bodies>>

----------------------------------------------------------------------------
(* HttpRequester.Do and internalClient.do *)

(* Do, up to the release of its lock: the current client, or a new one.    *)
GetClient(t) ==
  LET a == requester[t]
  IN  /\ pc[t] = "request" /\ left[t] > 0
      /\ IF current[a] # 0 THEN UNCHANGED <<current, created>>
         ELSE /\ created' = [created EXCEPT ![a] = @ + 1]
              /\ current' = [current EXCEPT ![a] = created[a] + 1]
      /\ using' = [using EXCEPT ![t] = <<a, current'[a]>>]
      /\ left' = [left EXCEPT ![t] = @ - 1]
      /\ pc' = [pc EXCEPT ![t] = "got"]
      /\ UNCHANGED <<requester, shouldClose, pending, closes, dropped, bodies>>

(* A mutant: a closing client takes requests. *)
StartRequest_Always(t) ==
  /\ pc[t] = "got"
  /\ pending' = [pending EXCEPT ![using[t]] = @ + 1]
  /\ pc' = [pc EXCEPT ![t] = "sent"]
  /\ UNCHANGED <<current, created, requester, shouldClose, closes, dropped, left, using,
                 bodies>>

(* startRequest returns true.                                              *)
StartRequest(t) ==
  /\ pc[t] = "got"
  /\ ~shouldClose[using[t]]
  /\ pending' = [pending EXCEPT ![using[t]] = @ + 1]
  /\ pc' = [pc EXCEPT ![t] = "sent"]
  /\ UNCHANGED <<current, created, requester, shouldClose, closes, dropped, left, using,
                 bodies>>

(* Do returns an error, and doRequest goes on with its next try.           *)
Fails(t) ==
  /\ pc' = [pc EXCEPT ![t] = "request"]
  /\ using' = [using EXCEPT ![t] = NoClient]
  /\ UNCHANGED <<current, created, requester, shouldClose, left, bodies>>

(* startRequest returns false: another thread has disposed of the client   *)
(* since this one got hold of it.  Do returns closeRequested.              *)
CloseRequested(t) ==
  /\ pc[t] = "got"
  /\ shouldClose[using[t]]
  /\ Fails(t)
  /\ UNCHANGED <<pending, closes, dropped>>

(* A mutant: the last request does not close the client. *)
EndRequest_NeverCloses(c) ==
  /\ pending' = [pending EXCEPT ![c] = @ - 1]
  /\ UNCHANGED closes

(* endRequest, under the lock of the client.                               *)
EndRequest(c) ==
  /\ pending' = [pending EXCEPT ![c] = @ - 1]
  /\ closes' = IF shouldClose[c] /\ pending[c] = 1
               THEN [closes EXCEPT ![c] = @ + 1] ELSE closes

(* http.Client.Do returns no response.                                     *)
RequestFails(t) ==
  /\ pc[t] = "sent"
  /\ EndRequest(using[t])
  /\ Fails(t)
  /\ UNCHANGED dropped

(* http.Client.Do returns a response and an error, which it does after ten *)
(* redirects.  The body is wrapped in an endReader all the same, and       *)
(* doRequest drops the response: nobody ever closes it.                    *)
TooManyRedirects(t) ==
  /\ pc[t] = "sent"
  /\ dropped[using[t]] < MaxLoops
  /\ \A c \in Client \ {using[t]} : dropped[c] = 0
  /\ dropped' = [dropped EXCEPT ![using[t]] = @ + 1]
  /\ Fails(t)
  /\ UNCHANGED <<pending, closes>>

(* http.Client.Do returns a response, whose body becomes an endReader.     *)
Responds(t) ==
  /\ pc[t] = "sent"
  /\ bodies' = [bodies EXCEPT ![t] = Append(@, using[t])]
  /\ pc' = [pc EXCEPT ![t] = "response"]
  /\ using' = [using EXCEPT ![t] = NoClient]
  /\ UNCHANGED <<current, created, requester, shouldClose, pending, closes, dropped, left>>

(* endReader.Close: the deferred calls of downloadSegment close the last   *)
(* body first.                                                             *)
CloseBody(t) ==
  /\ pc[t] = "closing"
  /\ bodies[t] # <<>>
  /\ EndRequest(bodies[t][Len(bodies[t])])
  /\ bodies' = [bodies EXCEPT ![t] = SubSeq(@, 1, Len(@) - 1)]
  /\ UNCHANGED <<current, created, requester, shouldClose, dropped, pc, left, using>>

(* No body is open any more: the next iteration of downloadTask.           *)
Closed(t) ==
  /\ pc[t] = "closing"
  /\ bodies[t] = <<>>
  /\ pc' = [pc EXCEPT ![t] = "between"]
  /\ UNCHANGED <<current, created, requester, shouldClose, pending, closes, dropped,
                 left, using, bodies>>

----------------------------------------------------------------------------
(* HttpRequester.Dispose and HttpClient.GetRequester                       *)

(* startClose, under the lock of the client.                               *)
StartClose(c) ==
  /\ shouldClose' = [shouldClose EXCEPT ![c] = TRUE]
  /\ closes' = IF pending[c] = 0 THEN [closes EXCEPT ![c] = @ + 1] ELSE closes

(* A mutant: the disposed client stays the current one. *)
Dispose_KeepsClient(a) ==
  /\ created[a] < MaxClients
  /\ IF current[a] = 0 THEN UNCHANGED <<current, shouldClose, closes>>
     ELSE StartClose(<<a, current[a]>>) /\ UNCHANGED current

(* Dispose, under the lock of the requester; without a client it does      *)
(* nothing.  The bound keeps the last client from being disposed of.       *)
Dispose(a) ==
  /\ created[a] < MaxClients
  /\ IF current[a] = 0 THEN UNCHANGED <<current, shouldClose, closes>>
     ELSE StartClose(<<a, current[a]>>) /\ current' = [current EXCEPT ![a] = 0]

(* GetRequester: that of a random address, the same one for everybody.     *)
GetRequester(t) == \E a \in Address : requester' = [requester EXCEPT ![t] = a]

(* Between two attempts downloadTask replaces its client.                  *)
ReplaceClient(t) ==
  /\ pc[t] = "between"
  /\ Dispose(requester[t])
  /\ GetRequester(t)
  /\ UNCHANGED <<created, pending, dropped, threadVars>>

----------------------------------------------------------------------------

(* The steps of a thread within downloadSegment. *)
Downloads(t) ==
  \/ pc[t] # "between" /\ BeginRequest(t)
  \/ Returns(t)
  \/ GetClient(t)
  \/ StartRequest(t)
  \/ CloseRequested(t)
  \/ RequestFails(t)
  \/ TooManyRedirects(t)
  \/ Responds(t)
  \/ CloseBody(t)
  \/ Closed(t)

Next == \E t \in Thread : BeginRequest(t) \/ Downloads(t) \/ ReplaceClient(t)

Spec == Init /\ [][Next]_vars

(* downloadSegment does not stop half-way: a request is answered or fails  *)
(* in the end, which is up to the network, as requests have no deadline.   *)
(* Nothing forces a thread to begin another download or to replace its     *)
(* client.                                                                 *)
Fairness == \A t \in Thread : WF_vars(Downloads(t))

FairSpec == Spec /\ Fairness

----------------------------------------------------------------------------

(* Whether thread t has a request or a response of client c under way.     *)
Uses(t, c) ==
  \/ pc[t] = "sent" /\ using[t] = c
  \/ \E i \in 1 .. Len(bodies[t]) : bodies[t][i] = c

(* A client is never closed under a request or under a response that is    *)
(* still being read ("quic-go has no way to close the client without       *)
(* killing existing connections"), whoever disposes of it when.            *)
NotClosedInUse ==
  \A c \in Client : closes[c] > 0 => \A t \in Thread : ~Uses(t, c)

(* doClose is called at most once on a client, whoever comes to it: the    *)
(* thread that disposes of it or one of those that end their request.      *)
ClosedOnce == \A c \in Client : closes[c] <= 1

(* A client that was disposed of is closed in the end ("so instead closing *)
(* here only requests that it gets closed later"), by the last of the      *)
(* requests that were pending, unless one of its responses was dropped     *)
(* with its body unclosed: then the count never comes to 0.                *)
ClosedByLastRequest ==
  \A c \in Client : shouldClose[c] ~> closes[c] > 0 \/ dropped[c] > 0
=============================================================================
