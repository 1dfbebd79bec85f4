--------------------------- MODULE HttpClientProofs ---------------------------
(* A client is closed once, and not under a request or a response, for any  *)
(* number of threads, retries and clients.                                  *)
EXTENDS HttpClient, FiniteSetTheorems, TLAPS

(* Whether thread v has a request (i = 0) or its i-th open body of client c. *)
IsHeld(v, i, c) ==
  IF i = 0 THEN pc[v] = "sent" /\ using[v] = c
  ELSE i =< Len(bodies[v]) /\ bodies[v][i] = c

Place == {0, 1, 2}

(* The requests and responses of client c.                                  *)
Held(c) == {x \in Thread \X Place : IsHeld(x[1], x[2], c)}

(* How many bodies a thread has open.                                       *)
Shape ==
  \A t \in Thread :
    /\ Len(bodies[t]) =< 2
    /\ pc[t] = "between" => bodies[t] = <<>>
    /\ pc[t] \in {"request", "got", "sent"} => Len(bodies[t]) =< 1

(* pendingRequests counts those and the dropped ones.                       *)
Counted == \A c \in Client : pending[c] = Cardinality(Held(c)) + dropped[c]

(* A client was closed exactly if it was to be and nothing is pending.      *)
ClosedWhenIdle ==
  \A c \in Client : closes[c] = IF shouldClose[c] /\ pending[c] = 0 THEN 1 ELSE 0

(* The current clients, and those to come, were not disposed of.            *)
CurrentOpen ==
  \A a \in Address :
    /\ current[a] # 0 => ~shouldClose[<<a, current[a]>>]
    /\ current[a] = 0 => created[a] < MaxClients
    /\ \A n \in 1 .. MaxClients : n > created[a] => ~shouldClose[<<a, n>>]

Inv == TypeOK /\ Shape /\ Counted /\ ClosedWhenIdle /\ CurrentOpen

----------------------------------------------------------------------------

LEMMA Bounds == MaxClients \in Nat \ {0} /\ RetryThreshold \in Nat \ {0} /\ MaxLoops \in Nat
  BY MaxClientsAssumption, RetryAssumption, MaxLoopsAssumption

LEMMA ClientIsPair ==
  ASSUME NEW a \in Address, NEW n \in 1 .. MaxClients
  PROVE  <<a, n>> \in Client
  BY DEF Client

LEMMA NoClientIsNone == \A c \in Client : c # NoClient
  BY DEF Client, NoClient

LEMMA HeldFinite ==
  ASSUME NEW c \in Client
  PROVE  IsFiniteSet(Held(c)) /\ Cardinality(Held(c)) \in Nat
<1>1. IsFiniteSet({}) /\ Place = (({} \cup {0}) \cup {1}) \cup {2}
  BY FS_EmptySet DEF Place
<1>2. IsFiniteSet({} \cup {0})
  BY <1>1, FS_AddElement
<1>3. IsFiniteSet(({} \cup {0}) \cup {1})
  BY <1>2, FS_AddElement
<1>4. IsFiniteSet((({} \cup {0}) \cup {1}) \cup {2})
  BY <1>3, FS_AddElement
<1>5. IsFiniteSet(Thread \X Place)
  BY <1>1, <1>4, FiniteThreads, FS_Product
<1>6. Held(c) \in SUBSET (Thread \X Place)
  BY DEF Held
<1> QED
  BY <1>5, <1>6, FS_Subset, FS_CardinalityType

(* The initial states satisfy the invariant.                               *)
LEMMA InitInv == Init => Inv
<1> SUFFICES ASSUME Init PROVE Inv
  OBVIOUS
<1>1. TypeOK /\ Shape /\ ClosedWhenIdle /\ CurrentOpen
  BY Bounds, ClientIsPair DEF Init, TypeOK, Shape, ClosedWhenIdle, CurrentOpen
<1>2. ASSUME NEW c \in Client PROVE Held(c) = {}
  <2>1. \A v \in Thread, i \in Place : ~IsHeld(v, i, c)
    BY DEF Init, IsHeld, Place
  <2> QED
    BY <2>1 DEF Held
<1>3. ASSUME NEW c \in Client PROVE pending[c] = Cardinality(Held(c)) + dropped[c]
  <2>1. pending[c] = 0 /\ dropped[c] = 0
    BY DEF Init
  <2>2. Cardinality({}) = 0
    BY FS_EmptySet
  <2> QED
    BY <1>2, <2>1, <2>2
<1>4. Counted
  BY <1>3 DEF Counted
<1> QED
  BY <1>1, <1>4 DEF Inv

----------------------------------------------------------------------------
(* What a step does to the requests and responses of a client *)

LEMMA Same ==
  ASSUME NEW c \in Client,
         \A v \in Thread, i \in Place : IsHeld(v, i, c)' <=> IsHeld(v, i, c)
  PROVE  Held(c)' = Held(c)
  BY DEF Held

LEMMA Added ==
  ASSUME NEW c \in Client, NEW t \in Thread, NEW k \in Place,
         \A v \in Thread, i \in Place :
           IsHeld(v, i, c)' <=> IsHeld(v, i, c) \/ (v = t /\ i = k)
  PROVE  Held(c)' = Held(c) \cup {<<t, k>>}
  BY DEF Held

LEMMA Removed ==
  ASSUME NEW c \in Client, NEW t \in Thread, NEW k \in Place,
         \A v \in Thread, i \in Place :
           IsHeld(v, i, c)' <=> IsHeld(v, i, c) /\ ~(v = t /\ i = k)
  PROVE  Held(c)' = Held(c) \ {<<t, k>>}
  BY DEF Held

LEMMA Moved ==
  ASSUME NEW c \in Client, NEW t \in Thread, NEW k \in Place, NEW m \in Place,
         \A v \in Thread, i \in Place :
           IsHeld(v, i, c)' <=> (IsHeld(v, i, c) /\ ~(v = t /\ i = k)) \/ (v = t /\ i = m)
  PROVE  Held(c)' = (Held(c) \ {<<t, k>>}) \cup {<<t, m>>}
  BY DEF Held

LEMMA Holding ==
  ASSUME NEW c \in Client, NEW v \in Thread, NEW i \in Place
  PROVE  <<v, i>> \in Held(c) <=> IsHeld(v, i, c)
  BY DEF Held

(* Held depends on what each thread has sent and has open.                  *)
LEMMA SameHeld ==
  ASSUME bodies' = bodies,
         \A t \in Thread : pc'[t] = "sent" <=> pc[t] = "sent",
         \A t \in Thread : pc[t] = "sent" => using'[t] = using[t]
  PROVE  \A c \in Client : Held(c)' = Held(c)
<1> SUFFICES ASSUME NEW c \in Client PROVE Held(c)' = Held(c)
  OBVIOUS
<1>1. \A v \in Thread, i \in Place : IsHeld(v, i, c)' <=> IsHeld(v, i, c)
  BY DEF IsHeld
<1> QED
  BY <1>1, Same

(* The count of each client follows that of its requests and responses.     *)
LEMMA StaysCounted ==
  ASSUME Inv, pending' = pending, dropped' = dropped,
         \A c \in Client : Cardinality(Held(c)') = Cardinality(Held(c))
  PROVE  Counted'
<1> SUFFICES ASSUME NEW c \in Client
             PROVE  pending'[c] = Cardinality(Held(c)') + dropped'[c]
  BY DEF Counted
<1>1. pending[c] = Cardinality(Held(c)) + dropped[c]
  BY DEF Inv, Counted
<1> QED
  BY <1>1

----------------------------------------------------------------------------
(* Steps that leave the requests and responses alone *)

(* A thread goes on, without a request or a response beginning or ending.   *)
LEMMA QuietStep ==
  ASSUME Inv, TypeOK', Shape', CurrentOpen',
         UNCHANGED <<shouldClose, pending, closes, dropped, bodies>>,
         \A t \in Thread : pc'[t] = "sent" <=> pc[t] = "sent",
         \A t \in Thread : pc[t] = "sent" => using'[t] = using[t]
  PROVE  Inv'
<1>1. \A c \in Client : Held(c)' = Held(c)
  BY SameHeld
<1>2. Counted'
  BY <1>1, StaysCounted
<1>3. ClosedWhenIdle'
  BY DEF Inv, ClosedWhenIdle
<1> QED
  BY <1>2, <1>3 DEF Inv

LEMMA BeginStep == ASSUME Inv, NEW t \in Thread, BeginRequest(t) PROVE Inv'
<1>1. /\ pc[t] \in {"between", "response"}
      /\ \A v \in Thread : pc'[v] = IF v = t THEN "request" ELSE pc[v]
      /\ UNCHANGED <<current, created, requester, shouldClose, pending, closes, dropped, using, bodies>>
  BY DEF BeginRequest, Inv, TypeOK
<1>4. Len(bodies[t]) =< 1
  <2>1. Len(<<>>) = 0
    OBVIOUS
  <2>2. CASE bodies[t] = <<>>
    <3>1. Len(bodies[t]) = 0
      BY <2>1, <2>2
    <3> QED
      BY <3>1
  <2>3. CASE Len(bodies[t]) = 1
    BY <2>3
  <2> QED
    BY <2>2, <2>3 DEF BeginRequest, Inv, Shape
<1>2. TypeOK'
  BY Bounds DEF BeginRequest, Inv, TypeOK
<1>3. Shape' /\ CurrentOpen'
  BY <1>1, <1>4 DEF Inv, Shape, CurrentOpen
<1> QED
  BY <1>1, <1>2, <1>3, QuietStep

LEMMA ReturnsStep == ASSUME Inv, NEW t \in Thread, Returns(t) PROVE Inv'
<1>1. /\ pc[t] \in {"request", "response"}
      /\ \A v \in Thread : pc'[v] = IF v = t THEN "closing" ELSE pc[v]
      /\ UNCHANGED <<current, created, requester, shouldClose, pending, closes, dropped, using, bodies>>
  BY DEF Returns, Inv, TypeOK
<1>2. TypeOK'
  BY DEF Returns, Inv, TypeOK
<1>3. Shape' /\ CurrentOpen'
  BY <1>1 DEF Inv, Shape, CurrentOpen
<1> QED
  BY <1>1, <1>2, <1>3, QuietStep

LEMMA ClosedStep == ASSUME Inv, NEW t \in Thread, Closed(t) PROVE Inv'
<1>1. /\ pc[t] = "closing" /\ bodies[t] = <<>>
      /\ \A v \in Thread : pc'[v] = IF v = t THEN "between" ELSE pc[v]
      /\ UNCHANGED <<current, created, requester, shouldClose, pending, closes, dropped, using, bodies>>
  BY DEF Closed, Inv, TypeOK
<1>2. TypeOK'
  BY DEF Closed, Inv, TypeOK
<1>3. Shape' /\ CurrentOpen'
  BY <1>1 DEF Inv, Shape, CurrentOpen
<1> QED
  BY <1>1, <1>2, <1>3, QuietStep

LEMMA RefusedStep == ASSUME Inv, NEW t \in Thread, CloseRequested(t) PROVE Inv'
<1>1. /\ pc[t] = "got"
      /\ \A v \in Thread : /\ pc'[v] = IF v = t THEN "request" ELSE pc[v]
                           /\ using'[v] = IF v = t THEN NoClient ELSE using[v]
      /\ UNCHANGED <<current, created, requester, shouldClose, pending, closes, dropped, bodies>>
  BY DEF CloseRequested, Fails, Inv, TypeOK
<1>2. TypeOK'
  BY <1>1 DEF CloseRequested, Fails, Inv, TypeOK
<1>3. Shape' /\ CurrentOpen'
  BY <1>1 DEF Inv, Shape, CurrentOpen
<1> QED
  BY <1>1, <1>2, <1>3, QuietStep

(* A thread gets the current client of its requester, or a new one.         *)
LEMMA GetStep == ASSUME Inv, NEW t \in Thread, GetClient(t) PROVE Inv'
<1>a. PICK r \in Address : r = requester[t]
  BY DEF Inv, TypeOK
<1>1. /\ pc[t] = "request" /\ left[t] > 0
      /\ IF current[r] # 0 THEN UNCHANGED <<current, created>>
         ELSE /\ created' = [created EXCEPT ![r] = @ + 1]
              /\ current' = [current EXCEPT ![r] = created[r] + 1]
      /\ using' = [using EXCEPT ![t] = <<r, current'[r]>>]
      /\ left' = [left EXCEPT ![t] = @ - 1]
      /\ pc' = [pc EXCEPT ![t] = "got"]
      /\ UNCHANGED <<requester, shouldClose, pending, closes, dropped, bodies>>
  BY <1>a DEF GetClient
<1>2. /\ current' \in [Address -> 0 .. MaxClients]
      /\ created' \in [Address -> 0 .. MaxClients]
      /\ \A a \in Address : current'[a] =< created'[a]
      /\ \A a \in Address : created'[a] >= created[a]
      /\ \A a \in Address : a # r => current'[a] = current[a] /\ created'[a] = created[a]
      /\ current'[r] \in 1 .. MaxClients
  <2>1. CASE current[r] # 0
    BY <1>1, <2>1, Bounds DEF Inv, TypeOK
  <2>2. CASE current[r] = 0
    <3>1. created[r] \in Nat /\ created[r] < MaxClients
      <4>1. created[r] \in 0 .. MaxClients
        BY DEF Inv, TypeOK
      <4>2. created[r] < MaxClients
        BY <2>2 DEF Inv, CurrentOpen
      <4> QED
        BY <4>1, <4>2, Bounds
    <3>2. created[r] + 1 \in 1 .. MaxClients /\ created[r] + 1 \in 0 .. MaxClients
      BY <3>1, Bounds
    <3>3. current \in [Address -> 0 .. MaxClients] /\ created \in [Address -> 0 .. MaxClients]
      BY DEF Inv, TypeOK
    <3>4. /\ created' = [created EXCEPT ![r] = created[r] + 1]
          /\ current' = [current EXCEPT ![r] = created[r] + 1]
      BY <1>1, <2>2, <3>3
    <3>5. /\ created' \in [Address -> 0 .. MaxClients]
          /\ current' \in [Address -> 0 .. MaxClients]
      BY <3>2, <3>3, <3>4
    <3>6. \A a \in Address : a # r => current'[a] = current[a] /\ created'[a] = created[a]
      BY <3>3, <3>4
    <3>7. created'[r] = created[r] + 1 /\ current'[r] = created[r] + 1
      BY <3>3, <3>4
    <3>8. \A a \in Address : current'[a] =< created'[a] /\ created'[a] >= created[a]
      <4> SUFFICES ASSUME NEW a \in Address
                   PROVE  current'[a] =< created'[a] /\ created'[a] >= created[a]
        OBVIOUS
      <4>1. created[a] \in Int /\ current[a] =< created[a]
        BY <3>3, Bounds DEF Inv, TypeOK
      <4>2. CASE a = r
        BY <3>1, <3>7, <4>2
      <4>3. CASE a # r
        BY <3>6, <4>1, <4>3
      <4> QED
        BY <4>2, <4>3
    <3> QED
      BY <3>2, <3>5, <3>6, <3>7, <3>8
  <2> QED
    BY <2>1, <2>2
<1>b. <<r, current'[r]>> \in Client
  BY <1>2, ClientIsPair
<1>3. TypeOK'
  <2>1. left[t] - 1 \in 0 .. RetryThreshold
    BY <1>1, Bounds DEF Inv, TypeOK
  <2>2. left' \in [Thread -> 0 .. RetryThreshold]
    BY <1>1, <2>1 DEF Inv, TypeOK
  <2>3. /\ pc' \in [Thread -> {"between", "request", "got", "sent", "response", "closing"}]
        /\ using' \in [Thread -> Client \cup {NoClient}]
        /\ \A v \in Thread : pc'[v] \in {"got", "sent"} => using'[v] \in Client
    BY <1>1, <1>b DEF Inv, TypeOK
  <2> QED
    BY <1>1, <1>2, <2>2, <2>3 DEF Inv, TypeOK
<1>4. Shape'
  BY <1>1 DEF Inv, Shape, TypeOK
<1>5. CurrentOpen'
  <2> SUFFICES ASSUME NEW a \in Address
               PROVE  /\ current'[a] # 0 => ~shouldClose[<<a, current'[a]>>]
                      /\ current'[a] = 0 => created'[a] < MaxClients
                      /\ \A n \in 1 .. MaxClients : n > created'[a] => ~shouldClose[<<a, n>>]
    BY <1>1 DEF CurrentOpen
  <2>1. \A n \in 1 .. MaxClients : n > created'[a] => ~shouldClose[<<a, n>>]
    <3>1. created[a] \in Int /\ created'[a] \in Int /\ created'[a] >= created[a]
      BY <1>2, Bounds DEF Inv, TypeOK
    <3>2. \A n \in 1 .. MaxClients : n > created'[a] => n > created[a]
      BY <3>1, Bounds
    <3> QED
      BY <3>2 DEF Inv, CurrentOpen
  <2>2. CASE a # r
    BY <1>2, <2>1, <2>2 DEF Inv, CurrentOpen
  <2>3. CASE a = r
    <3>1. current'[r] # 0
      BY <1>2
    <3>2. CASE current[r] # 0
      BY <1>1, <2>1, <2>3, <3>1, <3>2 DEF Inv, CurrentOpen
    <3>3. CASE current[r] = 0
      <4>1. created[r] \in Nat /\ current'[r] = created[r] + 1
        BY <1>1, <3>3 DEF Inv, TypeOK
      <4>2. current'[r] > created[r]
        BY <4>1
      <4>3. ~shouldClose[<<r, current'[r]>>]
        BY <1>2, <4>2 DEF Inv, CurrentOpen
      <4> QED
        BY <2>1, <2>3, <3>1, <4>3
    <3> QED
      BY <3>2, <3>3
  <2> QED
    BY <2>2, <2>3
<1>6. \A v \in Thread : /\ pc'[v] = "sent" <=> pc[v] = "sent"
                        /\ pc[v] = "sent" => using'[v] = using[v]
  BY <1>1 DEF Inv, TypeOK
<1> QED
  BY <1>1, <1>3, <1>4, <1>5, <1>6, QuietStep

(* Disposing of a client.                                                  *)
LEMMA CloseClient ==
  ASSUME Inv, NEW r \in Address, NEW n \in 1 .. MaxClients, n = current[r],
         StartClose(<<r, n>>), current' = [current EXCEPT ![r] = 0],
         created[r] < MaxClients,
         UNCHANGED <<created, pending, dropped, pc, left, using, bodies>>,
         requester' \in [Thread -> Address]
  PROVE  Inv'
<1>a. PICK u \in Client : u = <<r, n>>
  BY ClientIsPair
<1>1. ~shouldClose[u] /\ n > 0
  BY <1>a, Bounds DEF Inv, CurrentOpen
<1>2. /\ shouldClose' = [shouldClose EXCEPT ![u] = TRUE]
      /\ closes' = IF pending[u] = 0 THEN [closes EXCEPT ![u] = @ + 1] ELSE closes
  BY <1>a DEF StartClose
<1>3. TypeOK'
  <2>1. shouldClose' \in [Client -> BOOLEAN] /\ closes' \in [Client -> Nat]
    BY <1>2 DEF Inv, TypeOK
  <2>2. /\ current' \in [Address -> 0 .. MaxClients]
        /\ \A a \in Address : current'[a] =< created[a]
    BY Bounds DEF Inv, TypeOK
  <2> QED
    BY <2>1, <2>2 DEF Inv, TypeOK
<1>4. Shape'
  BY DEF Inv, Shape
<1>5. Counted'
  <2>1. \A c \in Client : Held(c)' = Held(c)
    BY SameHeld
  <2> QED
    BY <2>1, StaysCounted
<1>6. ClosedWhenIdle'
  <2> SUFFICES ASSUME NEW c \in Client
               PROVE  closes'[c] = IF shouldClose'[c] /\ pending'[c] = 0 THEN 1 ELSE 0
    BY DEF ClosedWhenIdle
  <2>1. closes[c] = IF shouldClose[c] /\ pending[c] = 0 THEN 1 ELSE 0
    BY DEF Inv, ClosedWhenIdle
  <2>2. CASE c = u
    BY <1>1, <1>2, <2>1, <2>2 DEF Inv, TypeOK
  <2>3. CASE c # u
    BY <1>1, <1>2, <2>1, <2>3 DEF Inv, TypeOK
  <2> QED
    BY <2>2, <2>3
<1>7. CurrentOpen'
  <2> SUFFICES ASSUME NEW a \in Address
               PROVE  /\ current'[a] # 0 => ~shouldClose'[<<a, current'[a]>>]
                      /\ current'[a] = 0 => created[a] < MaxClients
                      /\ \A m \in 1 .. MaxClients : m > created[a] => ~shouldClose'[<<a, m>>]
    BY DEF CurrentOpen
  <2>1. ASSUME NEW m \in 1 .. MaxClients, <<a, m>> # u
        PROVE  shouldClose'[<<a, m>>] = shouldClose[<<a, m>>]
    BY <1>2, <2>1, ClientIsPair DEF Inv, TypeOK
  <2>2. /\ current[a] \in 0 .. MaxClients /\ current[a] =< created[a] /\ created[a] \in Nat
        /\ current'[a] = IF a = r THEN 0 ELSE current[a]
    BY Bounds DEF Inv, TypeOK
  <2>3. ASSUME NEW m \in 1 .. MaxClients, m > created[a] PROVE ~shouldClose'[<<a, m>>]
    <3>1. <<a, m>> # u
      BY <1>a, <2>2, <2>3, Bounds
    <3> QED
      BY <2>1, <2>3, <3>1 DEF Inv, CurrentOpen
  <2>4. ASSUME current'[a] # 0 PROVE ~shouldClose'[<<a, current'[a]>>]
    <3>1. a # r /\ current'[a] = current[a] /\ current[a] \in 1 .. MaxClients
      BY <2>2, <2>4, Bounds
    <3>2. <<a, current[a]>> # u
      BY <1>a, <3>1
    <3>3. shouldClose'[<<a, current[a]>>] = shouldClose[<<a, current[a]>>]
      BY <2>1, <3>1, <3>2
    <3>4. ~shouldClose[<<a, current[a]>>]
      BY <2>4, <3>1 DEF Inv, CurrentOpen
    <3> QED
      BY <3>1, <3>3, <3>4
  <2>5. ASSUME current'[a] = 0 PROVE created[a] < MaxClients
    BY <2>2, <2>5 DEF Inv, CurrentOpen
  <2> QED
    BY <2>3, <2>4, <2>5
<1> QED
  BY <1>3, <1>4, <1>5, <1>6, <1>7 DEF Inv

(* Replacing the client, if there is one, and the requester.                *)
LEMMA ReplaceStep == ASSUME Inv, NEW t \in Thread, ReplaceClient(t) PROVE Inv'
<1>a. PICK r \in Address : r = requester[t]
  BY DEF Inv, TypeOK
<1>1. /\ created[r] < MaxClients
      /\ IF current[r] = 0 THEN UNCHANGED <<current, shouldClose, closes>>
         ELSE StartClose(<<r, current[r]>>) /\ current' = [current EXCEPT ![r] = 0]
      /\ UNCHANGED <<created, pending, dropped, pc, left, using, bodies>>
  BY <1>a DEF ReplaceClient, Dispose, threadVars
<1>2. requester' \in [Thread -> Address]
  BY DEF ReplaceClient, GetRequester, Inv, TypeOK
<1>3. CASE current[r] = 0
  <2>1. TypeOK'
    BY <1>1, <1>2, <1>3 DEF Inv, TypeOK
  <2>2. Shape' /\ CurrentOpen'
    BY <1>1, <1>3 DEF Inv, Shape, CurrentOpen
  <2> QED
    BY <1>1, <1>3, <2>1, <2>2, QuietStep
<1>4. CASE current[r] # 0
  <2>1. current[r] \in 1 .. MaxClients
    BY <1>4, Bounds DEF Inv, TypeOK
  <2>2. PICK n \in 1 .. MaxClients : n = current[r]
    BY <2>1
  <2> QED
    BY <1>1, <1>2, <1>4, <2>2, CloseClient
<1> QED
  BY <1>3, <1>4

----------------------------------------------------------------------------
(* Steps of the requests and responses *)

(* What the end of a request or response does to the counts: it is at k.    *)
LEMMA EndStep ==
  ASSUME Inv, NEW u \in Client, NEW t \in Thread, NEW k \in Place,
         EndRequest(u), IsHeld(t, k, u),
         Held(u)' = Held(u) \ {<<t, k>>},
         \A c \in Client : c # u => Held(c)' = Held(c),
         UNCHANGED <<dropped, shouldClose>>
  PROVE  /\ pending' \in [Client -> Nat] /\ closes' \in [Client -> Nat]
         /\ Counted' /\ ClosedWhenIdle'
<1>1. /\ IsFiniteSet(Held(u)) /\ <<t, k>> \in Held(u)
      /\ Cardinality(Held(u)) \in Nat
  BY HeldFinite, Holding
<1>2. /\ IsFiniteSet(Held(u) \ {<<t, k>>})
      /\ Cardinality(Held(u) \ {<<t, k>>}) = Cardinality(Held(u)) - 1
  BY <1>1, FS_RemoveElement
<1>3. Cardinality(Held(u)') = Cardinality(Held(u)) - 1 /\ Cardinality(Held(u)') \in Nat
  <2>1. Cardinality(Held(u) \ {<<t, k>>}) \in Nat
    BY <1>2, FS_CardinalityType
  <2> QED
    BY <1>2, <2>1
<1>4. /\ pending[u] = Cardinality(Held(u)) + dropped[u]
      /\ dropped[u] \in Nat /\ pending[u] \in Nat
  BY Bounds DEF Inv, TypeOK, Counted
<1>5. pending[u] > 0
  BY <1>1, <1>3, <1>4
<1>6. /\ \A c \in Client : pending'[c] = IF c = u THEN pending[c] - 1 ELSE pending[c]
      /\ pending' \in [Client -> Nat]
  BY <1>4, <1>5 DEF EndRequest, Inv, TypeOK
<1>7. /\ \A c \in Client : closes'[c] = IF c = u /\ shouldClose[u] /\ pending[u] = 1
                                        THEN closes[c] + 1 ELSE closes[c]
      /\ closes' \in [Client -> Nat]
  BY DEF EndRequest, Inv, TypeOK
<1>8. Counted'
  <2> SUFFICES ASSUME NEW c \in Client
               PROVE  pending'[c] = Cardinality(Held(c)') + dropped'[c]
    BY DEF Counted
  <2>1. CASE c = u
    <3>1. pending'[u] = pending[u] - 1 /\ dropped'[u] = dropped[u]
      BY <1>6
    <3>2. pending'[u] = Cardinality(Held(u)') + dropped'[u]
      BY <1>1, <1>3, <1>4, <3>1
    <3> QED
      BY <2>1, <3>2
  <2>2. CASE c # u
    <3>1. Held(c)' = Held(c) /\ pending'[c] = pending[c] /\ dropped'[c] = dropped[c]
      BY <1>6, <2>2
    <3>2. pending[c] = Cardinality(Held(c)) + dropped[c]
      BY DEF Inv, Counted
    <3> QED
      BY <3>1, <3>2
  <2> QED
    BY <2>1, <2>2
<1>9. ClosedWhenIdle'
  <2> SUFFICES ASSUME NEW c \in Client
               PROVE  closes'[c] = IF shouldClose'[c] /\ pending'[c] = 0 THEN 1 ELSE 0
    BY DEF ClosedWhenIdle
  <2>1. closes[c] = IF shouldClose[c] /\ pending[c] = 0 THEN 1 ELSE 0
    BY DEF Inv, ClosedWhenIdle
  <2>2. CASE c = u
    BY <1>4, <1>5, <1>6, <1>7, <2>1, <2>2
  <2>3. CASE c # u
    BY <1>6, <1>7, <2>1, <2>3
  <2> QED
    BY <2>2, <2>3
<1> QED
  BY <1>6, <1>7, <1>8, <1>9

(* A request of a client that is not to be closed.                          *)
LEMMA StartStep == ASSUME Inv, NEW t \in Thread, StartRequest(t) PROVE Inv'
<1> PICK u \in Client : u = using[t]
  BY DEF StartRequest, Inv, TypeOK
<1>1. u = using[t] /\ pc[t] = "got" /\ ~shouldClose[u] /\ 0 \in Place
  BY DEF StartRequest, Place
<1>2. /\ \A v \in Thread : pc'[v] = IF v = t THEN "sent" ELSE pc[v]
      /\ \A c \in Client : pending'[c] = IF c = u THEN pending[c] + 1 ELSE pending[c]
      /\ UNCHANGED <<current, created, requester, shouldClose, closes, dropped, left, using, bodies>>
  BY DEF StartRequest, Inv, TypeOK
<1>3. TypeOK'
  BY <1>1 DEF StartRequest, Inv, TypeOK
<1>4. Shape' /\ CurrentOpen'
  BY <1>1, <1>2 DEF Inv, Shape, CurrentOpen
<1>5. \A v \in Thread, i \in Place :
        IsHeld(v, i, u)' <=> IsHeld(v, i, u) \/ (v = t /\ i = 0)
  BY <1>1, <1>2 DEF IsHeld
<1>12. \A c \in Client, v \in Thread, i \in Place :
         c # u => (IsHeld(v, i, c)' <=> IsHeld(v, i, c))
  BY <1>1, <1>2 DEF IsHeld
<1>6. Held(u)' = Held(u) \cup {<<t, 0>>}
  BY <1>1, <1>5, Added
<1>7. <<t, 0>> \notin Held(u)
  BY <1>1, Holding DEF IsHeld
<1>8. \A c \in Client : c # u => Held(c)' = Held(c)
  BY <1>12, Same
<1>9. Cardinality(Held(u)') = Cardinality(Held(u)) + 1
  <2>1. IsFiniteSet(Held(u))
    BY <1>1, HeldFinite
  <2>2. Cardinality(Held(u) \cup {<<t, 0>>}) = Cardinality(Held(u)) + 1
    BY <1>7, <2>1, FS_AddElement
  <2> QED
    BY <1>6, <2>2
<1>10. Counted'
  <2> SUFFICES ASSUME NEW c \in Client
               PROVE  pending'[c] = Cardinality(Held(c)') + dropped'[c]
    BY DEF Counted
  <2>1. pending[c] = Cardinality(Held(c)) + dropped[c]
    BY DEF Inv, Counted
  <2>2. Cardinality(Held(c)) \in Nat /\ dropped[c] \in Nat /\ dropped'[c] = dropped[c]
    BY <1>2, HeldFinite, Bounds DEF Inv, TypeOK
  <2>3. CASE c = u
    <3>1. pending'[u] = pending[u] + 1 /\ pending[u] = Cardinality(Held(u)) + dropped[u]
      BY <1>1, <1>2, <2>1, <2>3
    <3>2. pending'[u] = Cardinality(Held(u)') + dropped'[u]
      BY <1>9, <2>2, <2>3, <3>1
    <3> QED
      BY <2>3, <3>2
  <2>4. CASE c # u
    <3>1. Held(c)' = Held(c) /\ pending'[c] = pending[c]
      BY <1>2, <1>8, <2>4
    <3> QED
      BY <2>1, <2>2, <3>1
  <2> QED
    BY <2>3, <2>4
<1>11. ClosedWhenIdle'
  BY <1>1, <1>2 DEF Inv, ClosedWhenIdle
<1> QED
  BY <1>3, <1>4, <1>10, <1>11 DEF Inv

(* A request that is no longer under way.                                   *)
LEMMA RequestGone ==
  ASSUME Inv, NEW t \in Thread, pc[t] = "sent", Fails(t),
         NEW u \in Client, u = using[t]
  PROVE  /\ 0 \in Place /\ IsHeld(t, 0, u)
         /\ Held(u)' = Held(u) \ {<<t, 0>>}
         /\ \A c \in Client : c # u => Held(c)' = Held(c)
         /\ Shape' /\ CurrentOpen'
         /\ pc' \in [Thread -> {"between", "request", "got", "sent", "response", "closing"}]
         /\ using' \in [Thread -> Client \cup {NoClient}]
         /\ \A v \in Thread : pc'[v] \in {"got", "sent"} => using'[v] \in Client
<1>1. 0 \in Place /\ IsHeld(t, 0, u)
  BY DEF Place, IsHeld
<1>2. /\ \A v \in Thread : pc'[v] = IF v = t THEN "request" ELSE pc[v]
      /\ \A v \in Thread : using'[v] = IF v = t THEN NoClient ELSE using[v]
      /\ UNCHANGED <<current, created, requester, shouldClose, left, bodies>>
  BY DEF Fails, Inv, TypeOK
<1>3. \A v \in Thread, i \in Place :
        IsHeld(v, i, u)' <=> IsHeld(v, i, u) /\ ~(v = t /\ i = 0)
  BY <1>2 DEF IsHeld
<1>4. \A c \in Client, v \in Thread, i \in Place :
        c # u => (IsHeld(v, i, c)' <=> IsHeld(v, i, c))
  BY <1>2 DEF IsHeld
<1>5. Held(u)' = Held(u) \ {<<t, 0>>}
  BY <1>1, <1>3, Removed
<1>6. \A c \in Client : c # u => Held(c)' = Held(c)
  BY <1>4, Same
<1>7. Shape' /\ CurrentOpen'
  BY <1>2 DEF Inv, Shape, CurrentOpen
<1>8. /\ pc' \in [Thread -> {"between", "request", "got", "sent", "response", "closing"}]
      /\ using' \in [Thread -> Client \cup {NoClient}]
      /\ \A v \in Thread : pc'[v] \in {"got", "sent"} => using'[v] \in Client
  BY <1>2 DEF Fails, Inv, TypeOK
<1> QED
  BY <1>1, <1>5, <1>6, <1>7, <1>8

(* A request that fails.                                                   *)
LEMMA FailStep == ASSUME Inv, NEW t \in Thread, RequestFails(t) PROVE Inv'
<1> PICK u \in Client : u = using[t]
  BY DEF RequestFails, Inv, TypeOK
<1>1. /\ u = using[t] /\ pc[t] = "sent" /\ Fails(t) /\ EndRequest(u)
      /\ UNCHANGED <<dropped, current, created, requester, shouldClose, left, bodies>>
  BY DEF RequestFails, Fails
<1>2. /\ pending' \in [Client -> Nat] /\ closes' \in [Client -> Nat]
      /\ Counted' /\ ClosedWhenIdle'
  BY <1>1, RequestGone, EndStep
<1>3. TypeOK'
  BY <1>1, <1>2, RequestGone DEF Inv, TypeOK
<1> QED
  BY <1>1, <1>2, <1>3, RequestGone DEF Inv

(* A response that comes with an error is dropped: it stays counted.        *)
LEMMA DropStep == ASSUME Inv, NEW t \in Thread, TooManyRedirects(t) PROVE Inv'
<1> PICK u \in Client : u = using[t]
  BY DEF TooManyRedirects, Inv, TypeOK
<1>1. /\ pc[t] = "sent" /\ Fails(t) /\ u = using[t]
      /\ UNCHANGED <<pending, closes, current, created, requester, shouldClose, left, bodies>>
  BY DEF TooManyRedirects, Fails
<1>2. /\ dropped' \in [Client -> 0 .. MaxLoops]
      /\ \A c \in Client : dropped'[c] = IF c = u THEN dropped[c] + 1 ELSE dropped[c]
  BY <1>1, Bounds DEF TooManyRedirects, Inv, TypeOK
<1>3. TypeOK'
  BY <1>1, <1>2, RequestGone DEF Inv, TypeOK
<1>4. ClosedWhenIdle'
  BY <1>1 DEF Inv, ClosedWhenIdle
<1>5. Cardinality(Held(u)') = Cardinality(Held(u)) - 1 /\ Cardinality(Held(u)) \in Nat
  <2>1. <<t, 0>> \in Held(u) /\ IsFiniteSet(Held(u)) /\ Cardinality(Held(u)) \in Nat
    BY <1>1, RequestGone, Holding, HeldFinite
  <2>2. Cardinality(Held(u) \ {<<t, 0>>}) = Cardinality(Held(u)) - 1
    BY <2>1, FS_RemoveElement
  <2> QED
    BY <1>1, <2>1, <2>2, RequestGone
<1>6. \A c \in Client : c # u => Held(c)' = Held(c)
  BY <1>1, RequestGone
<1>7. Counted'
  <2> SUFFICES ASSUME NEW c \in Client
               PROVE  pending'[c] = Cardinality(Held(c)') + dropped'[c]
    BY DEF Counted
  <2>1. pending[c] = Cardinality(Held(c)) + dropped[c] /\ dropped[c] \in Nat
    BY Bounds DEF Inv, TypeOK, Counted
  <2>2. CASE c = u
    <3>1. pending'[u] = pending[u] /\ dropped'[u] = dropped[u] + 1
      BY <1>1, <1>2
    <3>2. pending'[u] = Cardinality(Held(u)') + dropped'[u]
      BY <1>5, <2>1, <2>2, <3>1
    <3> QED
      BY <2>2, <3>2
  <2>3. CASE c # u
    <3>1. Held(c)' = Held(c) /\ dropped'[c] = dropped[c] /\ pending'[c] = pending[c]
      BY <1>1, <1>2, <1>6, <2>3
    <3> QED
      BY <2>1, <3>1
  <2> QED
    BY <2>2, <2>3
<1> QED
  BY <1>1, <1>3, <1>4, <1>7, RequestGone DEF Inv

(* A response: the request becomes a body.                                  *)
LEMMA ResponseStep == ASSUME Inv, NEW t \in Thread, Responds(t) PROVE Inv'
<1>a. PICK u \in Client : u = using[t]
  BY DEF Responds, Inv, TypeOK
<1>b. PICK s \in Seq(Client) : s = bodies[t]
  BY DEF Inv, TypeOK
<1>c. PICK n \in Nat : n = Len(s) + 1
  OBVIOUS
<1>1. u = using[t] /\ s = bodies[t] /\ pc[t] = "sent"
  BY <1>a, <1>b DEF Responds
<1>2. n \in {1, 2} /\ n \in Place /\ 0 \in Place
  <2>1. Len(s) =< 1
    BY <1>1 DEF Inv, Shape
  <2> QED
    BY <1>c, <2>1 DEF Place
<1>3. /\ \A v \in Thread : pc'[v] = IF v = t THEN "response" ELSE pc[v]
      /\ \A v \in Thread : using'[v] = IF v = t THEN NoClient ELSE using[v]
      /\ \A v \in Thread : bodies'[v] = IF v = t THEN Append(s, u) ELSE bodies[v]
      /\ UNCHANGED <<current, created, requester, shouldClose, pending, closes, dropped, left>>
  BY <1>1 DEF Responds, Inv, TypeOK
<1>4. /\ Append(s, u) \in Seq(Client) /\ Len(Append(s, u)) = n
      /\ \A i \in Place \ {0} :
           /\ i =< Len(Append(s, u)) <=> i =< Len(s) \/ i = n
           /\ i =< Len(s) => Append(s, u)[i] = s[i]
      /\ Append(s, u)[n] = u
      /\ ~(n =< Len(s))
  BY <1>c, <1>2 DEF Place
<1>5. ASSUME NEW c \in Client, NEW v \in Thread, NEW i \in Place
      PROVE  IsHeld(v, i, c)' <=>
               \/ IsHeld(v, i, c) /\ ~(v = t /\ i = 0)
               \/ c = u /\ v = t /\ i = n
  <2>1. CASE v # t
    BY <1>3, <2>1 DEF IsHeld
  <2>2. CASE v = t /\ i = 0
    BY <1>2, <1>3, <2>2 DEF IsHeld
  <2>3. CASE v = t /\ i # 0
    <3>1. IsHeld(t, i, c)' <=> i =< Len(Append(s, u)) /\ Append(s, u)[i] = c
      BY <1>3, <2>3 DEF IsHeld
    <3>2. IsHeld(t, i, c) <=> i =< Len(s) /\ s[i] = c
      BY <1>1, <2>3 DEF IsHeld
    <3> QED
      BY <1>4, <2>3, <3>1, <3>2
  <2> QED
    BY <2>1, <2>2, <2>3
<1>6. IsHeld(t, 0, u) /\ ~IsHeld(t, n, u)
  BY <1>1, <1>2, <1>4 DEF IsHeld
<1>7. /\ Held(u)' = (Held(u) \ {<<t, 0>>}) \cup {<<t, n>>}
      /\ <<t, 0>> \in Held(u) /\ <<t, n>> \notin Held(u)
  <2>1. <<t, 0>> \in Held(u) /\ <<t, n>> \notin Held(u)
    BY <1>2, <1>6, Holding
  <2>2. \A v \in Thread, i \in Place :
          IsHeld(v, i, u)' <=> (IsHeld(v, i, u) /\ ~(v = t /\ i = 0)) \/ (v = t /\ i = n)
    BY <1>5
  <2>3. Held(u)' = (Held(u) \ {<<t, 0>>}) \cup {<<t, n>>}
    BY <1>2, <2>2, Moved
  <2> QED
    BY <2>1, <2>3
<1>8. Cardinality(Held(u)') = Cardinality(Held(u))
  <2>1. IsFiniteSet(Held(u)) /\ Cardinality(Held(u)) \in Nat
    BY HeldFinite
  <2>2. /\ IsFiniteSet(Held(u) \ {<<t, 0>>})
        /\ Cardinality(Held(u) \ {<<t, 0>>}) = Cardinality(Held(u)) - 1
    BY <1>7, <2>1, FS_RemoveElement
  <2>3. <<t, n>> \notin Held(u) \ {<<t, 0>>}
    BY <1>7
  <2>4. Cardinality((Held(u) \ {<<t, 0>>}) \cup {<<t, n>>})
          = Cardinality(Held(u) \ {<<t, 0>>}) + 1
    BY <2>2, <2>3, FS_AddElement
  <2> QED
    BY <1>7, <2>1, <2>2, <2>4
<1>9. Counted'
  <2>1. ASSUME NEW c \in Client, c # u PROVE Held(c)' = Held(c)
    <3>1. \A v \in Thread, i \in Place : IsHeld(v, i, c)' <=> IsHeld(v, i, c)
      <4> SUFFICES ASSUME NEW v \in Thread, NEW i \in Place
                   PROVE  IsHeld(v, i, c)' <=> IsHeld(v, i, c)
        OBVIOUS
      <4>1. CASE v = t /\ i = 0
        BY <1>1, <1>3, <2>1, <4>1, NoClientIsNone DEF IsHeld
      <4>2. CASE ~(v = t /\ i = 0)
        BY <1>5, <2>1, <4>2
      <4> QED
        BY <4>1, <4>2
    <3> QED
      BY <3>1, Same
  <2>2. ASSUME NEW c \in Client
        PROVE  Cardinality(Held(c)') = Cardinality(Held(c))
    <3>1. CASE c = u
      BY <1>8, <3>1
    <3>2. CASE c # u
      BY <2>1, <3>2
    <3> QED
      BY <3>1, <3>2
  <2> QED
    BY <1>3, <2>2, StaysCounted
<1>10. TypeOK'
  <2>1. bodies' \in [Thread -> Seq(Client)]
    BY <1>1, <1>4 DEF Responds, Inv, TypeOK
  <2>2. /\ using' \in [Thread -> Client \cup {NoClient}]
        /\ pc' \in [Thread -> {"between", "request", "got", "sent", "response", "closing"}]
    BY DEF Responds, Inv, TypeOK
  <2> QED
    BY <1>3, <2>1, <2>2 DEF Inv, TypeOK
<1>11. Shape'
  <2> SUFFICES ASSUME NEW v \in Thread
               PROVE  /\ Len(bodies'[v]) =< 2
                      /\ pc'[v] = "between" => bodies'[v] = <<>>
                      /\ pc'[v] \in {"request", "got", "sent"} => Len(bodies'[v]) =< 1
    BY DEF Shape
  <2>1. CASE v = t
    <3>1. Len(bodies'[v]) =< 2
      <4>1. bodies'[v] = Append(s, u)
        BY <1>3, <2>1
      <4>2. Len(Append(s, u)) =< 2
        BY <1>2, <1>4
      <4> QED
        BY <4>1, <4>2
    <3>2. pc'[v] = "response"
      BY <1>3, <2>1
    <3> QED
      BY <3>1, <3>2
  <2>2. CASE v # t
    BY <1>3, <2>2 DEF Inv, Shape
  <2> QED
    BY <2>1, <2>2
<1>12. ClosedWhenIdle' /\ CurrentOpen'
  BY <1>3 DEF Inv, ClosedWhenIdle, CurrentOpen
<1> QED
  BY <1>9, <1>10, <1>11, <1>12 DEF Inv

(* Closing the last body.                                                  *)
LEMMA CloseStep == ASSUME Inv, NEW t \in Thread, CloseBody(t) PROVE Inv'
<1>a. PICK s \in Seq(Client) : s = bodies[t]
  BY DEF Inv, TypeOK
<1>b. PICK n \in Nat : n = Len(s)
  OBVIOUS
<1>1. s = bodies[t] /\ s # <<>> /\ pc[t] = "closing"
  BY <1>a DEF CloseBody
<1>2. n \in {1, 2} /\ n \in Place /\ s[n] \in Client
  <2>1. n # 0
    <3>1. s # <<>>
      BY <1>1
    <3> QED
      BY <1>b, <3>1
  <2>2. n =< 2
    <3>1. Len(s) =< 2
      BY <1>1 DEF Inv, Shape
    <3> QED
      BY <1>b, <3>1
  <2>3. n \in {1, 2}
    BY <2>1, <2>2
  <2>4. s[n] \in Client
    BY <1>b, <2>1
  <2> QED
    BY <2>3, <2>4 DEF Place
<1>c. PICK u \in Client : u = s[n]
  BY <1>2
<1>3. /\ \A v \in Thread : bodies'[v] = IF v = t THEN SubSeq(s, 1, n - 1) ELSE bodies[v]
      /\ UNCHANGED <<current, created, requester, shouldClose, dropped, pc, left, using>>
  BY <1>1, <1>b DEF CloseBody, Inv, TypeOK
<1>4. /\ SubSeq(s, 1, n - 1) \in Seq(Client) /\ Len(SubSeq(s, 1, n - 1)) = n - 1
      /\ \A i \in Place \ {0} :
           /\ i =< n - 1 <=> i =< n /\ i # n
           /\ i =< n - 1 => SubSeq(s, 1, n - 1)[i] = s[i]
  <2>1. /\ SubSeq(s, 1, n - 1) \in Seq(Client) /\ Len(SubSeq(s, 1, n - 1)) = n - 1
        /\ \A i \in 1 .. n - 1 : SubSeq(s, 1, n - 1)[i] = s[i]
    <3>1. n - 1 \in 0 .. Len(s)
      BY <1>b, <1>2
    <3> QED
      BY <3>1
  <2>2. \A i \in Place \ {0} :
          /\ i =< n - 1 <=> i =< n /\ i # n
          /\ i =< n - 1 => i \in 1 .. n - 1
    BY <1>2 DEF Place
  <2> QED
    BY <2>1, <2>2
<1>5. ASSUME NEW c \in Client, NEW v \in Thread, NEW i \in Place
      PROVE  IsHeld(v, i, c)' <=> IsHeld(v, i, c) /\ ~(v = t /\ i = n)
  <2>1. CASE v # t
    BY <1>3, <2>1 DEF IsHeld
  <2>3. CASE i = 0
    BY <1>2, <1>3, <2>3 DEF IsHeld
  <2>2. CASE v = t /\ i # 0
    <3>1. IsHeld(t, i, c)' <=> i =< n - 1 /\ SubSeq(s, 1, n - 1)[i] = c
      BY <1>3, <1>4, <2>2 DEF IsHeld
    <3>2. IsHeld(t, i, c) <=> i =< n /\ s[i] = c
      BY <1>1, <1>b, <2>2 DEF IsHeld
    <3> QED
      BY <1>4, <2>2, <3>1, <3>2
  <2> QED
    BY <2>1, <2>2, <2>3
<1>6. IsHeld(t, n, u)
  BY <1>1, <1>2, <1>b, <1>c DEF IsHeld
<1>7. Held(u)' = Held(u) \ {<<t, n>>}
  BY <1>2, <1>5, Removed
<1>8. ASSUME NEW c \in Client, c # u PROVE Held(c)' = Held(c)
  <2>1. ~IsHeld(t, n, c)
    BY <1>1, <1>2, <1>8, <1>b, <1>c DEF IsHeld
  <2>2. \A v \in Thread, i \in Place : IsHeld(v, i, c)' <=> IsHeld(v, i, c)
    BY <1>5, <2>1
  <2> QED
    BY <2>2, Same
<1>9. EndRequest(u)
  BY <1>1, <1>b, <1>c DEF CloseBody
<1>10. /\ pending' \in [Client -> Nat] /\ closes' \in [Client -> Nat]
       /\ Counted' /\ ClosedWhenIdle'
  BY <1>2, <1>3, <1>6, <1>7, <1>8, <1>9, EndStep
<1>11. TypeOK'
  <2>1. bodies' \in [Thread -> Seq(Client)]
    BY <1>1, <1>4, <1>b DEF CloseBody, Inv, TypeOK
  <2> QED
    BY <1>3, <1>10, <2>1 DEF Inv, TypeOK
<1>12. Shape' /\ CurrentOpen'
  <2>1. Shape'
    <3> SUFFICES ASSUME NEW v \in Thread
                 PROVE  /\ Len(bodies'[v]) =< 2
                        /\ pc'[v] = "between" => bodies'[v] = <<>>
                        /\ pc'[v] \in {"request", "got", "sent"} => Len(bodies'[v]) =< 1
      BY DEF Shape
    <3>1. CASE v = t
      <4>1. Len(bodies'[v]) =< 2
        <5>1. bodies'[v] = SubSeq(s, 1, n - 1)
          BY <1>3, <3>1
        <5>2. Len(SubSeq(s, 1, n - 1)) =< 2
          BY <1>2, <1>4
        <5> QED
          BY <5>1, <5>2
      <4>2. pc'[v] = "closing"
        BY <1>1, <1>3, <3>1
      <4> QED
        BY <4>1, <4>2
    <3>2. CASE v # t
      BY <1>3, <3>2 DEF Inv, Shape
    <3> QED
      BY <3>1, <3>2
  <2>2. CurrentOpen'
    BY <1>3 DEF Inv, CurrentOpen
  <2> QED
    BY <2>1, <2>2
<1> QED
  BY <1>10, <1>11, <1>12 DEF Inv

----------------------------------------------------------------------------
(* The theorems *)

(* Every step of the requester preserves the invariant.                    *)
LEMMA StepInv == Inv /\ [Next]_vars => Inv'
<1> SUFFICES ASSUME Inv, [Next]_vars PROVE Inv'
  OBVIOUS
<1>1. ASSUME NEW t \in Thread, BeginRequest(t) \/ Downloads(t) \/ ReplaceClient(t)
      PROVE  Inv'
  BY <1>1, BeginStep, ReturnsStep, ClosedStep, RefusedStep, GetStep, StartStep, FailStep,
     DropStep, ResponseStep, CloseStep, ReplaceStep
  DEF Downloads
<1>2. CASE UNCHANGED vars
  <2>1. \A c \in Client : Held(c)' = Held(c)
    BY <1>2, SameHeld DEF vars, threadVars
  <2>2. Counted'
    BY <1>2, <2>1 DEF Inv, Counted, vars
  <2> QED
    BY <1>2, <2>2 DEF Inv, TypeOK, Shape, ClosedWhenIdle, CurrentOpen, vars, threadVars
<1> QED
  BY <1>1, <1>2 DEF Next

(* The inductive invariant of the requester: the pending count of a client  *)
(* is that of its requests, its open responses and its dropped ones.        *)
THEOREM Invariant == Spec => []Inv
  BY InitInv, StepInv, PTL DEF Spec

(* Type correctness of the requester. *)
THEOREM TypeCorrect == Spec => []TypeOK
<1>1. Inv => TypeOK
  BY DEF Inv
<1> QED
  BY <1>1, Invariant, PTL

(* No client is closed under a request or an open response.                 *)
THEOREM NeverClosedInUse == Spec => []NotClosedInUse
<1>1. ASSUME Inv PROVE NotClosedInUse
  <2> SUFFICES ASSUME NEW c \in Client, closes[c] > 0, NEW t \in Thread, Uses(t, c)
               PROVE  FALSE
    BY DEF NotClosedInUse
  <2>1. pending[c] = 0
    BY <1>1 DEF Inv, ClosedWhenIdle
  <2>2. Cardinality(Held(c)) \in Nat /\ dropped[c] \in Nat /\ IsFiniteSet(Held(c))
    BY <1>1, HeldFinite, Bounds DEF Inv, TypeOK
  <2>3. Cardinality(Held(c)) = 0
    BY <1>1, <2>1, <2>2 DEF Inv, Counted
  <2>4. Held(c) = {}
    BY <2>2, <2>3, FS_EmptySet
  <2>5. CASE pc[t] = "sent" /\ using[t] = c
    <3>1. <<t, 0>> \in Held(c)
      BY <2>5, Holding DEF IsHeld, Place
    <3> QED
      BY <2>4, <3>1
  <2>6. ASSUME NEW i \in 1 .. Len(bodies[t]), bodies[t][i] = c
        PROVE  FALSE
    <3>1. i \in Place /\ i # 0 /\ i =< Len(bodies[t])
      <4>1. Len(bodies[t]) \in Nat /\ Len(bodies[t]) =< 2
        BY <1>1 DEF Inv, TypeOK, Shape
      <4> QED
        BY <4>1 DEF Place
    <3>2. <<t, i>> \in Held(c)
      BY <2>6, <3>1, Holding DEF IsHeld
    <3> QED
      BY <2>4, <3>2
  <2> QED
    BY <2>5, <2>6 DEF Uses
<1> QED
  BY <1>1, Invariant, PTL

(* No client is closed twice. *)
THEOREM ClosedOnlyOnce == Spec => []ClosedOnce
<1>1. Inv => ClosedOnce
  BY DEF Inv, ClosedWhenIdle, ClosedOnce
<1> QED
  BY <1>1, Invariant, PTL

(* A client that was disposed of and that nobody uses any more is closed,   *)
(* if none of its responses was dropped: of the promise that the last one   *)
(* closes it (ClosedByLastRequest), all but that the last one ends.         *)
NoneLeftOpen ==
  \A c \in Client :
    shouldClose[c] /\ dropped[c] = 0 /\ (\A t \in Thread : ~Uses(t, c)) => closes[c] = 1

(* What the last user of a client leaves behind is closed.                  *)
THEOREM ClosedByTheLast == Spec => []NoneLeftOpen
<1>1. ASSUME Inv PROVE NoneLeftOpen
  <2> SUFFICES ASSUME NEW c \in Client, shouldClose[c], dropped[c] = 0,
                      \A t \in Thread : ~Uses(t, c)
               PROVE  closes[c] = 1
    BY DEF NoneLeftOpen
  <2>1. ASSUME NEW t \in Thread, NEW i \in Place, IsHeld(t, i, c) PROVE FALSE
    <3>1. CASE i = 0
      BY <2>1, <3>1 DEF IsHeld, Uses
    <3>2. CASE i # 0
      <4>1. Len(bodies[t]) \in Nat
        BY <1>1 DEF Inv, TypeOK
      <4>2. i \in 1 .. Len(bodies[t]) /\ bodies[t][i] = c
        BY <2>1, <3>2, <4>1 DEF IsHeld, Place
      <4> QED
        BY <4>2 DEF Uses
    <3> QED
      BY <3>1, <3>2
  <2>2. Held(c) = {}
    BY <2>1 DEF Held
  <2>3. pending[c] = 0
    BY <1>1, <2>2, FS_EmptySet DEF Inv, Counted
  <2> QED
    BY <1>1, <2>3 DEF Inv, ClosedWhenIdle
<1> QED
  BY <1>1, Invariant, PTL

(* The client a requester hands out was not disposed of: a thread is only   *)
(* refused (closeRequested) if another one disposes of the client after Do  *)
(* has returned it.                                                         *)
THEOREM CurrentIsOpen == Spec => []CurrentOpen
<1>1. Inv => CurrentOpen
  BY DEF Inv
<1> QED
  BY <1>1, Invariant, PTL
=============================================================================
