-------------------------- MODULE RestServerProofs --------------------------
(***************************************************************************)
(* Proofs about RestServer: whatever the connections, the requests and the *)
(* limits are, the service outlives every connection, stop shuts down no   *)
(* connection that was there before it, and the service gets every         *)
(* argument of the request, however the network cuts it.                   *)
(***************************************************************************)
EXTENDS RestServer, FiniteSetTheorems, SequenceTheorems, WellFoundedInduction, TLAPS

\* A set of numbers has a least one.
LEMMA LeastIsMin ==
  ASSUME NEW T \in SUBSET Nat, T # {}
  PROVE  Min(T) \in T /\ \A n \in T : Min(T) <= n
<1> DEFINE Below == {p \in Nat \X Nat : p[1] < p[2]}
<1>1. IsWellFoundedOn(Below, Nat)
  BY NatLessThanWellFounded DEF OpToRel
<1>2. \A m, n \in Nat : n < m => <<n, m>> \in Below
  OBVIOUS
<1> HIDE DEF Below
<1>3. PICK m \in T : \A n \in T : ~ (<<n, m>> \in Below)
  BY <1>1, WFMin
<1>4. ASSUME NEW n \in T PROVE m <= n
  <2>1. m \in Nat /\ n \in Nat /\ ~ (n < m)
    BY <1>2, <1>3
  <2> QED BY <2>1
<1>5. Min(T) = CHOOSE k \in T : \A n \in T : k <= n
  BY DEF Min
<1> QED BY <1>4, <1>5

LEMMA GreatestIsMax ==
  ASSUME NEW n \in Nat, NEW T \in SUBSET (0..n), T # {}
  PROVE  Max(T) \in T /\ \A k \in T : k <= Max(T)
<1>1. {n - k : k \in T} \in SUBSET Nat /\ {n - k : k \in T} # {}
  <2>1. PICK m \in T : TRUE
    OBVIOUS
  <2>2. n - m \in {n - k : k \in T}
    BY <2>1
  <2>3. ASSUME NEW k \in T PROVE n - k \in Nat
    <3>1. k \in 0..n
      OBVIOUS
    <3> QED BY <3>1
  <2> QED BY <2>2, <2>3
<1>2. PICK u \in {n - k : k \in T} : \A v \in {n - k : k \in T} : u <= v
  BY <1>1, LeastIsMin
<1>3. \E m \in T : \A k \in T : m >= k
  BY <1>2
<1>4. Max(T) = CHOOSE m \in T : \A k \in T : m >= k
  BY DEF Max
<1> QED BY <1>3, <1>4

\* Induction up to a bound, for a set of numbers: there is no least counterexample.
LEMMA UpTo ==
  ASSUME NEW bound \in Nat, NEW S, 0 \in S, \A n \in 0..bound - 1 : n \in S => n + 1 \in S
  PROVE  \A n \in 0..bound : n \in S
<1> SUFFICES ASSUME {n \in 0..bound : n \notin S} # {} PROVE FALSE
  OBVIOUS
<1>1. PICK m \in {n \in 0..bound : n \notin S} : \A n \in {n \in 0..bound : n \notin S} : m <= n
  BY LeastIsMin, {n \in 0..bound : n \notin S} \in SUBSET Nat
<1>2. m - 1 \in 0..bound - 1 /\ m - 1 + 1 = m
  BY <1>1
<1> QED BY <1>1, <1>2

Labels == Open \cup {"closed", "accepting"}

Shape ==
  /\ daemon \in {"none", "running", "quiesced", "shutdown"}
  /\ pc \in [Connections -> Labels]
  /\ in_time \in [Connections -> BOOLEAN]

\* A connection that is accepted but not counted yet needs the service as well: this is
\* what stop relies on when it joins the threads after its polling.
Alive ==
  /\ daemon # "none" => service
  /\ \A c \in Connections : pc[c] # "closed" => daemon # "none"

\* Who is counted in time is counted until the request is completed.
Counted == \A c \in Connections : in_time[c] => pc[c] \in Open

IInv == Shape /\ Alive /\ Counted /\ RequestsFinish

LEMMA InitIInv == Init => IInv
BY DEF Init, IInv, Shape, Labels, Alive, Counted, RequestsFinish

\* What is not running is not joined: only StopDaemon and Stopped change what RequestsFinish
\* says of the daemon.
LEMMA StepIInv == IInv /\ [Next]_vars => IInv'
<1> SUFFICES ASSUME IInv, [Next]_vars PROVE IInv'
  OBVIOUS
<1> USE DEF IInv, Shape, Labels, Open, Alive, Counted, RequestsFinish
<1>1. CASE Start
  BY <1>1 DEF Start
<1>2. CASE Quiesce
  BY <1>2 DEF Quiesce
<1>3. CASE StopDaemon
  <2>1. \A c \in Connections : ~in_time[c]
    BY <1>3 DEF StopDaemon, connections
  <2> QED  BY <1>3, <2>1 DEF StopDaemon
<1>4. CASE Stopped
  BY <1>4 DEF Stopped
<1>5. ASSUME NEW c \in Connections, Advance(c) PROVE IInv'
  <2>1. CASE Accepted(c)
    BY <2>1 DEF Accepted, Goto, server
  <2>2. CASE HandleHeaders(c)
    BY <2>2 DEF HandleHeaders, Goto, server
  <2>3. CASE HandleComplete(c)
    <3>1. /\ pc[c] = "upload" /\ UNCHANGED <<server, in_time>>
          /\ \E label \in {"handling", "replying"} : pc' = [pc EXCEPT ![c] = label]
      BY <2>3 DEF HandleComplete, Goto
    <3> QED  BY <3>1 DEF server
  <2>4. CASE ServiceResponds(c)
    BY <2>4 DEF ServiceResponds, Goto, server
  <2>5. CASE Finish(c)
    BY <2>5 DEF Finish, Completed, Goto, server
  <2>6. CASE \E n \in 1..Len(input[c].upload) - received[c] : HandleUpload(c, n)
    BY <2>6 DEF HandleUpload, server
  <2> QED  BY <1>5, <2>1, <2>2, <2>3, <2>4, <2>5, <2>6 DEF Advance
<1>6. ASSUME NEW c \in Connections, NEW r \in Requests, Connect(c, r) PROVE IInv'
  BY <1>6 DEF Connect, Goto, server
<1>7. CASE UNCHANGED vars
  BY <1>7 DEF vars, server
<1> QED  BY <1>1, <1>2, <1>3, <1>4, <1>5, <1>6, <1>7 DEF Next

LEMMA IInvHolds == Spec => []IInv
BY InitIInv, StepIInv, PTL DEF Spec

\* No handler and no generator of a reply finds the service gone (rest_server::stop drops
\* it only after MHD_stop_daemon).
THEOREM ServiceOutlives == Spec => []ServiceAlive
<1>1. IInv => ServiceAlive
  BY DEF IInv, Alive, ServiceAlive, Open
<1> QED  BY IInvHolds, <1>1, PTL

\* stop lets the requests finish that it found (the polling in rest_server::stop).
THEOREM StopAwaits == Spec => []RequestsFinish
<1>1. IInv => RequestsFinish
  BY DEF IInv
<1> QED  BY IInvHolds, <1>1, PTL
-----------------------------------------------------------------------------
(* The arguments in the URL.                                                 *)

Parameters == UNION {[K -> Seq(STRING)] : K \in SUBSET STRING}
Argument == [key : STRING, value : Seq(STRING)]

LEMMA ParametersAre ==
  ASSUME NEW params \in Parameters
  PROVE  /\ DOMAIN params \in SUBSET STRING /\ params = [k \in DOMAIN params |-> params[k]]
         /\ \A k \in DOMAIN params : params[k] \in Seq(STRING)
BY DEF Parameters

LEMMA PutIs ==
  ASSUME NEW params \in Parameters, NEW key \in STRING, NEW v \in Seq(STRING)
  PROVE  /\ Put(params, key, v) \in Parameters /\ DOMAIN Put(params, key, v) = DOMAIN params \cup {key}
         /\ Put(params, key, v)[key] = v
         /\ \A k \in DOMAIN params : k # key => Put(params, key, v)[k] = params[k]
<1>1. DOMAIN params \in SUBSET STRING /\ \A k \in DOMAIN params : params[k] \in Seq(STRING)
  BY ParametersAre
<1>2. Put(params, key, v) \in [DOMAIN params \cup {key} -> Seq(STRING)] /\ DOMAIN params \cup {key} \in SUBSET STRING
  BY <1>1 DEF Put
<1>3. Put(params, key, v) \in Parameters
  BY <1>2 DEF Parameters
<1> QED BY <1>1, <1>3 DEF Put

\* The arguments after n of them: of several values the first.
Firsts(get, n, params) ==
  /\ params \in Parameters /\ DOMAIN params = {get[k].key : k \in 1..n}
  /\ \A k \in 1..n : (\A j \in 1..k - 1 : get[j].key # get[k].key) => params[get[k].key] = get[k].value

LEMMA EmplacedIs ==
  ASSUME NEW get \in Seq(Argument), NEW n \in 0..Len(get) - 1, NEW params, Firsts(get, n, params)
  PROVE  Firsts(get, n + 1, Emplaced(params, get[n + 1]))
<1> DEFINE key == get[n + 1].key
           p == Emplaced(params, get[n + 1])
<1>1. n \in Nat /\ n + 1 \in 1..Len(get) /\ get[n + 1] \in Argument /\ 1..n + 1 = 1..n \cup {n + 1}
  OBVIOUS
<1>2. key \in STRING /\ get[n + 1].value \in Seq(STRING)
  BY <1>1 DEF Argument
<1>3. params \in Parameters /\ DOMAIN params = {get[k].key : k \in 1..n}
      /\ \A k \in 1..n : (\A j \in 1..k - 1 : get[j].key # get[k].key) => params[get[k].key] = get[k].value
  BY DEF Firsts
<1>4. CASE key \in DOMAIN params
  <2>1. p = params
    BY <1>4 DEF Emplaced
  <2>2. PICK j \in 1..n : get[j].key = key
    BY <1>3, <1>4
  <2>3. j \in 1..(n + 1) - 1
    BY <1>1
  <2>4. {get[k].key : k \in 1..n + 1} = {get[k].key : k \in 1..n}
    BY <1>1, <2>2
  <2>5. \A k \in 1..n + 1 : (\A i \in 1..k - 1 : get[i].key # get[k].key) => p[get[k].key] = get[k].value
    BY <1>1, <1>3, <2>1, <2>2, <2>3
  <2> QED BY <1>3, <2>1, <2>4, <2>5 DEF Firsts
<1>5. CASE key \notin DOMAIN params
  <2>1. p = Put(params, key, get[n + 1].value)
    BY <1>5 DEF Emplaced
  <2> HIDE DEF p
  <2>2. /\ p \in Parameters /\ DOMAIN p = DOMAIN params \cup {key} /\ p[key] = get[n + 1].value
        /\ \A k \in DOMAIN params : k # key => p[k] = params[k]
    <3> DEFINE v == get[n + 1].value
    <3>1. key \in STRING /\ v \in Seq(STRING) /\ p = Put(params, key, v) /\ params \in Parameters
      BY <1>2, <1>3, <2>1
    <3> HIDE DEF key, v
    <3>2. /\ p \in Parameters /\ DOMAIN p = DOMAIN params \cup {key} /\ p[key] = v
          /\ \A k \in DOMAIN params : k # key => p[k] = params[k]
      BY <3>1, PutIs
    <3> QED BY <3>2 DEF v
  <2>3. {get[k].key : k \in 1..n + 1} = {get[k].key : k \in 1..n} \cup {key}
    BY <1>1
  <2>4. ASSUME NEW k \in 1..n + 1, \A i \in 1..k - 1 : get[i].key # get[k].key
        PROVE  p[get[k].key] = get[k].value
    <3>1. CASE k = n + 1
      BY <2>2, <3>1
    <3>2. CASE k \in 1..n
      <4>1. get[k].key \in DOMAIN params
        BY <1>3, <3>2
      <4> QED BY <1>3, <1>5, <2>2, <2>4, <3>2, <4>1
    <3> QED BY <1>1, <2>4, <3>1, <3>2
  <2>5. p \in Parameters /\ DOMAIN p = {get[k].key : k \in 1..n + 1}
    BY <1>3, <2>2, <2>3
  <2>6. Firsts(get, n + 1, p)
    BY <2>4, <2>5 DEF Firsts
  <2> QED BY <2>6 DEF p
<1> QED BY <1>4, <1>5

LEMMA CollectedIs ==
  ASSUME NEW get \in Seq(Argument)
  PROVE  Firsts(get, Len(get), Collected(get))
<1> DEFINE Step(f, m) == [n \in 0..m |-> IF n = 0 THEN <<>> ELSE Emplaced(f[n - 1], get[n])]
           S == {m \in Nat : \E f : f = Step(f, m)}
           params == CHOOSE f : f = Step(f, Len(get))
<1>1. Len(get) \in Nat
  OBVIOUS
<1>2. 0 \in S
  <2> DEFINE f == [n \in 0..0 |-> <<>>]
  <2>1. f = Step(f, 0)
    OBVIOUS
  <2> QED BY <2>1
<1>3. ASSUME NEW m \in 0..Len(get) - 1, m \in S PROVE m + 1 \in S
  <2>1. PICK f : f = Step(f, m)
    BY <1>3
  <2> DEFINE g == [n \in 0..m + 1 |-> IF n = m + 1 THEN Emplaced(f[m], get[m + 1]) ELSE f[n]]
  <2>2. ASSUME NEW n \in 0..m + 1 PROVE g[n] = IF n = 0 THEN <<>> ELSE Emplaced(g[n - 1], get[n])
    <3>1. CASE n = m + 1
      BY <3>1
    <3>2. CASE n # m + 1
      <4>1. n \in 0..m /\ (n # 0 => n - 1 \in 0..m + 1 /\ n - 1 # m + 1)
        BY <3>2
      <4>2. f[n] = IF n = 0 THEN <<>> ELSE Emplaced(f[n - 1], get[n])
        BY <2>1, <4>1
      <4> QED BY <3>2, <4>1, <4>2
    <3> QED BY <3>1, <3>2
  <2>3. g = Step(g, m + 1)
    BY <2>2
  <2> HIDE DEF g
  <2>4. m + 1 \in Nat
    OBVIOUS
  <2> QED BY <2>3, <2>4
<1>4. params = Step(params, Len(get))
  <2>1. Len(get) \in S
    <3> HIDE DEF S
    <3> QED BY <1>1, <1>2, <1>3, UpTo, Len(get) \in 0..Len(get)
  <2> QED BY <2>1
<1>5. Collected(get) = params[Len(get)]
  BY DEF Collected
<1> HIDE DEF params, S
<1>6. params[0] = <<>> /\ \A n \in 0..Len(get) - 1 : params[n + 1] = Emplaced(params[n], get[n + 1])
  BY <1>1, <1>4
<1> DEFINE R == {n \in Nat : Firsts(get, n, params[n])}
<1>7. 0 \in R
  <2>1. <<>> \in [{} -> Seq(STRING)] /\ {} \in SUBSET STRING /\ DOMAIN <<>> = {} /\ 1..0 = {}
    OBVIOUS
  <2>2. <<>> \in Parameters
    BY <2>1 DEF Parameters
  <2>3. Firsts(get, 0, <<>>)
    BY <2>1, <2>2 DEF Firsts
  <2> QED BY <1>6, <2>3
<1>8. ASSUME NEW n \in 0..Len(get) - 1, n \in R PROVE n + 1 \in R
  BY <1>6, <1>8, EmplacedIs
<1>9. Len(get) \in R
  <2> HIDE DEF R
  <2> QED BY <1>1, <1>7, <1>8, UpTo, Len(get) \in 0..Len(get)
<1> QED BY <1>5, <1>9
-----------------------------------------------------------------------------
(* The arguments in a form.                                                  *)

Name == STRING \cup {"none"}
microhttpd_request ==
  [params : Parameters, body : Seq(STRING), unsupported : BOOLEAN, remaining : Nat,
   post_processor : [key : Name, encoding : Name, off : Nat]]

LEMMA PostIteratorIs ==
  ASSUME NEW q \in microhttpd_request, q.post_processor.key \in STRING, NEW data \in Seq(STRING)
  PROVE  /\ PostIterator(q, data) \in microhttpd_request
         /\ PostIterator(q, data).body = q.body /\ PostIterator(q, data).remaining = q.remaining
         /\ PostIterator(q, data).post_processor = q.post_processor
         /\ ~PostIterator(q, data).unsupported =>
              /\ ~q.unsupported
              /\ PostIterator(q, data).params =
                   Put(q.params, q.post_processor.key,
                       (IF q.post_processor.off = 0 THEN <<>> ELSE Value(q, q.post_processor.key)) \o data)
<1> DEFINE key == q.post_processor.key
           old == IF q.post_processor.off = 0 THEN <<>> ELSE Value(q, key)
<1>1. key \in STRING /\ q.params \in Parameters
  BY DEF microhttpd_request
<1>2. Value(q, key) \in Seq(STRING) /\ <<>> \in Seq(STRING)
  <2>1. <<>> \in Seq(STRING)
    OBVIOUS
  <2> DEFINE params == q.params
  <2>2. params \in Parameters
    BY <1>1
  <2>3. Value(q, key) = IF key \in DOMAIN params THEN params[key] ELSE <<>>
    BY DEF Value
  <2> HIDE DEF params, key
  <2>4. \A k \in DOMAIN params : params[k] \in Seq(STRING)
    BY <2>2, ParametersAre
  <2> QED BY <2>1, <2>3, <2>4
<1> HIDE DEF key
<1>3. old \in Seq(STRING)
  <2>1. CASE q.post_processor.off = 0
    BY <1>2, <2>1
  <2>2. CASE q.post_processor.off # 0
    BY <1>2, <2>2
  <2> QED BY <2>1, <2>2
<1>4. old \o data \in Seq(STRING)
  BY <1>3
<1> HIDE DEF old
<1>5. Put(q.params, key, old \o data) \in Parameters
  BY <1>1, <1>4, PutIs
<1>6. PostIterator(q, data) =
        IF q.unsupported THEN q
        ELSE IF q.post_processor.encoding \notin Supported THEN [q EXCEPT !.unsupported = TRUE]
        ELSE [q EXCEPT !.params = Put(q.params, key, old \o data)]
  BY DEF PostIterator, key, old
<1>7. CASE q.unsupported
  BY <1>6, <1>7
<1>8. CASE ~q.unsupported /\ q.post_processor.encoding \notin Supported
  BY <1>6, <1>8 DEF microhttpd_request
<1>9. CASE ~q.unsupported /\ q.post_processor.encoding \in Supported
  <2>1. PostIterator(q, data) = [q EXCEPT !.params = Put(q.params, key, old \o data)]
    BY <1>6, <1>9
  <2>2. PostIterator(q, data).params = Put(q.params, key, old \o data)
    BY <2>1 DEF microhttpd_request
  <2> QED BY <1>5, <1>9, <2>1, <2>2 DEF microhttpd_request, key, old
<1> QED BY <1>7, <1>8, <1>9

\* The keys among the first units, and the value that goes from a key to a unit.
Keys(u, m) == {k \in 1..m : u[k].kind = "key"}
Run(u, k, j) == \A i \in k + 1..j : u[i].kind = "data"
Bytes(u, k, j) == [i \in 1..j - k |-> u[k + i].data]

LEMMA BytesType ==
  ASSUME NEW u \in Seq(Unit), NEW k \in 1..Len(u), NEW j \in k..Len(u)
  PROVE  /\ Bytes(u, k, j) \in Seq(STRING) /\ Len(Bytes(u, k, j)) = j - k /\ Bytes(u, k, k) = <<>>
         /\ \A i \in 1..j - k : Bytes(u, k, j)[i] = u[k + i].data
<1>1. \A i \in 1..j - k : k + i \in 1..Len(u) /\ u[k + i] \in Unit
  OBVIOUS
<1>2. Bytes(u, k, j) \in [1..j - k -> STRING]
  BY <1>1 DEF Bytes, Unit
<1>3. Bytes(u, k, j) \in Seq(STRING) /\ Len(Bytes(u, k, j)) = j - k
  <2> DEFINE l == j - k
  <2>1. l \in Nat /\ Bytes(u, k, j) \in [1..l -> STRING]
    BY <1>2
  <2> HIDE DEF l
  <2>2. Bytes(u, k, j) \in Seq(STRING) /\ Len(Bytes(u, k, j)) = l
    BY <2>1
  <2> QED BY <2>2 DEF l
<1>4. Bytes(u, k, k) = <<>>
  BY DEF Bytes
<1> QED BY <1>3, <1>4 DEF Bytes

LEMMA BytesAppend ==
  ASSUME NEW u \in Seq(Unit), NEW k \in 1..Len(u), NEW j \in k..Len(u) - 1
  PROVE  Bytes(u, k, j + 1) = Bytes(u, k, j) \o <<u[j + 1].data>>
<1> DEFINE a == Bytes(u, k, j)
           x == u[j + 1].data
           c == Bytes(u, k, j + 1)
<1>1. j + 1 \in 1..Len(u) /\ j + 1 \in k..Len(u) /\ j \in k..Len(u) /\ j + 1 - k = j - k + 1 /\ j - k \in Nat
  OBVIOUS
<1>2. x \in STRING
  <2>1. u[j + 1] \in Unit
    BY <1>1
  <2> QED BY <2>1 DEF Unit
<1>3. a \in Seq(STRING) /\ Len(a) = j - k /\ \A i \in 1..j - k : a[i] = u[k + i].data
  BY <1>1, BytesType
<1>4. c \in Seq(STRING) /\ Len(c) = j - k + 1 /\ \A i \in 1..j - k + 1 : c[i] = u[k + i].data
  BY <1>1, BytesType
<1> HIDE DEF a, c, x
<1>5. /\ Append(a, x) \in Seq(STRING) /\ Len(Append(a, x)) = j - k + 1 /\ Append(a, x)[j - k + 1] = x
      /\ \A i \in 1..j - k : Append(a, x)[i] = a[i]
  BY <1>2, <1>3, AppendProperties
<1>6. ASSUME NEW i \in 1..j - k + 1 PROVE c[i] = Append(a, x)[i]
  <2>1. CASE i = j - k + 1
    <3>1. k + i = j + 1
      BY <2>1
    <3> QED BY <1>4, <1>5, <2>1, <3>1 DEF x
  <2>2. CASE i # j - k + 1
    <3>1. i \in 1..j - k
      BY <1>1, <2>2
    <3> QED BY <1>3, <1>4, <1>5, <3>1
  <2> QED BY <2>1, <2>2
<1>7. c = Append(a, x)
  BY <1>4, <1>5, <1>6, SeqEqual
<1>8. c = a \o <<x>>
  BY <1>2, <1>3, <1>7, AppendIsConcat
<1> QED BY <1>8 DEF a, c, x

\* The arguments after n units, when m of them have been seen by the iterator: of several values
\* in the form the last, as far as it has come; otherwise the first of the URL.
Filled(params, get, u, n, m) ==
  /\ params \in Parameters
  /\ DOMAIN params = {get[k].key : k \in 1..Len(get)} \cup {u[k].key : k \in Keys(u, m)}
  /\ \A k \in Keys(u, m) : (\A l \in Keys(u, m) : l > k => u[l].key # u[k].key) =>
       \E j \in k..n : Run(u, k, j) /\ (j = n \/ u[j + 1].kind # "data") /\ params[u[k].key] = Bytes(u, k, j)
  /\ \A k \in 1..Len(get) :
       (\A j \in 1..k - 1 : get[j].key # get[k].key) /\ (\A l \in Keys(u, m) : u[l].key # get[k].key) =>
         params[get[k].key] = get[k].value

\* The iterator is called for the value that began at p.
LEMMA ValueFilled ==
  ASSUME NEW u \in Seq(Unit), NEW get \in Seq(Argument), NEW params, NEW n \in 1..Len(u), NEW p \in Keys(u, n), Run(u, p, n),
         Filled(params, get, u, n, n - 1),
         NEW data, NEW n2, \/ n2 = n /\ data = <<>>
                           \/ n2 = n + 1 /\ n2 <= Len(u) /\ u[n2].kind = "data" /\ data = <<u[n2].data>>
  PROVE  Filled(Put(params, u[p].key, (IF n = p THEN <<>> ELSE params[u[p].key]) \o data), get, u, n2, n)
<1> DEFINE old == IF n = p THEN <<>> ELSE params[u[p].key]
           key == u[p].key
           q == Put(params, key, old \o data)
<1>1. n \in Nat /\ p \in 1..n /\ p \in 1..Len(u) /\ u[p].kind = "key" /\ Len(u) \in Nat /\ key \in STRING
      /\ n2 \in n..n + 1 /\ n2 \in p..Len(u) /\ n \in p..Len(u)
  <2>1. n \in Nat /\ p \in 1..n /\ u[p].kind = "key" /\ Len(u) \in Nat /\ n <= Len(u)
    BY DEF Keys
  <2>2. p \in 1..Len(u) /\ n \in p..Len(u)
    BY <2>1
  <2>3. u[p] \in Unit
    BY <2>2
  <2>4. key \in STRING
    BY <2>3 DEF Unit
  <2>5. n2 \in n..n + 1 /\ n2 \in p..Len(u)
    BY <2>1, <2>2
  <2> QED BY <2>1, <2>2, <2>4, <2>5
<1>2. \A k \in Keys(u, n) : k \in 1..p
  BY <1>1 DEF Keys, Run
<1>3. \A k \in Keys(u, n) : k # p => k \in Keys(u, n - 1) /\ k < p
  BY <1>1, <1>2 DEF Keys
<1>4. Keys(u, n - 1) \subseteq Keys(u, n) /\ (p # n => p \in Keys(u, n - 1))
  BY <1>1 DEF Keys
<1>5. /\ params \in Parameters
      /\ DOMAIN params = {get[k].key : k \in 1..Len(get)} \cup {u[k].key : k \in Keys(u, n - 1)}
      /\ \A k \in Keys(u, n - 1) : (\A l \in Keys(u, n - 1) : l > k => u[l].key # u[k].key) =>
           \E j \in k..n : Run(u, k, j) /\ (j = n \/ u[j + 1].kind # "data") /\ params[u[k].key] = Bytes(u, k, j)
      /\ \A k \in 1..Len(get) :
           (\A j \in 1..k - 1 : get[j].key # get[k].key) /\ (\A l \in Keys(u, n - 1) : u[l].key # get[k].key) =>
             params[get[k].key] = get[k].value
  BY DEF Filled
<1>6. old = Bytes(u, p, n)
  <2>1. CASE n = p
    <3>1. p \in p..Len(u)
      BY <1>1
    <3> QED BY <1>1, <2>1, <3>1, BytesType
  <2>2. CASE n # p
    <3>1. p \in Keys(u, n - 1) /\ \A l \in Keys(u, n - 1) : ~(l > p)
      BY <1>1, <1>2, <1>4, <2>2
    <3>2. PICK j \in p..n : Run(u, p, j) /\ (j = n \/ u[j + 1].kind # "data") /\ params[u[p].key] = Bytes(u, p, j)
      BY <1>5, <3>1
    <3>3. j = n
      <4> SUFFICES ASSUME j # n PROVE FALSE
        OBVIOUS
      <4>1. j + 1 \in p + 1..n
        BY <1>1, <3>2
      <4> QED BY <3>2, <4>1 DEF Run
    <3> QED BY <2>2, <3>2, <3>3
  <2> QED BY <2>1, <2>2
<1>7. old \o data = Bytes(u, p, n2) /\ Bytes(u, p, n2) \in Seq(STRING) /\ Run(u, p, n2)
  <2>1. Bytes(u, p, n) \in Seq(STRING) /\ Bytes(u, p, n2) \in Seq(STRING)
    BY <1>1, BytesType
  <2>2. CASE n2 = n /\ data = <<>>
    BY <1>6, <2>1, <2>2
  <2>3. CASE n2 = n + 1 /\ n2 <= Len(u) /\ u[n2].kind = "data" /\ data = <<u[n2].data>>
    <3>1. n \in p..Len(u) - 1
      BY <1>1, <2>3
    <3>2. Bytes(u, p, n + 1) = Bytes(u, p, n) \o <<u[n + 1].data>>
      BY <1>1, <3>1, BytesAppend
    <3>3. Run(u, p, n2)
      BY <1>1, <2>3 DEF Run
    <3> QED BY <1>6, <2>1, <2>3, <3>2, <3>3
  <2> QED BY <2>2, <2>3
<1> HIDE DEF old, key
<1>8. /\ q \in Parameters /\ DOMAIN q = DOMAIN params \cup {key} /\ q[key] = Bytes(u, p, n2)
      /\ \A k \in DOMAIN params : k # key => q[k] = params[k]
  <2> DEFINE v == old \o data
  <2>1. params \in Parameters /\ key \in STRING /\ v \in Seq(STRING) /\ v = Bytes(u, p, n2) /\ q = Put(params, key, v)
    BY <1>1, <1>5, <1>7
  <2> HIDE DEF v, q
  <2>2. /\ q \in Parameters /\ DOMAIN q = DOMAIN params \cup {key} /\ q[key] = v
        /\ \A k \in DOMAIN params : k # key => q[k] = params[k]
    BY <2>1, PutIs
  <2> QED BY <2>1, <2>2
<1> HIDE DEF q
<1>9. DOMAIN q = {get[k].key : k \in 1..Len(get)} \cup {u[k].key : k \in Keys(u, n)}
  <2>1. {u[k].key : k \in Keys(u, n)} = {u[k].key : k \in Keys(u, n - 1)} \cup {key}
    BY <1>3, <1>4 DEF key
  <2> QED BY <1>5, <1>8, <2>1
<1>10. ASSUME NEW k \in Keys(u, n), \A l \in Keys(u, n) : l > k => u[l].key # u[k].key
       PROVE  \E j \in k..n2 : Run(u, k, j) /\ (j = n2 \/ u[j + 1].kind # "data") /\ q[u[k].key] = Bytes(u, k, j)
  <2>1. CASE k = p
    BY <1>1, <1>7, <1>8, <2>1 DEF key
  <2>2. CASE k # p
    <3>1. k \in Keys(u, n - 1) /\ k < p /\ k \in 1..n
      BY <1>3, <2>2 DEF Keys
    <3>2. u[k].key # key /\ \A l \in Keys(u, n - 1) : l > k => u[l].key # u[k].key
      BY <1>1, <1>4, <1>10, <3>1 DEF key
    <3>3. PICK j \in k..n : Run(u, k, j) /\ (j = n \/ u[j + 1].kind # "data") /\ params[u[k].key] = Bytes(u, k, j)
      BY <1>5, <3>1, <3>2
    <3>4. j < p
      <4> SUFFICES ASSUME ~(j < p) PROVE FALSE
        OBVIOUS
      <4>1. p \in k + 1..j
        BY <1>1, <3>1, <3>3
      <4> QED BY <1>1, <3>3, <4>1 DEF Run
    <3>5. j # n /\ j \in k..n2
      BY <1>1, <3>1, <3>3, <3>4
    <3>6. q[u[k].key] = params[u[k].key]
      BY <1>5, <1>8, <3>1, <3>2
    <3> QED BY <3>3, <3>5, <3>6
  <2> QED BY <2>1, <2>2
<1>11. ASSUME NEW k \in 1..Len(get), \A j \in 1..k - 1 : get[j].key # get[k].key, \A l \in Keys(u, n) : u[l].key # get[k].key
       PROVE  q[get[k].key] = get[k].value
  <2>1. get[k].key # key /\ get[k].key \in DOMAIN params
    BY <1>1, <1>5, <1>11 DEF key
  <2> QED BY <1>4, <1>5, <1>8, <1>11, <2>1
<1>12. Filled(q, get, u, n2, n)
  BY <1>8, <1>9, <1>10, <1>11 DEF Filled
<1> QED BY <1>12 DEF q, old, key

\* Between two values there is nothing to fill.
LEMMA NextKeyFilled ==
  ASSUME NEW u \in Seq(Unit), NEW get \in Seq(Argument), NEW params, NEW n \in 0..Len(u), n = 0 \/ u[n].kind = "end",
         Filled(params, get, u, n, n - 1)
  PROVE  Filled(params, get, u, n, n) /\ Filled(params, get, u, n + 1, n)
<1>1. Keys(u, n) = Keys(u, n - 1) /\ n \in Nat
  <2>1. \A k : k \in 1..n <=> k \in 1..n - 1 \/ (k = n /\ n # 0)
    OBVIOUS
  <2> QED BY <2>1 DEF Keys
<1>2. ASSUME NEW k \in Keys(u, n), NEW j \in k..n, Run(u, k, j), j = n PROVE FALSE
  <2>1. k \in 1..n - 1 /\ n \in k + 1..j
    BY <1>1, <1>2 DEF Keys
  <2> QED BY <1>2, <2>1 DEF Run
<1>3. /\ params \in Parameters
      /\ DOMAIN params = {get[k].key : k \in 1..Len(get)} \cup {u[k].key : k \in Keys(u, n)}
      /\ \A k \in Keys(u, n) : (\A l \in Keys(u, n) : l > k => u[l].key # u[k].key) =>
           \E j \in k..n : Run(u, k, j) /\ (j = n \/ u[j + 1].kind # "data") /\ params[u[k].key] = Bytes(u, k, j)
      /\ \A k \in 1..Len(get) :
           (\A j \in 1..k - 1 : get[j].key # get[k].key) /\ (\A l \in Keys(u, n) : u[l].key # get[k].key) =>
             params[get[k].key] = get[k].value
  BY <1>1 DEF Filled
<1>4. Filled(params, get, u, n, n)
  BY <1>3 DEF Filled
<1>5. ASSUME NEW k \in Keys(u, n), \A l \in Keys(u, n) : l > k => u[l].key # u[k].key
      PROVE  \E j \in k..n + 1 : Run(u, k, j) /\ (j = n + 1 \/ u[j + 1].kind # "data") /\ params[u[k].key] = Bytes(u, k, j)
  <2>1. PICK j \in k..n : Run(u, k, j) /\ (j = n \/ u[j + 1].kind # "data") /\ params[u[k].key] = Bytes(u, k, j)
    BY <1>3, <1>5
  <2>2. j # n /\ j \in k..n + 1
    BY <1>1, <1>2, <2>1 DEF Keys
  <2> QED BY <2>1, <2>2
<1>6. Filled(params, get, u, n + 1, n)
  BY <1>3, <1>5 DEF Filled
<1> QED BY <1>4, <1>6

LEMMA EndFilled ==
  ASSUME NEW u \in Seq(Unit), NEW get \in Seq(Argument), NEW params, NEW n \in 0..Len(u) - 1, u[n + 1].kind = "end",
         Filled(params, get, u, n, n)
  PROVE  Filled(params, get, u, n + 1, n)
<1>1. ASSUME NEW k \in Keys(u, n), \A l \in Keys(u, n) : l > k => u[l].key # u[k].key
      PROVE  \E j \in k..n + 1 : Run(u, k, j) /\ (j = n + 1 \/ u[j + 1].kind # "data") /\ params[u[k].key] = Bytes(u, k, j)
  <2>1. PICK j \in k..n : Run(u, k, j) /\ (j = n \/ u[j + 1].kind # "data") /\ params[u[k].key] = Bytes(u, k, j)
    BY <1>1 DEF Filled
  <2>2. u[j + 1].kind # "data" /\ j \in k..n + 1
    BY <2>1 DEF Keys
  <2> QED BY <2>1, <2>2
<1> QED BY <1>1 DEF Filled
\* What the post processor knows after n units: the value that it is in, and how much of it came.
InValue(pp, u, n) ==
  IF n = 0 \/ u[n].kind = "end" THEN pp.key = "none"
  ELSE \E p \in Keys(u, n) : Run(u, p, n) /\ pp.key = u[p].key /\ pp.off = n - p

FormAt(q, get, u, n) ==
  /\ q \in microhttpd_request /\ q.body = <<>> /\ InValue(q.post_processor, u, n)
  /\ ~q.unsupported => Filled(q.params, get, u, n, n - 1)

Form(u) == u \in Seq(Unit) /\ Framed(u) /\ \A k \in DOMAIN u : u[k].kind = "key" => u[k].key # "none"

LEMMA IteratedIs ==
  ASSUME NEW u, Form(u), NEW get \in Seq(Argument), NEW q, NEW n \in 1..Len(u), u[n].kind # "end", FormAt(q, get, u, n),
         NEW data \in Seq(STRING),
         NEW n2, \/ n2 = n /\ data = <<>>
                 \/ n2 = n + 1 /\ n2 <= Len(u) /\ u[n2].kind = "data" /\ data = <<u[n2].data>>
  PROVE  /\ PostIterator(q, data) \in microhttpd_request
         /\ PostIterator(q, data).body = <<>> /\ PostIterator(q, data).remaining = q.remaining
         /\ PostIterator(q, data).post_processor = q.post_processor /\ q.post_processor.key # "none"
         /\ ~PostIterator(q, data).unsupported => Filled(PostIterator(q, data).params, get, u, n2, n)
<1>1. u \in Seq(Unit) /\ q \in microhttpd_request /\ q.body = <<>> /\ n \in Nat /\ n # 0
  BY DEF Form, FormAt
<1>2. PICK p \in Keys(u, n) : Run(u, p, n) /\ q.post_processor.key = u[p].key /\ q.post_processor.off = n - p
  BY <1>1 DEF FormAt, InValue
<1>3. p \in 1..n /\ p \in DOMAIN u /\ u[p].kind = "key" /\ u[p].key # "none"
  <2>1. p \in 1..n /\ p \in DOMAIN u /\ u[p].kind = "key"
    BY <1>1 DEF Keys
  <2> QED BY <2>1 DEF Form
<1>0. q.post_processor.key \in STRING
  <2>1. u[p] \in Unit
    BY <1>1, <1>3
  <2> QED BY <1>2, <2>1 DEF Unit
<1>4. ASSUME ~PostIterator(q, data).unsupported PROVE Filled(PostIterator(q, data).params, get, u, n2, n)
  <2> DEFINE old == IF q.post_processor.off = 0 THEN <<>> ELSE Value(q, q.post_processor.key)
             params == q.params
  <2>1. ~q.unsupported /\ PostIterator(q, data).params = Put(q.params, q.post_processor.key, old \o data)
    BY <1>0, <1>1, <1>4, PostIteratorIs
  <2>2. Filled(q.params, get, u, n, n - 1)
    BY <2>1 DEF FormAt
  <2>3. old = IF n = p THEN <<>> ELSE params[u[p].key]
    <3>1. CASE n = p
      BY <1>2, <1>3, <3>1
    <3>2. CASE n # p
      <4>1. p \in Keys(u, n - 1) /\ n - p # 0
        BY <1>1, <1>3, <3>2 DEF Keys
      <4>2. u[p].key \in DOMAIN params
        BY <2>2, <4>1 DEF Filled
      <4> QED BY <1>2, <3>2, <4>1, <4>2 DEF Value
    <3> QED BY <3>1, <3>2
  <2> HIDE DEF old, params
  <2>4. Filled(params, get, u, n, n - 1)
    BY <2>2 DEF params
  <2>5. Filled(Put(params, u[p].key, (IF n = p THEN <<>> ELSE params[u[p].key]) \o data), get, u, n2, n)
    BY <1>1, <1>2, <2>4, ValueFilled
  <2> QED BY <1>2, <2>1, <2>3, <2>5 DEF params
<1> QED BY <1>0, <1>1, <1>2, <1>3, <1>4, PostIteratorIs

LEMMA ProcessedIs ==
  ASSUME NEW u, Form(u), NEW get \in Seq(Argument), NEW q, NEW n \in 0..Len(u) - 1, FormAt(q, get, u, n)
  PROVE  FormAt(Processed(q, u[n + 1]), get, u, n + 1) /\ Processed(q, u[n + 1]).remaining = q.remaining
<1>1. /\ u \in Seq(Unit) /\ q \in microhttpd_request /\ q.body = <<>> /\ n \in Nat /\ n + 1 \in 1..Len(u) /\ n + 1 - 1 = n
      /\ n \in 0..Len(u) /\ n + 1 # 0
  BY DEF Form, FormAt
<1>2. u[n + 1] \in Unit
  BY <1>1
<1>3. u[n + 1].kind = "key" <=> n = 0 \/ u[n].kind = "end"
  <2> DEFINE k == n + 1
  <2>1. k \in DOMAIN u /\ (k = 1 <=> n = 0) /\ k - 1 = n
    BY <1>1
  <2> HIDE DEF k
  <2>2. u[k].kind = "key" <=> k = 1 \/ u[k - 1].kind = "end"
    BY <2>1 DEF Form, Framed
  <2>3. u[k].kind = "key" <=> n = 0 \/ u[n].kind = "end"
    BY <2>1, <2>2
  <2> QED BY <2>3 DEF k
<1> DEFINE unit == u[n + 1]
           p == Processed(q, unit)
<1>4. CASE unit.kind = "key"
  <2> DEFINE pp == [key |-> unit.key, encoding |-> unit.encoding, off |-> 0]
  <2>1. p = [q EXCEPT !.post_processor = pp]
    BY <1>4 DEF Processed
  <2>2. pp \in [key : Name, encoding : Name, off : Nat]
    BY <1>2 DEF Unit, Name
  <2>3. p \in microhttpd_request /\ p.post_processor = pp /\ p.body = <<>> /\ p.params = q.params
        /\ p.unsupported = q.unsupported /\ p.remaining = q.remaining
    <3> HIDE DEF p, pp
    <3> QED BY <1>1, <2>1, <2>2 DEF microhttpd_request
  <2>4. InValue(pp, u, n + 1)
    <3>1. n + 1 \in Keys(u, n + 1) /\ Run(u, n + 1, n + 1) /\ pp.off = n + 1 - (n + 1) /\ pp.key = u[n + 1].key
      BY <1>1, <1>4 DEF Keys, Run
    <3>2. u[n + 1].kind # "end"
      BY <1>4
    <3> HIDE DEF pp
    <3> QED BY <1>1, <3>1, <3>2 DEF InValue
  <2>5. ~q.unsupported => Filled(q.params, get, u, n + 1, n)
    BY <1>1, <1>3, <1>4, NextKeyFilled DEF FormAt
  <2> HIDE DEF p, pp
  <2>6. FormAt(p, get, u, n + 1)
    BY <1>1, <2>3, <2>4, <2>5 DEF FormAt
  <2> QED BY <2>3, <2>6 DEF p
<1>5. ASSUME unit.kind # "key" PROVE n \in 1..Len(u) /\ u[n].kind # "end"
  BY <1>1, <1>3, <1>5
<1>6. CASE unit.kind = "data"
  <2> DEFINE data == <<unit.data>>
             q2 == PostIterator(q, data)
  <2>1. unit.kind # "key" /\ unit.kind # "end" /\ unit.data \in STRING
    BY <1>2, <1>6 DEF Unit
  <2>2. data \in Seq(STRING) /\ n \in 1..Len(u) /\ u[n].kind # "end" /\ n + 1 <= Len(u) /\ u[n + 1].kind = "data"
        /\ data = <<u[n + 1].data>>
    BY <1>1, <1>5, <1>6, <2>1
  <2> HIDE DEF q2
  <2>3. p = [q2 EXCEPT !.post_processor.off = @ + 1]
    BY <1>6 DEF Processed, q2
  <2> HIDE DEF data
  <2>4. /\ q2 \in microhttpd_request /\ q2.body = <<>> /\ q2.remaining = q.remaining
        /\ q2.post_processor = q.post_processor
        /\ ~q2.unsupported => Filled(q2.params, get, u, n + 1, n)
    <3> DEFINE n2 == n + 1
    <3>1. \/ n2 = n /\ data = <<>>
          \/ n2 = n + 1 /\ n2 <= Len(u) /\ u[n2].kind = "data" /\ data = <<u[n2].data>>
      BY <2>2
    <3> HIDE DEF n2, unit
    <3>2. /\ q2 \in microhttpd_request /\ q2.body = <<>> /\ q2.remaining = q.remaining
          /\ q2.post_processor = q.post_processor
          /\ ~q2.unsupported => Filled(q2.params, get, u, n2, n)
      <4> HIDE DEF p
      <4>1. FormAt(q, get, u, n) /\ Form(u) /\ n \in 1..Len(u) /\ u[n].kind # "end" /\ data \in Seq(STRING)
        BY <2>2
      <4>2. /\ PostIterator(q, data) \in microhttpd_request
            /\ PostIterator(q, data).body = <<>> /\ PostIterator(q, data).remaining = q.remaining
            /\ PostIterator(q, data).post_processor = q.post_processor
            /\ ~PostIterator(q, data).unsupported => Filled(PostIterator(q, data).params, get, u, n2, n)
        BY <3>1, <4>1, IteratedIs
      <4> QED BY <4>2 DEF q2
    <3> QED BY <3>2 DEF n2
  <2>5. p \in microhttpd_request /\ p.body = <<>> /\ p.params = q2.params /\ p.unsupported = q2.unsupported
        /\ p.remaining = q2.remaining /\ p.post_processor = [q2.post_processor EXCEPT !.off = @ + 1]
    <3> HIDE DEF p
    <3> QED BY <2>3, <2>4 DEF microhttpd_request
  <2>6. InValue(p.post_processor, u, n + 1)
    <3>1. PICK k \in Keys(u, n) : Run(u, k, n) /\ q.post_processor.key = u[k].key /\ q.post_processor.off = n - k
      BY <1>1, <2>2 DEF FormAt, InValue
    <3>2. k \in Keys(u, n + 1) /\ Run(u, k, n + 1) /\ n - k + 1 = n + 1 - k
      <4>1. k \in 1..n /\ u[k].kind = "key"
        BY <1>1, <3>1 DEF Keys
      <4>2. k \in 1..n + 1 /\ n - k + 1 = n + 1 - k
        BY <1>1, <4>1
      <4>3. ASSUME NEW i \in k + 1..n + 1 PROVE u[i].kind = "data"
        <5>1. i = n + 1 \/ i \in k + 1..n
          BY <1>1, <4>1
        <5> QED BY <1>6, <3>1, <5>1 DEF Run
      <4> QED BY <4>1, <4>2, <4>3 DEF Keys, Run
    <3>3. p.post_processor.key = u[k].key /\ p.post_processor.off = n + 1 - k
      <4> HIDE DEF p
      <4> QED BY <1>1, <2>4, <2>5, <3>1, <3>2 DEF microhttpd_request
    <3> DEFINE pp == p.post_processor
    <3>4. u[n + 1].kind # "end" /\ pp.key = u[k].key /\ pp.off = n + 1 - k
      BY <2>1, <3>3
    <3> HIDE DEF p, pp
    <3>5. InValue(pp, u, n + 1)
      <4> DEFINE m == n + 1
      <4>0. m = n + 1 /\ m \in Int /\ n \in Int /\ k \in Int
        <5>1. k \in 1..n
          BY DEF Keys
        <5> QED BY <1>1, <5>1
      <4> HIDE DEF m
      <4>1. /\ m # 0 /\ u[m].kind # "end"
            /\ \E j \in Keys(u, m) : Run(u, j, m) /\ pp.key = u[j].key /\ pp.off = m - j
        <5>1. m # 0 /\ u[m].kind # "end"
          BY <1>1, <3>4, <4>0
        <5>2. \E j \in Keys(u, m) : Run(u, j, m) /\ pp.key = u[j].key /\ pp.off = m - j
          BY <3>2, <3>4, <4>0
        <5> QED BY <5>1, <5>2
      <4>2. InValue(pp, u, m)
        BY <4>1 DEF InValue
      <4> QED BY <4>2 DEF m
    <3> QED BY <3>5 DEF pp
  <2> HIDE DEF p
  <2>7. FormAt(p, get, u, n + 1)
    BY <1>1, <2>4, <2>5, <2>6 DEF FormAt
  <2> QED BY <2>4, <2>5, <2>7 DEF p
<1>7. CASE unit.kind = "end"
  <2> DEFINE data == <<>>
             q2 == PostIterator(q, data)
  <2>1. unit.kind # "key"
    BY <1>7
  <2>2. data \in Seq(STRING) /\ n \in 1..Len(u) /\ u[n].kind # "end"
    BY <1>5, <2>1
  <2> HIDE DEF q2
  <2>3. p = IF q.post_processor.key = "none" THEN q ELSE [q2 EXCEPT !.post_processor.key = "none"]
    BY <1>7 DEF Processed, Ended, q2
  <2> HIDE DEF data
  <2>4. /\ q2 \in microhttpd_request /\ q2.body = <<>> /\ q2.remaining = q.remaining
        /\ q.post_processor.key # "none"
        /\ ~q2.unsupported => Filled(q2.params, get, u, n, n)
    BY <1>1, <2>2, IteratedIs DEF q2, data
  <2>5. p \in microhttpd_request /\ p.body = <<>> /\ p.params = q2.params /\ p.unsupported = q2.unsupported
        /\ p.remaining = q2.remaining /\ p.post_processor.key = "none"
    <3> DEFINE pp == [q2.post_processor EXCEPT !.key = "none"]
    <3>1. pp \in [key : Name, encoding : Name, off : Nat] /\ pp.key = "none"
      <4> DEFINE r == q2.post_processor
      <4>1. r \in [key : Name, encoding : Name, off : Nat]
        BY <2>4 DEF microhttpd_request
      <4> DEFINE none == "none"
      <4>2. none \in Name
        BY DEF Name
      <4> HIDE DEF r, none
      <4>3. [r EXCEPT !.key = none] \in [key : Name, encoding : Name, off : Nat]
        BY <4>1, <4>2
      <4>4. [r EXCEPT !.key = none].key = none
        BY <4>1
      <4> QED BY <4>3, <4>4 DEF r, none
    <3>2. p = [q2 EXCEPT !.post_processor = pp]
      BY <2>3, <2>4
    <3> HIDE DEF p, pp
    <3> QED BY <2>4, <3>1, <3>2 DEF microhttpd_request
  <2>6. ~q2.unsupported => Filled(q2.params, get, u, n + 1, n)
    BY <1>1, <1>7, <2>4, EndFilled
  <2>7. InValue(p.post_processor, u, n + 1)
    <3> HIDE DEF p
    <3> QED BY <1>1, <1>7, <2>5 DEF InValue
  <2> HIDE DEF p
  <2>8. FormAt(p, get, u, n + 1)
    BY <1>1, <2>5, <2>6, <2>7 DEF FormAt
  <2> QED BY <2>4, <2>5, <2>8 DEF p
<1> QED BY <1>2, <1>4, <1>6, <1>7 DEF Unit

\* At the end of the form, and however it ends, all its values are there.
LEMMA EndedIs ==
  ASSUME NEW u, Form(u), NEW get \in Seq(Argument), NEW q, FormAt(q, get, u, Len(u))
  PROVE  /\ Ended(q) \in microhttpd_request /\ Ended(q).body = <<>> /\ Ended(q).remaining = q.remaining
         /\ ~Ended(q).unsupported => Filled(Ended(q).params, get, u, Len(u), Len(u))
<1> DEFINE n == Len(u)
<1>1. u \in Seq(Unit) /\ q \in microhttpd_request /\ q.body = <<>> /\ n \in Nat /\ n \in 0..Len(u)
  BY DEF Form, FormAt
<1>2. CASE n = 0 \/ u[n].kind = "end"
  <2>1. Ended(q) = q
    BY <1>2 DEF FormAt, InValue, Ended
  <2>2. ~q.unsupported => Filled(q.params, get, u, n, n - 1)
    BY DEF FormAt
  <2>3. ~q.unsupported => Filled(q.params, get, u, n, n)
    <3> HIDE DEF n
    <3> QED BY <1>1, <1>2, <2>2, NextKeyFilled
  <2> QED BY <1>1, <2>1, <2>3
<1>3. CASE n # 0 /\ u[n].kind # "end"
  <2> DEFINE data == <<>>
             q2 == PostIterator(q, data)
  <2>1. data \in Seq(STRING) /\ n \in 1..Len(u) /\ FormAt(q, get, u, n)
    BY <1>1, <1>3
  <2> HIDE DEF n, data
  <2>2. /\ q2 \in microhttpd_request /\ q2.body = <<>> /\ q2.remaining = q.remaining
        /\ q.post_processor.key # "none"
        /\ ~q2.unsupported => Filled(q2.params, get, u, n, n)
    BY <1>3, <2>1, IteratedIs DEF data
  <2>3. Ended(q) = [q2 EXCEPT !.post_processor.key = "none"]
    BY <2>2 DEF Ended, q2, data
  <2> HIDE DEF q2
  <2>4. /\ Ended(q) \in microhttpd_request /\ Ended(q).body = <<>> /\ Ended(q).remaining = q2.remaining
        /\ Ended(q).params = q2.params /\ Ended(q).unsupported = q2.unsupported
    <3> DEFINE pp == [q2.post_processor EXCEPT !.key = "none"]
    <3>1. pp \in [key : Name, encoding : Name, off : Nat] /\ pp.key = "none"
      <4> DEFINE r == q2.post_processor
      <4>1. r \in [key : Name, encoding : Name, off : Nat]
        BY <2>2 DEF microhttpd_request
      <4> DEFINE none == "none"
      <4>2. none \in Name
        BY DEF Name
      <4> HIDE DEF r, none
      <4>3. [r EXCEPT !.key = none] \in [key : Name, encoding : Name, off : Nat]
        BY <4>1, <4>2
      <4>4. [r EXCEPT !.key = none].key = none
        BY <4>1
      <4> QED BY <4>3, <4>4 DEF r, none
    <3>2. Ended(q) = [q2 EXCEPT !.post_processor = pp]
      BY <2>3, <2>2
    <3> HIDE DEF pp
    <3> QED BY <2>2, <3>1, <3>2 DEF microhttpd_request
  <2> QED BY <2>2, <2>4 DEF n
<1> QED BY <1>2, <1>3
\* The next units of a form, however many.
LEMMA PostProcessIs ==
  ASSUME NEW u, Form(u), NEW get \in Seq(Argument), NEW q, NEW n \in 0..Len(u), FormAt(q, get, u, n),
         NEW units \in Seq(Unit), n + Len(units) <= Len(u), \A i \in 1..Len(units) : units[i] = u[n + i]
  PROVE  FormAt(PostProcess(q, units), get, u, n + Len(units)) /\ PostProcess(q, units).remaining = q.remaining
<1> DEFINE Step(f, m) == [i \in 0..m |-> IF i = 0 THEN q ELSE Processed(f[i - 1], units[i])]
           S == {m \in Nat : \E f : f = Step(f, m)}
           after == CHOOSE f : f = Step(f, Len(units))
<1>1. Len(units) \in Nat /\ u \in Seq(Unit) /\ Len(u) \in Nat
  BY DEF Form
<1>2. 0 \in S
  <2> DEFINE f == [i \in 0..0 |-> q]
  <2>1. f = Step(f, 0)
    OBVIOUS
  <2> QED BY <2>1
<1>3. ASSUME NEW m \in 0..Len(units) - 1, m \in S PROVE m + 1 \in S
  <2>1. PICK f : f = Step(f, m)
    BY <1>3
  <2> DEFINE g == [i \in 0..m + 1 |-> IF i = m + 1 THEN Processed(f[m], units[m + 1]) ELSE f[i]]
  <2>2. ASSUME NEW i \in 0..m + 1 PROVE g[i] = IF i = 0 THEN q ELSE Processed(g[i - 1], units[i])
    <3>1. CASE i = m + 1
      BY <3>1
    <3>2. CASE i # m + 1
      <4>1. i \in 0..m /\ (i # 0 => i - 1 \in 0..m + 1 /\ i - 1 # m + 1)
        BY <3>2
      <4>2. f[i] = IF i = 0 THEN q ELSE Processed(f[i - 1], units[i])
        BY <2>1, <4>1
      <4> QED BY <3>2, <4>1, <4>2
    <3> QED BY <3>1, <3>2
  <2>3. g = Step(g, m + 1)
    BY <2>2
  <2> HIDE DEF g
  <2>4. m + 1 \in Nat
    OBVIOUS
  <2> QED BY <2>3, <2>4
<1>4. after = Step(after, Len(units))
  <2>1. Len(units) \in S
    <3> HIDE DEF S
    <3> QED BY <1>1, <1>2, <1>3, UpTo, Len(units) \in 0..Len(units)
  <2> QED BY <2>1
<1>5. PostProcess(q, units) = after[Len(units)]
  BY DEF PostProcess
<1> HIDE DEF after, S
<1>6. after[0] = q /\ \A i \in 0..Len(units) - 1 : after[i + 1] = Processed(after[i], units[i + 1])
  BY <1>1, <1>4
<1> DEFINE R == {i \in Nat : FormAt(after[i], get, u, n + i) /\ after[i].remaining = q.remaining}
<1>7. 0 \in R
  BY <1>6
<1>8. ASSUME NEW i \in 0..Len(units) - 1, i \in R PROVE i + 1 \in R
  <2> DEFINE m == n + i
             p == after[i]
  <2>1. m \in 0..Len(u) - 1 /\ m + 1 = n + (i + 1) /\ i + 1 \in 1..Len(units) /\ i + 1 \in Nat
    BY <1>1
  <2>2. FormAt(p, get, u, m) /\ p.remaining = q.remaining
    BY <1>8
  <2>3. after[i + 1] = Processed(p, u[m + 1])
    BY <1>6, <2>1
  <2> HIDE DEF m, p
  <2>4. FormAt(Processed(p, u[m + 1]), get, u, m + 1) /\ Processed(p, u[m + 1]).remaining = p.remaining
    BY <2>1, <2>2, ProcessedIs
  <2> QED BY <2>1, <2>2, <2>3, <2>4
<1>9. Len(units) \in R
  <2> HIDE DEF R
  <2> QED BY <1>1, <1>7, <1>8, UpTo, Len(units) \in 0..Len(units)
<1> QED BY <1>5, <1>9
-----------------------------------------------------------------------------
(* What the service sees. *)

FormRequest(r) ==
  /\ r.get \in Seq(Argument) /\ r.upload \in Seq(Unit)
  /\ need_post_processor(r) => Form(r.upload)

LEMMA RequestsAre ==
  ASSUME NEW r \in Requests
  PROVE  FormRequest(r)
BY RequestsAssumption DEF FormRequest, Argument, need_post_processor, Form

LEMMA FirstGetIs ==
  ASSUME NEW r, FormRequest(r), NEW key \in {r.get[k].key : k \in DOMAIN r.get}
  PROVE  \E k \in 1..Len(r.get) :
           r.get[k].key = key /\ FirstGet(r, key) = r.get[k].value /\ \A j \in 1..k - 1 : r.get[j].key # r.get[k].key
<1> DEFINE get == r.get
           T == {k \in DOMAIN get : get[k].key = key}
<1>1. get \in Seq(Argument) /\ DOMAIN get = 1..Len(get)
  BY DEF FormRequest
<1>2. T \in SUBSET Nat /\ T # {}
  BY <1>1
<1>3. FirstGet(r, key) = get[Min(T)].value
  BY DEF FirstGet
<1>4. Min(T) \in T /\ \A k \in T : Min(T) <= k
  <2> HIDE DEF T
  <2> QED BY <1>2, LeastIsMin
<1>5. ASSUME NEW j \in 1..Min(T) - 1 PROVE get[j].key # get[Min(T)].key
  <2>1. j \in DOMAIN get /\ ~(Min(T) <= j)
    BY <1>1, <1>4
  <2> QED BY <1>4, <2>1
<1>6. Min(T) \in 1..Len(get) /\ get[Min(T)].key = key
  BY <1>1, <1>4
<1> QED BY <1>3, <1>5, <1>6

LEMMA FormValueIs ==
  ASSUME NEW r, FormRequest(r), need_post_processor(r), NEW key \in FormKeys(r)
  PROVE  LET u == r.upload IN
         \E k \in Keys(u, Len(u)) :
           /\ u[k].key = key /\ \A l \in Keys(u, Len(u)) : l > k => u[l].key # u[k].key
           /\ \A j \in k..Len(u) : Run(u, k, j) /\ (j = Len(u) \/ u[j + 1].kind # "data") => FormValue(r, key) = Bytes(u, k, j)
<1> DEFINE u == r.upload
           T == {k \in DOMAIN u : u[k].kind = "key" /\ u[k].key = key}
           k == Max(T)
           N == Len(u)
<1>1. u \in Seq(Unit) /\ DOMAIN u = 1..N /\ N \in Nat
  BY DEF FormRequest
<1>2. T \in SUBSET (0..N) /\ T # {}
  <2>1. T # {}
    BY DEF FormKeys
  <2> QED BY <1>1, <2>1
<1>3. k \in T /\ \A l \in T : l <= k
  <2> HIDE DEF T
  <2> QED BY <1>1, <1>2, GreatestIsMax
<1>4. LastKey(r, key) = k
  BY DEF LastKey
<1> HIDE DEF k
<1>5. k \in Keys(u, N) /\ u[k].key = key /\ k \in 1..N
  BY <1>1, <1>3 DEF Keys
<1>6. ASSUME NEW l \in Keys(u, N), l > k PROVE u[l].key # u[k].key
  <2>1. l \in 1..N /\ u[l].kind = "key"
    BY <1>1 DEF Keys
  <2>2. l \notin T
    BY <1>3, <1>5, <1>6, <2>1
  <2> QED BY <1>1, <1>5, <2>1, <2>2
<1>7. ASSUME NEW j \in k..N, Run(u, k, j), j = N \/ u[j + 1].kind # "data"
      PROVE  FormValue(r, key) = Bytes(u, k, j)
  <2> DEFINE first == k + 1
             W == {i \in first..N + 1 : i = N + 1 \/ u[i].kind # "data"}
             next == Min(W)
  <2>1. FormValue(r, key) = [i \in 1..next - first |-> u[first + i - 1].data]
    BY <1>4 DEF FormValue
  <2>2. j + 1 \in W /\ W \in SUBSET Nat /\ W # {}
    BY <1>1, <1>5, <1>7
  <2>3. next \in W /\ \A i \in W : next <= i
    <3> HIDE DEF W
    <3> QED BY <2>2, LeastIsMin
  <2>4. next = j + 1
    <3> SUFFICES ASSUME next # j + 1 PROVE FALSE
      OBVIOUS
    <3> HIDE DEF next
    <3>1. next \in k + 1..j /\ next # N + 1
      BY <1>1, <1>5, <2>2, <2>3
    <3> QED BY <1>7, <2>3, <3>1 DEF Run
  <2>5. next - first = j - k
    <3> HIDE DEF next
    <3> QED BY <1>5, <2>4
  <2>6. \A i \in 1..j - k : first + i - 1 = k + i
    BY <1>1, <1>5
  <2> HIDE DEF next, first
  <2> QED BY <2>1, <2>5, <2>6 DEF Bytes
<1> QED BY <1>5, <1>6, <1>7

\* However the form was cut into parts.
LEMMA FormArguments ==
  ASSUME NEW r, FormRequest(r), need_post_processor(r), NEW params,
         Filled(params, r.get, r.upload, Len(r.upload), Len(r.upload))
  PROVE  params = Arguments(r)
<1> DEFINE u == r.upload
           get == r.get
           N == Len(u)
<1>1. u \in Seq(Unit) /\ DOMAIN u = 1..N /\ N \in Nat /\ get \in Seq(Argument) /\ DOMAIN get = 1..Len(get)
  BY DEF FormRequest
<1>2. params = [k \in DOMAIN params |-> params[k]]
  <2>1. params \in Parameters
    BY DEF Filled
  <2> QED BY <2>1, ParametersAre
<1>3. FormKeys(r) = {u[k].key : k \in Keys(u, N)}
  BY <1>1 DEF FormKeys, Keys
<1>4. /\ DOMAIN params = {get[k].key : k \in 1..Len(get)} \cup {u[k].key : k \in Keys(u, N)}
      /\ \A k \in Keys(u, N) : (\A l \in Keys(u, N) : l > k => u[l].key # u[k].key) =>
           \E j \in k..N : Run(u, k, j) /\ (j = N \/ u[j + 1].kind # "data") /\ params[u[k].key] = Bytes(u, k, j)
      /\ \A k \in 1..Len(get) :
           (\A j \in 1..k - 1 : get[j].key # get[k].key) /\ (\A l \in Keys(u, N) : u[l].key # get[k].key) =>
             params[get[k].key] = get[k].value
  BY DEF Filled
<1>5. ASSUME NEW key \in FormKeys(r) PROVE params[key] = FormValue(r, key)
  <2>1. PICK k \in Keys(u, N) :
          /\ u[k].key = key /\ \A l \in Keys(u, N) : l > k => u[l].key # u[k].key
          /\ \A j \in k..N : Run(u, k, j) /\ (j = N \/ u[j + 1].kind # "data") => FormValue(r, key) = Bytes(u, k, j)
    BY FormValueIs
  <2>2. PICK j \in k..N : Run(u, k, j) /\ (j = N \/ u[j + 1].kind # "data") /\ params[u[k].key] = Bytes(u, k, j)
    BY <1>4, <2>1
  <2> QED BY <2>1, <2>2
<1>6. ASSUME NEW key \in DOMAIN params, key \notin FormKeys(r) PROVE params[key] = FirstGet(r, key)
  <2>1. key \in {get[k].key : k \in DOMAIN get}
    BY <1>1, <1>3, <1>4, <1>6
  <2>2. PICK k \in 1..Len(get) :
          get[k].key = key /\ FirstGet(r, key) = get[k].value /\ \A j \in 1..k - 1 : get[j].key # get[k].key
    BY <2>1, FirstGetIs
  <2>3. \A l \in Keys(u, N) : u[l].key # get[k].key
    BY <1>3, <1>6, <2>2
  <2> QED BY <1>4, <2>2, <2>3
<1>7. Arguments(r) = [key \in DOMAIN params |-> params[key]]
  <2>1. {get[k].key : k \in DOMAIN get} \cup FormKeys(r) = DOMAIN params
    BY <1>1, <1>3, <1>4
  <2>2. Arguments(r) = [key \in {get[k].key : k \in DOMAIN get} \cup FormKeys(r) |->
                          IF key \in FormKeys(r) THEN FormValue(r, key) ELSE FirstGet(r, key)]
    BY DEF Arguments
  <2>3. Arguments(r) = [key \in DOMAIN params |-> IF key \in FormKeys(r) THEN FormValue(r, key) ELSE FirstGet(r, key)]
    BY <2>1, <2>2
  <2> QED BY <1>5, <1>6, <2>3
<1> QED BY <1>2, <1>7

LEMMA UrlArguments ==
  ASSUME NEW r, FormRequest(r), ~need_post_processor(r)
  PROVE  Collected(r.get) = Arguments(r)
<1> DEFINE get == r.get
           params == Collected(get)
<1>1. get \in Seq(Argument) /\ DOMAIN get = 1..Len(get)
  BY DEF FormRequest
<1>2. Firsts(get, Len(get), params)
  BY <1>1, CollectedIs
<1> HIDE DEF params
<1>3. /\ params \in Parameters /\ DOMAIN params = {get[k].key : k \in 1..Len(get)}
      /\ \A k \in 1..Len(get) : (\A j \in 1..k - 1 : get[j].key # get[k].key) => params[get[k].key] = get[k].value
  BY <1>2 DEF Firsts
<1>4. params = [k \in DOMAIN params |-> params[k]]
  BY <1>3, ParametersAre
<1>5. ASSUME NEW key \in DOMAIN params PROVE params[key] = FirstGet(r, key)
  <2>1. key \in {get[k].key : k \in DOMAIN get}
    BY <1>1, <1>3
  <2>2. PICK k \in 1..Len(get) :
          get[k].key = key /\ FirstGet(r, key) = get[k].value /\ \A j \in 1..k - 1 : get[j].key # get[k].key
    BY <2>1, FirstGetIs
  <2> QED BY <1>3, <2>2
<1>6. Arguments(r) = [key \in {get[k].key : k \in DOMAIN get} |-> FirstGet(r, key)]
  <2>1. {get[k].key : k \in DOMAIN get} \cup {} = {get[k].key : k \in DOMAIN get}
    OBVIOUS
  <2> QED BY <2>1 DEF Arguments
<1>7. {get[k].key : k \in DOMAIN get} = DOMAIN params
  BY <1>1, <1>3
<1>8. Arguments(r) = [key \in DOMAIN params |-> FirstGet(r, key)]
  BY <1>6, <1>7
<1>9. Arguments(r) = params
  BY <1>4, <1>5, <1>8
<1> QED BY <1>9 DEF params
-----------------------------------------------------------------------------
(* An upload. *)

\* What has been stored of the first n units.
Stored(q, r, n) ==
  IF need_post_processor(r) THEN FormAt(q, r.get, r.upload, n)
  ELSE /\ q.params = Collected(r.get) /\ ~q.unsupported /\ q.post_processor.key = "none"
       /\ q.body = [k \in 1..n |-> r.upload[k].data]

\* With a limit, what remains tells how much came, and is 0 when something was dropped.
Uploading(q, r, n, limit) ==
  /\ q \in microhttpd_request
  /\ limit > 0 => q.remaining = IF n <= limit THEN limit + 1 - n ELSE 0
  /\ limit = 0 \/ n <= limit => Stored(q, r, n)

LEMMA LimitIs ==
  ASSUME max_request_body_size \in Limits
  PROVE  max_request_body_size \in Nat /\ (max_request_body_size + 1) % Unsigned = max_request_body_size + 1
<1>1. max_request_body_size \in 0..Unsigned - 2 /\ Unsigned \in Nat
  BY LimitsAssumption
<1>2. max_request_body_size + 1 \in 0..Unsigned - 1
  BY <1>1
<1> QED BY <1>1, <1>2

LEMMA NewRequestIs ==
  ASSUME max_request_body_size \in Limits, NEW r, FormRequest(r)
  PROVE  Uploading(NewRequest(r), r, 0, max_request_body_size)
<1> DEFINE q == NewRequest(r)
           get == r.get
           u == r.upload
           params == Collected(get)
           pp == [key |-> "none", encoding |-> "none", off |-> 0]
           limit == max_request_body_size
<1>1. limit \in Nat /\ (limit + 1) % Unsigned = limit + 1
  BY LimitIs
<1>2. get \in Seq(Argument) /\ u \in Seq(Unit)
  BY DEF FormRequest
<1>3. Firsts(get, Len(get), params)
  BY <1>2, CollectedIs
<1>4. pp \in [key : Name, encoding : Name, off : Nat]
  BY DEF Name
<1>5. q = [params |-> params, body |-> <<>>, unsupported |-> FALSE, remaining |-> limit + 1, post_processor |-> pp]
  BY <1>1 DEF NewRequest
<1> HIDE DEF params, pp, q, limit
<1>6. params \in Parameters
  BY <1>3 DEF Firsts
<1>7. q \in microhttpd_request
  <2>1. <<>> \in Seq(STRING) /\ limit + 1 \in Nat
    BY <1>1
  <2> QED BY <1>4, <1>5, <1>6, <2>1 DEF microhttpd_request
<1>8. q.params = params /\ q.body = <<>> /\ q.unsupported = FALSE /\ q.remaining = limit + 1 /\ q.post_processor = pp
  BY <1>5
<1>9. pp.key = "none"
  BY DEF pp
<1>10. Stored(q, r, 0)
  <2>1. CASE need_post_processor(r)
    <3>1. InValue(pp, u, 0)
      BY <1>9 DEF InValue
    <3>2. Keys(u, 0 - 1) = {}
      BY DEF Keys
    <3>3. Filled(params, get, u, 0, 0 - 1)
      BY <1>3, <3>2 DEF Firsts, Filled
    <3>4. FormAt(q, get, u, 0)
      BY <1>7, <1>8, <3>1, <3>3 DEF FormAt
    <3> QED BY <2>1, <3>4 DEF Stored
  <2>2. CASE ~need_post_processor(r)
    <3>1. [k \in 1..0 |-> u[k].data] = <<>>
      OBVIOUS
    <3> QED BY <1>8, <1>9, <2>2, <3>1 DEF Stored, params
  <2> QED BY <2>1, <2>2
<1>11. limit > 0 => q.remaining = IF 0 <= limit THEN limit + 1 - 0 ELSE 0
  BY <1>1, <1>8
<1>12. Uploading(q, r, 0, limit)
  BY <1>7, <1>10, <1>11 DEF Uploading
<1> QED BY <1>12 DEF q, limit

LEMMA DataIs ==
  ASSUME NEW u \in Seq(Unit), NEW n \in 0..Len(u)
  PROVE  LET d == [k \in 1..n |-> u[k].data] IN
         d \in Seq(STRING) /\ Len(d) = n /\ \A k \in 1..n : d[k] = u[k].data
<1> DEFINE d == [k \in 1..n |-> u[k].data]
<1>1. n \in Nat /\ \A k \in 1..n : u[k] \in Unit
  OBVIOUS
<1>2. d \in [1..n -> STRING]
  BY <1>1 DEF Unit
<1> HIDE DEF d
<1>3. d \in Seq(STRING) /\ Len(d) = n
  BY <1>1, <1>2
<1> QED BY <1>3 DEF d

LEMMA DataConcat ==
  ASSUME NEW u \in Seq(Unit), NEW n \in 0..Len(u), NEW units \in Seq(Unit), n + Len(units) <= Len(u),
         \A i \in 1..Len(units) : units[i] = u[n + i]
  PROVE  [k \in 1..n |-> u[k].data] \o [k \in DOMAIN units |-> units[k].data] = [k \in 1..n + Len(units) |-> u[k].data]
<1> DEFINE m == Len(units)
           a == [k \in 1..n |-> u[k].data]
           b == [k \in 1..m |-> units[k].data]
           d == [k \in 1..n + m |-> u[k].data]
<1>1. n \in Nat /\ m \in Nat /\ n + m \in 0..Len(u) /\ DOMAIN units = 1..m /\ m \in 0..Len(units)
  OBVIOUS
<1>2. a \in Seq(STRING) /\ Len(a) = n /\ \A k \in 1..n : a[k] = u[k].data
  BY DataIs
<1>3. b \in Seq(STRING) /\ Len(b) = m /\ \A k \in 1..m : b[k] = units[k].data
  BY <1>1, DataIs
<1>4. d \in Seq(STRING) /\ Len(d) = n + m /\ \A k \in 1..n + m : d[k] = u[k].data
  <2> DEFINE l == n + m
  <2>1. l \in 0..Len(u)
    BY <1>1
  <2> HIDE DEF l
  <2> QED BY <2>1, DataIs DEF l
<1>5. [k \in DOMAIN units |-> units[k].data] = b
  BY <1>1
<1> HIDE DEF a, b, d, m
<1>6. a \o b \in Seq(STRING) /\ Len(a \o b) = n + m
      /\ \A i \in 1..n + m : (a \o b)[i] = IF i <= n THEN a[i] ELSE b[i - n]
  <2>1. /\ a \o b \in Seq(STRING) /\ Len(a \o b) = Len(a) + Len(b)
        /\ \A i \in 1..Len(a) + Len(b) : (a \o b)[i] = IF i <= Len(a) THEN a[i] ELSE b[i - Len(a)]
    <3>1. a \in Seq(STRING) /\ b \in Seq(STRING)
      BY <1>2, <1>3
    <3> QED BY <3>1, ConcatProperties
  <2> QED BY <1>2, <1>3, <2>1
<1>7. ASSUME NEW i \in 1..n + m PROVE (a \o b)[i] = d[i]
  <2>1. CASE i <= n
    <3>1. i \in 1..n
      BY <1>1, <2>1
    <3> QED BY <1>2, <1>4, <1>6, <2>1, <3>1
  <2>2. CASE ~(i <= n)
    <3>1. i - n \in 1..m /\ n + (i - n) = i
      BY <1>1, <2>2
    <3>2. b[i - n] = units[i - n].data /\ units[i - n] = u[n + (i - n)]
      BY <1>3, <3>1 DEF m
    <3> QED BY <1>4, <1>6, <2>2, <3>1, <3>2
  <2> QED BY <2>1, <2>2
<1>8. a \o b = d
  BY <1>4, <1>6, <1>7, SeqEqual
<1> QED BY <1>5, <1>8 DEF a, d, m

LEMMA ProcessedBodyIs ==
  ASSUME max_request_body_size \in Limits, NEW r, FormRequest(r), NEW n \in 0..Len(r.upload), NEW q,
         Uploading(q, r, n, max_request_body_size),
         NEW units \in Seq(Unit), Len(units) > 0, n + Len(units) <= Len(r.upload),
         \A i \in 1..Len(units) : units[i] = r.upload[n + i]
  PROVE  Uploading(ProcessedBody(q, r, units), r, n + Len(units), max_request_body_size)
<1> DEFINE limit == max_request_body_size
           m == Len(units)
           u == r.upload
           p == IF need_post_processor(r) THEN PostProcess(q, units)
                ELSE [q EXCEPT !.body = @ \o [k \in DOMAIN units |-> units[k].data]]
           left == IF limit = 0 THEN p.remaining ELSE p.remaining - m
           q2 == ProcessedBody(q, r, units)
<1>1. limit \in Nat /\ m \in Nat /\ m > 0 /\ n \in Nat
  BY LimitIs
<1>2. /\ q \in microhttpd_request /\ q.remaining \in Nat
      /\ limit > 0 => q.remaining = IF n <= limit THEN limit + 1 - n ELSE 0
      /\ limit = 0 \/ n <= limit => Stored(q, r, n)
  BY DEF Uploading, microhttpd_request
<1>3. q2 = IF limit = 0 \/ q.remaining > m THEN [p EXCEPT !.remaining = left] ELSE [q EXCEPT !.remaining = 0]
  BY DEF ProcessedBody
<1> HIDE DEF limit, q2
<1>4. CASE limit = 0 \/ q.remaining > m
  <2>1. Stored(q, r, n) /\ (limit > 0 => n <= limit /\ n + m <= limit)
    BY <1>1, <1>2, <1>4
  <2>2. p \in microhttpd_request /\ p.remaining = q.remaining /\ Stored(p, r, n + m)
    <3>1. CASE need_post_processor(r)
      <4>1. Form(u) /\ r.get \in Seq(Argument) /\ FormAt(q, r.get, u, n)
        BY <2>1, <3>1 DEF FormRequest, Stored
      <4>2. FormAt(PostProcess(q, units), r.get, u, n + m) /\ PostProcess(q, units).remaining = q.remaining
        BY <4>1, PostProcessIs
      <4> QED BY <3>1, <4>2 DEF Stored, FormAt
    <3>2. CASE ~need_post_processor(r)
      <4> DEFINE new == [k \in DOMAIN units |-> units[k].data]
                 old == [k \in 1..n |-> u[k].data]
                 all == [k \in 1..n + m |-> u[k].data]
      <4>1. u \in Seq(Unit) /\ n + m \in 0..Len(u)
        BY <1>1 DEF FormRequest
      <4>2. old \o new = all
        BY <4>1, DataConcat
      <4>3. all \in Seq(STRING)
        <5> DEFINE l == n + m
        <5>1. l \in 0..Len(u)
          BY <4>1
        <5> HIDE DEF l
        <5> QED BY <4>1, <5>1, DataIs DEF l
      <4>4. q.params = Collected(r.get) /\ ~q.unsupported /\ q.post_processor.key = "none" /\ q.body = old
        BY <2>1, <3>2 DEF Stored
      <4> HIDE DEF old, new, all
      <4>5. p = [q EXCEPT !.body = all]
        BY <3>2, <4>2, <4>4 DEF new
      <4>6. p \in microhttpd_request /\ p.remaining = q.remaining /\ p.params = q.params /\ p.unsupported = q.unsupported
            /\ p.post_processor = q.post_processor /\ p.body = all
        <5> HIDE DEF p
        <5> QED BY <1>2, <4>3, <4>5 DEF microhttpd_request
      <4> HIDE DEF p
      <4> QED BY <3>2, <4>4, <4>6 DEF Stored, all
    <3> QED BY <3>1, <3>2
  <2> HIDE DEF p
  <2>3. left \in Nat /\ (limit > 0 => left = limit + 1 - (n + m))
    BY <1>1, <1>2, <1>4, <2>1, <2>2
  <2> HIDE DEF left
  <2>4. q2 = [p EXCEPT !.remaining = left]
    BY <1>3, <1>4
  <2>5. q2 \in microhttpd_request /\ q2.remaining = left /\ q2.params = p.params /\ q2.unsupported = p.unsupported
        /\ q2.post_processor = p.post_processor /\ q2.body = p.body
    BY <2>2, <2>3, <2>4 DEF microhttpd_request
  <2>6. Stored(q2, r, n + m)
    <3> HIDE DEF m
    <3> QED BY <2>2, <2>5 DEF Stored, FormAt
  <2>7. limit > 0 => q2.remaining = IF n + m <= limit THEN limit + 1 - (n + m) ELSE 0
    BY <2>1, <2>3, <2>5
  <2>8. Uploading(q2, r, n + m, limit)
    BY <2>5, <2>6, <2>7 DEF Uploading
  <2> QED BY <2>8 DEF q2, limit
<1>5. CASE ~(limit = 0 \/ q.remaining > m)
  <2>1. limit > 0 /\ ~(n + m <= limit)
    BY <1>1, <1>2, <1>5
  <2>2. q2 = [q EXCEPT !.remaining = 0]
    BY <1>3, <1>5
  <2>3. q2 \in microhttpd_request /\ q2.remaining = 0
    BY <1>2, <2>2 DEF microhttpd_request
  <2>4. Uploading(q2, r, n + m, limit)
    BY <1>1, <2>1, <2>3 DEF Uploading
  <2> QED BY <2>4 DEF q2, limit
<1> QED BY <1>4, <1>5
-----------------------------------------------------------------------------
(* The verdict. *)

Served(q, r, limit) ==
  q.params = Arguments(r) /\ q.body = Body(r) /\ (limit > 0 => Len(r.upload) <= limit)

Judged(r, limit) ==
  IF r.method \notin Methods THEN "method_not_allowed"
  ELSE IF limit > 0 /\ Len(r.upload) > limit THEN "too_large"
  ELSE IF \E key \in DOMAIN Arguments(r) : key \in InvalidKeys \/ ~valid_utf8(Arguments(r)[key]) THEN "invalid_utf8"
  ELSE "service"

\* A form need not end with a terminator for its values to be complete.
LEMMA StoredIs ==
  ASSUME NEW r, FormRequest(r), NEW q \in microhttpd_request, Stored(q, r, Len(r.upload)), ~Ended(q).unsupported
  PROVE  Ended(q).params = Arguments(r) /\ Ended(q).body = Body(r)
<1>1. CASE need_post_processor(r)
  <2>1. Form(r.upload) /\ r.get \in Seq(Argument) /\ FormAt(q, r.get, r.upload, Len(r.upload))
    BY <1>1 DEF FormRequest, Stored
  <2>2. Ended(q).body = <<>> /\ Filled(Ended(q).params, r.get, r.upload, Len(r.upload), Len(r.upload))
    BY <2>1, EndedIs
  <2>3. Ended(q).params = Arguments(r)
    BY <1>1, <2>2, FormArguments
  <2> QED BY <1>1, <2>2, <2>3 DEF Body
<1>2. CASE ~need_post_processor(r)
  <2>1. q.params = Collected(r.get) /\ q.post_processor.key = "none" /\ q.body = [k \in 1..Len(r.upload) |-> r.upload[k].data]
    BY <1>2 DEF Stored
  <2>2. Ended(q) = q
    BY <2>1 DEF Ended
  <2>3. DOMAIN r.upload = 1..Len(r.upload)
    BY DEF FormRequest
  <2> QED BY <1>2, <2>1, <2>2, <2>3, UrlArguments DEF Body
<1> QED BY <1>1, <1>2

LEMMA EndedRemaining ==
  ASSUME NEW q \in microhttpd_request
  PROVE  Ended(q).remaining = q.remaining
<1> DEFINE q2 == PostIterator(q, <<>>)
<1>1. /\ DOMAIN q = {"params", "body", "unsupported", "remaining", "post_processor"}
  BY DEF microhttpd_request
<1>2. \A v : "remaining" \in DOMAIN [q EXCEPT !.params = v] /\ [q EXCEPT !.params = v].remaining = q.remaining
  BY <1>1
<1>3. "remaining" \in DOMAIN [q EXCEPT !.unsupported = TRUE] /\ [q EXCEPT !.unsupported = TRUE].remaining = q.remaining
  BY <1>1
<1>4. "remaining" \in DOMAIN q2 /\ q2.remaining = q.remaining
  BY <1>1, <1>2, <1>3 DEF PostIterator
<1> HIDE DEF q2
<1>5. [q2 EXCEPT !.post_processor.key = "none"].remaining = q2.remaining
  BY <1>4
<1> QED BY <1>4, <1>5 DEF Ended, q2

LEMMA VerdictIs ==
  ASSUME max_request_body_size \in Limits, NEW r, FormRequest(r), NEW q,
         Uploading(q, r, Len(r.upload), max_request_body_size),
         NEW q2, q2 = IF r.method \in Methods THEN Ended(q) ELSE q
  PROVE  /\ Verdict(q2, r) # "unsupported_multipart_encoding" => Verdict(q2, r) = Judged(r, max_request_body_size)
         /\ Verdict(q2, r) = "service" => Served(q2, r, max_request_body_size)
<1> DEFINE limit == max_request_body_size
           n == Len(r.upload)
<1>1. limit \in Nat /\ n \in Nat
  <2>1. r.upload \in Seq(Unit)
    BY DEF FormRequest
  <2> QED BY <2>1, LimitIs
<1>2. /\ q \in microhttpd_request
      /\ limit > 0 => q.remaining = IF n <= limit THEN limit + 1 - n ELSE 0
      /\ limit = 0 \/ n <= limit => Stored(q, r, n)
  BY DEF Uploading
<1>3. CASE r.method \notin Methods
  BY <1>3 DEF Verdict, Judged
<1>4. CASE r.method \in Methods /\ Ended(q).unsupported
  BY <1>4 DEF Verdict
<1>5. CASE r.method \in Methods /\ ~Ended(q).unsupported
  <2>1. q2 = Ended(q) /\ ~q2.unsupported
    BY <1>5
  <2>2. q2.remaining = q.remaining
    BY <1>2, <2>1, EndedRemaining
  <2>3. limit > 0 /\ q2.remaining = 0 <=> limit > 0 /\ n > limit
    <3> HIDE DEF limit, n
    <3> QED BY <1>1, <1>2, <2>2
  <2>4. CASE limit > 0 /\ n > limit
    BY <1>5, <2>1, <2>3, <2>4 DEF Verdict, Judged
  <2>5. CASE ~(limit > 0 /\ n > limit)
    <3>1. limit = 0 \/ n <= limit
      <4> HIDE DEF limit, n
      <4> QED BY <1>1, <2>5
    <3>2. q2.params = Arguments(r) /\ q2.body = Body(r)
      BY <1>2, <1>5, <2>1, <3>1, StoredIs
    <3>3. Verdict(q2, r) = IF \E key \in DOMAIN q2.params : key \in InvalidKeys \/ ~valid_utf8(q2.params[key]) THEN "invalid_utf8" ELSE "service"
      BY <1>5, <2>1, <2>3, <2>5 DEF Verdict
    <3>4. Judged(r, limit) = IF \E key \in DOMAIN Arguments(r) : key \in InvalidKeys \/ ~valid_utf8(Arguments(r)[key]) THEN "invalid_utf8" ELSE "service"
      BY <1>5, <2>5 DEF Judged
    <3>5. Served(q2, r, limit)
      <4> HIDE DEF limit
      <4> QED BY <1>1, <3>1, <3>2 DEF Served
    <3> QED BY <3>2, <3>3, <3>4, <3>5
  <2> QED BY <2>4, <2>5
<1> QED BY <1>3, <1>4, <1>5
-----------------------------------------------------------------------------
\* What is known of a connection.
ConnectionIs(label, r, n, q, answer, limit) ==
  /\ label # "closed" => r \in Requests /\ n \in 0..Len(r.upload)
  /\ label \in {"accepting", "connected"} => n = 0
  /\ label = "upload" => Uploading(q, r, n, limit)
  /\ label = "handling" => Served(q, r, limit)
  /\ label \in {"handling", "replying"} /\ answer # "unsupported_multipart_encoding" => answer = Judged(r, limit)

Total ==
  /\ DOMAIN pc = Connections /\ DOMAIN input = Connections /\ DOMAIN received = Connections
  /\ DOMAIN request = Connections /\ DOMAIN response = Connections

Known ==
  /\ max_request_body_size \in Limits
  /\ Total
  /\ \A c \in Connections :
       ConnectionIs(pc[c], input[c], received[c], request[c], response[c], max_request_body_size)

LEMMA InitKnown == Init => Known
<1> SUFFICES ASSUME Init PROVE Known
  OBVIOUS
<1>1. max_request_body_size \in Limits /\ Total
  BY DEF Init, Total
<1>2. \A c \in Connections : pc[c] = "closed"
  BY DEF Init
<1>3. \A c \in Connections : ConnectionIs(pc[c], input[c], received[c], request[c], response[c], max_request_body_size)
  BY <1>2 DEF ConnectionIs
<1> QED BY <1>1, <1>3 DEF Known

\* g is f but for one connection.
Elsewhere(f, g, c) == DOMAIN g = Connections /\ \A d \in Connections : d # c => g[d] = f[d]

LEMMA OneConnection ==
  ASSUME Known, NEW c \in Connections, max_request_body_size' = max_request_body_size,
         Elsewhere(pc, pc', c), Elsewhere(input, input', c), Elsewhere(received, received', c),
         Elsewhere(request, request', c), Elsewhere(response, response', c),
         ConnectionIs(pc'[c], input'[c], received'[c], request'[c], response'[c], max_request_body_size)
  PROVE  Known'
<1>1. (max_request_body_size \in Limits /\ Total)'
  BY DEF Known, Total, Elsewhere
<1>2. ASSUME NEW d \in Connections
      PROVE  ConnectionIs(pc'[d], input'[d], received'[d], request'[d], response'[d], max_request_body_size')
  <2>1. CASE d = c
    BY <2>1
  <2>2. CASE d # c
    <3>1. ConnectionIs(pc[d], input[d], received[d], request[d], response[d], max_request_body_size)
      BY DEF Known
    <3>2. /\ pc'[d] = pc[d] /\ input'[d] = input[d] /\ received'[d] = received[d] /\ request'[d] = request[d]
          /\ response'[d] = response[d]
      BY <2>2 DEF Elsewhere
    <3> QED BY <3>1, <3>2
  <2> QED BY <2>1, <2>2
<1>3. (\A d \in Connections : ConnectionIs(pc[d], input[d], received[d], request[d], response[d], max_request_body_size))'
  BY <1>2
<1> QED BY <1>1, <1>3 DEF Known

LEMMA NextUnits ==
  ASSUME NEW u \in Seq(Unit), NEW n \in 0..Len(u), NEW m \in 1..Len(u) - n
  PROVE  LET units == SubSeq(u, n + 1, n + m) IN
         /\ units \in Seq(Unit) /\ Len(units) = m /\ m > 0 /\ n + m \in 0..Len(u) /\ n + m <= Len(u)
         /\ \A i \in 1..m : units[i] = u[n + i]
<1> DEFINE a == n + 1
           b == n + m
<1>1. /\ a \in 1..Len(u) + 1 /\ b \in a - 1..Len(u) /\ b - a + 1 = m /\ a <= b /\ m > 0 /\ b \in 0..Len(u) /\ b <= Len(u)
      /\ \A i \in 1..m : a + i - 1 = n + i
  <2>1. Len(u) \in Nat /\ n \in Nat /\ m \in Nat /\ m > 0 /\ n + m <= Len(u)
    OBVIOUS
  <2> HIDE DEF a, b
  <2>2. a = n + 1 /\ b = n + m
    BY DEF a, b
  <2> QED BY <2>1, <2>2
<1> HIDE DEF a, b
<1>2. /\ SubSeq(u, a, b) \in Seq(Unit) /\ Len(SubSeq(u, a, b)) = b - a + 1
      /\ \A i \in 1..b - a + 1 : SubSeq(u, a, b)[i] = u[a + i - 1]
  BY <1>1, SubSeqProperties
<1>3. /\ SubSeq(u, a, b) \in Seq(Unit) /\ Len(SubSeq(u, a, b)) = m
      /\ \A i \in 1..m : SubSeq(u, a, b)[i] = u[n + i]
  BY <1>1, <1>2
<1> QED BY <1>1, <1>3 DEF a, b

LEMMA StepKnown == Known /\ [Next]_vars => Known'
<1> SUFFICES ASSUME Known, [Next]_vars PROVE Known'
  OBVIOUS
<1>1. CASE UNCHANGED <<inputs, pc, received, request, response>>
  BY <1>1 DEF Known, Total, inputs
<1>2. CASE Start \/ Quiesce \/ StopDaemon \/ Stopped \/ UNCHANGED vars
  BY <1>1, <1>2 DEF Start, Quiesce, StopDaemon, Stopped, vars, inputs
<1>3. ASSUME NEW c \in Connections, NEW r \in Requests, Connect(c, r) PROVE Known'
  <2>1. Elsewhere(pc, pc', c) /\ Elsewhere(input, input', c) /\ Elsewhere(received, received', c)
        /\ Elsewhere(request, request', c) /\ Elsewhere(response, response', c)
        /\ max_request_body_size' = max_request_body_size
    BY <1>3 DEF Connect, Goto, Known, Total, Elsewhere
  <2>2. pc'[c] = "accepting" /\ input'[c] = r /\ received'[c] = 0
    BY <1>3 DEF Connect, Goto, Known, Total
  <2>3. Len(r.upload) \in Nat
    BY RequestsAre DEF FormRequest
  <2>4. ConnectionIs(pc'[c], input'[c], received'[c], request'[c], response'[c], max_request_body_size)
    BY <2>2, <2>3 DEF ConnectionIs
  <2> QED BY <2>1, <2>4, OneConnection
<1>4. ASSUME NEW c \in Connections, Advance(c) PROVE Known'
  <2> DEFINE r == input[c]
             q == request[c]
             n == received[c]
             limit == max_request_body_size
  <2>1. ConnectionIs(pc[c], r, n, q, response[c], limit) /\ Total /\ max_request_body_size \in Limits
    BY DEF Known
  <2>2. ASSUME pc[c] # "closed" PROVE r \in Requests /\ FormRequest(r) /\ r.upload \in Seq(Unit) /\ n \in 0..Len(r.upload)
    BY <2>1, <2>2, RequestsAre DEF ConnectionIs, FormRequest
  <2>3. CASE Accepted(c)
    <3>1. Elsewhere(pc, pc', c) /\ Elsewhere(input, input', c) /\ Elsewhere(received, received', c)
          /\ Elsewhere(request, request', c) /\ Elsewhere(response, response', c)
          /\ max_request_body_size' = max_request_body_size
      BY <2>1, <2>3 DEF Accepted, Goto, inputs, Total, Elsewhere
    <3>2. pc[c] = "accepting" /\ pc'[c] = "connected" /\ input'[c] = r /\ received'[c] = n
      BY <2>1, <2>3 DEF Accepted, Goto, inputs, Total
    <3>3. ConnectionIs(pc'[c], input'[c], received'[c], request'[c], response'[c], max_request_body_size)
      BY <2>1, <3>2 DEF ConnectionIs
    <3> QED BY <3>1, <3>3, OneConnection
  <2>4. CASE HandleHeaders(c)
    <3>1. Elsewhere(pc, pc', c) /\ Elsewhere(input, input', c) /\ Elsewhere(received, received', c)
          /\ Elsewhere(request, request', c) /\ Elsewhere(response, response', c)
          /\ max_request_body_size' = max_request_body_size
      BY <2>1, <2>4 DEF HandleHeaders, Goto, inputs, Total, Elsewhere
    <3>2. pc[c] = "connected" /\ pc'[c] = "upload" /\ input'[c] = r /\ received'[c] = n /\ request'[c] = NewRequest(r)
      BY <2>1, <2>4 DEF HandleHeaders, Goto, inputs, Total
    <3>3. n = 0 /\ r \in Requests /\ n \in 0..Len(r.upload) /\ FormRequest(r)
      BY <2>1, <2>2, <3>2 DEF ConnectionIs
    <3>4. Uploading(NewRequest(r), r, 0, max_request_body_size)
      BY <2>1, <3>3, NewRequestIs
    <3>5. ConnectionIs(pc'[c], input'[c], received'[c], request'[c], response'[c], max_request_body_size)
      BY <3>2, <3>3, <3>4 DEF ConnectionIs
    <3> QED BY <3>1, <3>5, OneConnection
  <2>5. ASSUME NEW m \in 1..Len(input[c].upload) - received[c], HandleUpload(c, m) PROVE Known'
    <3> DEFINE units == SubSeq(r.upload, n + 1, n + m)
    <3>1. Elsewhere(pc, pc', c) /\ Elsewhere(input, input', c) /\ Elsewhere(received, received', c)
          /\ Elsewhere(request, request', c) /\ Elsewhere(response, response', c)
          /\ max_request_body_size' = max_request_body_size
      BY <2>1, <2>5 DEF HandleUpload, inputs, Total, Elsewhere
    <3>2. /\ pc[c] = "upload" /\ pc'[c] = "upload" /\ input'[c] = r /\ received'[c] = n + m
          /\ request'[c] = ProcessedBody(q, r, units)
      BY <2>1, <2>5 DEF HandleUpload, inputs, Total
    <3>3. r \in Requests /\ FormRequest(r) /\ r.upload \in Seq(Unit) /\ n \in 0..Len(r.upload)
      BY <2>2, <3>2
    <3>4. m \in 1..Len(r.upload) - n
      BY <2>5
    <3> HIDE DEF r, n
    <3>5. units \in Seq(Unit) /\ Len(units) = m /\ m > 0 /\ n + m \in 0..Len(r.upload) /\ n + m <= Len(r.upload)
          /\ \A i \in 1..m : units[i] = r.upload[n + i]
      BY <3>3, <3>4, NextUnits
    <3> HIDE DEF units
    <3>6. Uploading(q, r, n, max_request_body_size)
      BY <2>1, <3>2 DEF ConnectionIs
    <3>7. Uploading(ProcessedBody(q, r, units), r, n + Len(units), max_request_body_size)
      <4>1. Len(units) > 0 /\ n + Len(units) <= Len(r.upload) /\ \A i \in 1..Len(units) : units[i] = r.upload[n + i]
        BY <3>5
      <4> QED BY <2>1, <3>3, <3>5, <3>6, <4>1, ProcessedBodyIs
    <3>8. ConnectionIs(pc'[c], input'[c], received'[c], request'[c], response'[c], max_request_body_size)
      BY <3>2, <3>3, <3>4, <3>5, <3>7 DEF ConnectionIs
    <3> QED BY <3>1, <3>8, OneConnection
  <2>6. CASE HandleComplete(c)
    <3> DEFINE q2 == IF r.method \in Methods THEN Ended(q) ELSE q
               answer == Verdict(q2, r)
    <3>1. /\ pc[c] = "upload" /\ n = Len(r.upload) /\ request'[c] = q2
          /\ DOMAIN request' = Connections /\ \A d \in Connections : d # c => request'[d] = request[d]
      BY <2>1, <2>6 DEF HandleComplete, Total
    <3>2. /\ response'[c] = answer
          /\ DOMAIN response' = Connections /\ \A d \in Connections : d # c => response'[d] = response[d]
      BY <2>1, <2>6, <3>1 DEF HandleComplete, Total
    <3> HIDE DEF q2, answer
    <3>3. /\ pc'[c] = IF answer = "service" THEN "handling" ELSE "replying"
          /\ DOMAIN pc' = Connections /\ \A d \in Connections : d # c => pc'[d] = pc[d]
      BY <2>1, <2>6, <3>2 DEF HandleComplete, Goto, Total
    <3>4. UNCHANGED <<input, received, max_request_body_size>>
      BY <2>6 DEF HandleComplete, inputs
    <3>5. Elsewhere(pc, pc', c) /\ Elsewhere(input, input', c) /\ Elsewhere(received, received', c)
          /\ Elsewhere(request, request', c) /\ Elsewhere(response, response', c)
      BY <2>1, <3>1, <3>2, <3>3, <3>4 DEF Total, Elsewhere
    <3>6. r \in Requests /\ FormRequest(r) /\ n \in 0..Len(r.upload)
      BY <2>2, <3>1
    <3>7. Uploading(q, r, Len(r.upload), max_request_body_size)
      BY <2>1, <3>1 DEF ConnectionIs
    <3>8. /\ answer # "unsupported_multipart_encoding" => answer = Judged(r, max_request_body_size)
          /\ answer = "service" => Served(q2, r, max_request_body_size)
      BY <2>1, <3>6, <3>7, VerdictIs DEF q2, answer
    <3>9. ConnectionIs(pc'[c], input'[c], received'[c], request'[c], response'[c], max_request_body_size)
      BY <3>1, <3>2, <3>3, <3>4, <3>6, <3>8 DEF ConnectionIs
    <3> QED BY <3>4, <3>5, <3>9, OneConnection
  <2>7. CASE ServiceResponds(c)
    <3>1. Elsewhere(pc, pc', c) /\ Elsewhere(input, input', c) /\ Elsewhere(received, received', c)
          /\ Elsewhere(request, request', c) /\ Elsewhere(response, response', c)
          /\ max_request_body_size' = max_request_body_size
      BY <2>1, <2>7 DEF ServiceResponds, Goto, inputs, Total, Elsewhere
    <3>2. pc[c] = "handling" /\ pc'[c] = "replying" /\ input'[c] = r /\ received'[c] = n /\ response'[c] = response[c]
      BY <2>1, <2>7 DEF ServiceResponds, Goto, inputs, Total
    <3>3. ConnectionIs(pc'[c], input'[c], received'[c], request'[c], response'[c], max_request_body_size)
      BY <2>1, <3>2 DEF ConnectionIs
    <3> QED BY <3>1, <3>3, OneConnection
  <2>8. CASE Finish(c)
    <3>1. Elsewhere(pc, pc', c) /\ Elsewhere(input, input', c) /\ Elsewhere(received, received', c)
          /\ Elsewhere(request, request', c) /\ Elsewhere(response, response', c)
          /\ max_request_body_size' = max_request_body_size
      BY <2>1, <2>8 DEF Finish, Completed, Goto, Total, Elsewhere
    <3>2. pc'[c] = "closed"
      BY <2>1, <2>8 DEF Finish, Completed, Goto, Total
    <3>3. ConnectionIs(pc'[c], input'[c], received'[c], request'[c], response'[c], max_request_body_size)
      BY <3>2 DEF ConnectionIs
    <3> QED BY <3>1, <3>3, OneConnection
  <2> QED BY <1>4, <2>3, <2>4, <2>5, <2>6, <2>7, <2>8 DEF Advance
<1> QED BY <1>2, <1>3, <1>4 DEF Next

LEMMA KnownHolds == Spec => []Known
BY InitKnown, StepKnown, PTL DEF Spec

\* The service is called with the arguments the client sent, from the URL and from the form, and
\* with the whole body, however libmicrohttpd cut the upload (process_request_body, post_iterator).
THEOREM ServiceGetsAll == Spec => []ServedIsComplete
<1>1. Known => ServedIsComplete
  BY DEF Known, ConnectionIs, Served, ServedIsComplete
<1> QED BY KnownHolds, <1>1, PTL

\* What a request is answered before the service sees it depends on the request and the limit,
\* not on the way the upload came (microhttpd_request::handle).
THEOREM CutsDoNotMatter == Spec => []VerdictIsFixed
<1>1. Known => VerdictIsFixed
  BY DEF Known, ConnectionIs, Judged, VerdictIsFixed, TooLarge
<1> QED BY KnownHolds, <1>1, PTL
=============================================================================
