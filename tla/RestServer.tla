----------------------------- MODULE RestServer -----------------------------
(***************************************************************************)
(* rest_server/microrestd/rest_server/rest_server.cpp: start and stop of   *)
(* the server, and the callbacks through which libmicrohttpd hands over    *)
(* the requests of its connections, each on a thread of its own.  The      *)
(* library is external: it accepts connections while the server listens,   *)
(* calls back in the order of the protocol, cuts uploads where it likes,   *)
(* and tells of the end of every request.  An upload is a sequence of      *)
(* units; those of a form begin a value ("key"), continue it, or end it.   *)
(***************************************************************************)
EXTENDS Integers, Sequences, SequencesExt, FiniteSets, Functions

CONSTANTS Connections,
          Requests,   \* what clients send: [method, form, get, upload]
          InvalidKeys, \* the keys that are no UTF-8
          Limits,     \* the values set_max_request_body_size is given
          Unsigned,   \* how many values an unsigned has
          NoRequest

Unit == [kind : {"key", "data", "end"}, key : STRING, encoding : STRING, data : STRING]
\* A form ends one value before it begins another.
Framed(units) ==
  \A k \in DOMAIN units : units[k].kind = "key" <=> k = 1 \/ units[k - 1].kind = "end"

ASSUME RequestsAssumption ==
  \A r \in Requests :
    /\ r.method \in STRING /\ r.form \in BOOLEAN
    /\ r.get \in Seq([key : STRING, value : Seq(STRING)]) /\ r.upload \in Seq(Unit)
    /\ r.method = "POST" /\ r.form =>
         Framed(r.upload) /\ \A k \in DOMAIN r.upload : r.upload[k].kind = "key" => r.upload[k].key # "none"
\* With the largest unsigned as the limit, its successor is 0 and every request too large.
ASSUME LimitsAssumption == Unsigned \in Nat /\ Limits \subseteq 0..Unsigned - 2

VARIABLES
  max_request_body_size,
  service,       \* the pointer is not null
  daemon,        \* "none", "running", "quiesced" (stop polls), "shutdown" (stop joins)
  pc,            \* per connection
  input,         \* per connection: what its client sends
  received,      \* per connection: how many units of the upload have come
  request,       \* per connection: the microhttpd_request, or NoRequest
  response,      \* per connection: what was queued
  in_time        \* auxiliary: the connection was counted before stop was called

vars == <<max_request_body_size, service, daemon, pc, input, received, request, response, in_time>>
inputs == <<max_request_body_size, input>>
server == <<service, daemon>>

Init ==
  /\ max_request_body_size \in Limits
  /\ service = FALSE /\ daemon = "none"
  /\ pc = [c \in Connections |-> "closed"]
  /\ input \in [Connections -> {CHOOSE r \in Requests : TRUE}]
  /\ received = [c \in Connections |-> 0]
  /\ request = [c \in Connections |-> NoRequest]
  /\ response = [c \in Connections |-> "none"]
  /\ in_time = [c \in Connections |-> FALSE]

Goto(c, label) == pc' = [pc EXCEPT ![c] = label]
-----------------------------------------------------------------------------
(* microhttpd_request *)

need_post_processor(r) == r.method = "POST" /\ r.form

\* A map with another value at one key, which may be new.
Put(params, key, value) == [k \in DOMAIN params \cup {key} |-> IF k = key THEN value ELSE params[k]]

\* get_iterator: emplace keeps the first value of a key.
Emplaced(params, arg) == IF arg.key \in DOMAIN params THEN params ELSE Put(params, arg.key, arg.value)

Collected(get) ==
  LET params[k \in 0..Len(get)] == IF k = 0 THEN <<>> ELSE Emplaced(params[k - 1], get[k])
  IN  params[Len(get)]

NewRequest(r) ==
  [params |-> Collected(r.get),
   body |-> <<>>,
   unsupported |-> FALSE,
   remaining |-> (max_request_body_size + 1) % Unsigned,
   post_processor |-> [key |-> "none", encoding |-> "none", off |-> 0]]

Supported == {"none", "binary", "7bit", "8bit"}
Value(q, key) == IF key \in DOMAIN q.params THEN q.params[key] ELSE <<>>

\* Mutant: a value that begins does not replace the one that is there.
PostIteratorAppends(q, data) ==
  LET key == q.post_processor.key IN
  IF q.unsupported THEN q
  ELSE IF q.post_processor.encoding \notin Supported THEN [q EXCEPT !.unsupported = TRUE]
  ELSE [q EXCEPT !.params = Put(@, key, Value(q, key) \o data)]

\* post_iterator for the value that the post processor is in.
PostIterator(q, data) ==
  LET key == q.post_processor.key
      old == IF q.post_processor.off = 0 THEN <<>> ELSE Value(q, key)
  IN  IF q.unsupported THEN q
      ELSE IF q.post_processor.encoding \notin Supported THEN [q EXCEPT !.unsupported = TRUE]
      ELSE [q EXCEPT !.params = Put(@, key, old \o data)]

\* libmicrohttpd: a value ends at its terminator, or when the post processor is destroyed.
Ended(q) ==
  IF q.post_processor.key = "none" THEN q
  ELSE [PostIterator(q, <<>>) EXCEPT !.post_processor.key = "none"]

Processed(q, unit) ==
  CASE unit.kind = "key" -> [q EXCEPT !.post_processor = [key |-> unit.key, encoding |-> unit.encoding, off |-> 0]]
    [] unit.kind = "data" -> [PostIterator(q, <<unit.data>>) EXCEPT !.post_processor.off = @ + 1]
    [] unit.kind = "end" -> Ended(q)
PostProcess(q, units) ==
  LET after[n \in 0..Len(units)] == IF n = 0 THEN q ELSE Processed(after[n - 1], units[n])
  IN  after[Len(units)]

\* Mutant: a part that does not fit uses up nothing.
IgnoredBody(q, r, units) ==
  IF max_request_body_size = 0 \/ q.remaining > Len(units)
  THEN [IF need_post_processor(r) THEN PostProcess(q, units)
        ELSE [q EXCEPT !.body = @ \o [k \in DOMAIN units |-> units[k].data]]
        EXCEPT !.remaining = IF max_request_body_size = 0 THEN @ ELSE @ - Len(units)]
  ELSE q

\* process_request_body: what exceeds the limit is dropped, and nothing fits any more.
ProcessedBody(q, r, units) ==
  IF max_request_body_size = 0 \/ q.remaining > Len(units)
  THEN [IF need_post_processor(r) THEN PostProcess(q, units)
        ELSE [q EXCEPT !.body = @ \o [k \in DOMAIN units |-> units[k].data]]
        EXCEPT !.remaining = IF max_request_body_size = 0 THEN @ ELSE @ - Len(units)]
  ELSE [q EXCEPT !.remaining = 0]

\* A two-byte character is a "first" and a "second" byte; values hold no NUL.
valid_utf8(text) ==
  \A k \in 1..Len(text) + 1 :
    (k <= Len(text) /\ text[k] = "second") <=> (k > 1 /\ text[k - 1] = "first")

Methods == {"HEAD", "GET", "POST", "PUT", "DELETE"}

\* handle, up to the call of the service; q has its post processor closed.
Verdict(q, r) ==
  IF r.method \notin Methods THEN "method_not_allowed"
  ELSE IF q.unsupported THEN "unsupported_multipart_encoding"
  ELSE IF max_request_body_size > 0 /\ q.remaining = 0 THEN "too_large"
  ELSE IF \E key \in DOMAIN q.params : key \in InvalidKeys \/ ~valid_utf8(q.params[key]) THEN "invalid_utf8"
  ELSE "service"
-----------------------------------------------------------------------------
(* A connection. *)

Open == {"connected", "upload", "handling", "replying"}
connections == {c \in Connections : pc[c] \in Open}   \* MHD_DAEMON_INFO_CURRENT_CONNECTIONS

\* Mutant: connections are accepted while stop waits.
ConnectAlways(c, r) ==
  /\ daemon # "none"
  /\ pc[c] = "closed"
  /\ input' = [input EXCEPT ![c] = r]
  /\ received' = [received EXCEPT ![c] = 0]
  /\ response' = [response EXCEPT ![c] = "none"]
  /\ Goto(c, "accepting")
  /\ UNCHANGED <<max_request_body_size, server, request, in_time>>

\* libmicrohttpd accepts; the connection is counted a little later.
Connect(c, r) ==
  /\ daemon = "running"
  /\ pc[c] = "closed"
  /\ input' = [input EXCEPT ![c] = r]
  /\ received' = [received EXCEPT ![c] = 0]
  /\ response' = [response EXCEPT ![c] = "none"]
  /\ Goto(c, "accepting")
  /\ UNCHANGED <<max_request_body_size, server, request, in_time>>

Accepted(c) ==
  /\ pc[c] = "accepting"
  /\ Goto(c, "connected")
  /\ in_time' = [in_time EXCEPT ![c] = daemon = "running"]
  /\ UNCHANGED <<inputs, server, received, request, response>>

\* handle_request, called with the headers
HandleHeaders(c) ==
  /\ pc[c] = "connected"
  /\ request' = [request EXCEPT ![c] = NewRequest(input[c])]
  /\ Goto(c, "upload")
  /\ UNCHANGED <<inputs, server, received, response, in_time>>

\* handle_request, called with the next n units of the upload
HandleUpload(c, n) ==
  /\ pc[c] = "upload"
  /\ LET units == SubSeq(input[c].upload, received[c] + 1, received[c] + n) IN
     request' = [request EXCEPT ![c] = ProcessedBody(@, input[c], units)]
  /\ received' = [received EXCEPT ![c] = @ + n]
  /\ UNCHANGED <<inputs, server, pc, response, in_time>>

\* Mutant: the arguments are judged before the post processor has given the last one.
JudgedOpen(c) ==
  /\ pc[c] = "upload" /\ received[c] = Len(input[c].upload)
  /\ request' = [request EXCEPT ![c] = Ended(@)]
  /\ response' = [response EXCEPT ![c] = Verdict(request[c], input[c])]
  /\ Goto(c, IF response'[c] = "service" THEN "handling" ELSE "replying")
  /\ UNCHANGED <<inputs, server, received, in_time>>

\* handle_request, called after the upload; service->handle begins if handle gets to it.
HandleComplete(c) ==
  /\ pc[c] = "upload" /\ received[c] = Len(input[c].upload)
  /\ request' = [request EXCEPT ![c] = IF input[c].method \in Methods THEN Ended(@) ELSE @]
  /\ response' = [response EXCEPT ![c] = Verdict(request'[c], input[c])]
  /\ Goto(c, IF response'[c] = "service" THEN "handling" ELSE "replying")
  /\ UNCHANGED <<inputs, server, received, in_time>>

\* service->handle has queued a response; its generator belongs to the request.
ServiceResponds(c) ==
  /\ pc[c] = "handling"
  /\ Goto(c, "replying")
  /\ UNCHANGED <<inputs, server, received, request, response, in_time>>

\* request_completed: the reply was sent; or the client left or timed out, a callback
\* returned MHD_NO, or the daemon is shut down.  No callback is running.
Completed(c) ==
  /\ request' = [request EXCEPT ![c] = NoRequest]
  /\ Goto(c, "closed")
  /\ in_time' = [in_time EXCEPT ![c] = FALSE]
  /\ input' = [input EXCEPT ![c] = CHOOSE r \in Requests : TRUE]
  /\ received' = [received EXCEPT ![c] = 0]
  /\ response' = [response EXCEPT ![c] = "none"]
  /\ UNCHANGED <<max_request_body_size, server>>

Finish(c) == pc[c] \in Open /\ Completed(c)
-----------------------------------------------------------------------------
(* The thread that owns the server. *)

Start ==
  /\ daemon = "none"
  /\ service' = TRUE
  /\ daemon' \in {"running", "none"}   \* the port may be taken
  /\ UNCHANGED <<inputs, pc, received, request, response, in_time>>

\* Mutant: stop goes on while connections are open.
StopAtOnce ==
  /\ daemon = "quiesced"
  /\ daemon' = "shutdown"
  /\ UNCHANGED <<inputs, service, pc, received, request, response, in_time>>

\* stop: MHD_quiesce_daemon
Quiesce ==
  /\ daemon = "running"
  /\ daemon' = "quiesced"
  /\ UNCHANGED <<inputs, service, pc, received, request, response, in_time>>

\* The loop ends when it finds no connections, and MHD_stop_daemon begins.
StopDaemon ==
  /\ daemon = "quiesced"
  /\ connections = {}
  /\ daemon' = "shutdown"
  /\ UNCHANGED <<inputs, service, pc, received, request, response, in_time>>

\* Mutant: the service is dropped before the threads of the daemon have ended.
DropService ==
  /\ daemon = "shutdown"
  /\ daemon' = "none" /\ service' = FALSE
  /\ UNCHANGED <<inputs, pc, received, request, response, in_time>>

\* MHD_stop_daemon has joined its threads.
Stopped ==
  /\ daemon = "shutdown"
  /\ \A c \in Connections : pc[c] = "closed"
  /\ daemon' = "none" /\ service' = FALSE
  /\ UNCHANGED <<inputs, pc, received, request, response, in_time>>

Advance(c) ==
  \/ Accepted(c) \/ HandleHeaders(c) \/ HandleComplete(c) \/ ServiceResponds(c) \/ Finish(c)
  \/ \E n \in 1..Len(input[c].upload) - received[c] : HandleUpload(c, n)

Next ==
  \/ Start \/ Quiesce \/ StopDaemon \/ Stopped
  \/ \E c \in Connections : Advance(c) \/ \E r \in Requests : Connect(c, r)

Spec == Init /\ [][Next]_vars

\* The threads of the daemon run, the service returns, and a client that sends or takes
\* nothing is timed out; stop polls and joins.  Nobody has to call stop.
Fairness == WF_vars(StopDaemon) /\ WF_vars(Stopped) /\ \A c \in Connections : WF_vars(Advance(c))
FairSpec == Spec /\ Fairness
-----------------------------------------------------------------------------
RequestType(q) ==
  \/ q = NoRequest
  \/ /\ DOMAIN q = {"params", "body", "unsupported", "remaining", "post_processor"}
     /\ q.unsupported \in BOOLEAN
     /\ q.remaining \in 0..max_request_body_size + 1

TypeOK ==
  /\ max_request_body_size \in Limits
  /\ service \in BOOLEAN
  /\ daemon \in {"none", "running", "quiesced", "shutdown"}
  /\ pc \in [Connections -> Open \cup {"closed", "accepting"}]
  /\ input \in [Connections -> Requests]
  /\ \A c \in Connections : received[c] \in 0..Len(input[c].upload) /\ RequestType(request[c])

\* The arguments a request stands for: of several values in the URL the first, of several
\* in the form the last, which also replaces those in the URL.
FormKeys(r) == {r.upload[k].key : k \in {k \in DOMAIN r.upload : r.upload[k].kind = "key"}}
LastKey(r, key) == Max({k \in DOMAIN r.upload : r.upload[k].kind = "key" /\ r.upload[k].key = key})
FormValue(r, key) ==
  LET first == LastKey(r, key) + 1
      next == Min({k \in first..Len(r.upload) + 1 : k = Len(r.upload) + 1 \/ r.upload[k].kind # "data"})
  IN  [k \in 1..next - first |-> r.upload[first + k - 1].data]
FirstGet(r, key) == r.get[Min({k \in DOMAIN r.get : r.get[k].key = key})].value
Arguments(r) ==
  [key \in {r.get[k].key : k \in DOMAIN r.get} \cup (IF need_post_processor(r) THEN FormKeys(r) ELSE {}) |->
     IF need_post_processor(r) /\ key \in FormKeys(r) THEN FormValue(r, key) ELSE FirstGet(r, key)]
Body(r) == IF need_post_processor(r) THEN <<>> ELSE [k \in DOMAIN r.upload |-> r.upload[k].data]

\* The service gets a request only when it is complete and within the limit, with
\* the same arguments however the upload was cut into parts.
ServedIsComplete ==
  \A c \in Connections : pc[c] = "handling" =>
    /\ request[c].params = Arguments(input[c])
    /\ request[c].body = Body(input[c])
    /\ max_request_body_size > 0 => Len(input[c].upload) <= max_request_body_size

\* A request is refused as too large, as invalid or not at all for what it is, not for
\* the way its upload was cut.
TooLarge(r) == max_request_body_size > 0 /\ Len(r.upload) > max_request_body_size
VerdictIsFixed ==
  \A c \in Connections : pc[c] \in {"handling", "replying"} /\ response[c] # "unsupported_multipart_encoding" =>
    LET r == input[c] IN
    response[c] =
      IF r.method \notin Methods THEN "method_not_allowed"
      ELSE IF TooLarge(r) THEN "too_large"
      ELSE IF \E key \in DOMAIN Arguments(r) : key \in InvalidKeys \/ ~valid_utf8(Arguments(r)[key]) THEN "invalid_utf8"
      ELSE "service"

\* While a handler or the generator of a reply may use the service, there is one.
ServiceAlive == \A c \in Connections : pc[c] \in Open => service /\ daemon # "none"

\* stop waits for current requests: no connection that was there before it is shut down.
RequestsFinish == \A c \in Connections : daemon = "shutdown" => ~in_time[c]

\* stop comes to its end although it only polls.
StopTerminates == daemon = "quiesced" ~> daemon = "none"
=============================================================================
