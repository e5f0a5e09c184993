---------------------------- MODULE CallsProofs ----------------------------
(***************************************************************************)
(* Theorems of Calls, for every package of accepted handlers and each of   *)
(* the frameworks.                                                         *)
(***************************************************************************)
EXTENDS Calls, TLAPS

-----------------------------------------------------------------------------
(***************************************************************************)
(* The inductive invariant.  What the adapter and the client hold is at    *)
(* every stage a function of the request on the wire, and the client's     *)
(* request a function of its arguments.                                    *)
(***************************************************************************)
Unbuilt == {"generate", "panicked", "uncompilable"}

Routed ==
  /\ pkg \in Packages /\ framework \in Frameworks /\ route \in RoutesOf(pkg)
  /\ stage \notin Unbuilt => ~AdapterPanics(route) /\ WrapperCompiles(route)

\* What was sent is what the client makes of its arguments.
Asked ==
  /\ stage = "called" => origin = "client"
  /\ origin = "client" =>
       TypeChecks /\ \E a \in Arguments :
         args = a /\ (stage # "called" => wire = RequestFor(a) /\ ~Unsound(a, {"half"}))

\* What the adapter answers 400 to, and what it decodes of the rest.
Decoding == stage = "params" => ~RefusesBody /\ req = Decoded
Calling ==
  Invoked => /\ ~RefusesBody /\ ~RefusesQuery
             /\ req = Override(Override(Decoded, FromPath(Decoded)), FromQuery)

\* What the handler returned is what was written, and what the client made of it.
Silent == stage # "written" => returned = Nothing /\ reply = Nothing
Answering ==
  returned # Nothing => Unary(route) /\ \E result \in Results : returned = result /\ reply = Response(result)
Refusing == reply.code = "bad_request" => RefusesBody \/ RefusesQuery
Concluding ==
  caller = "told" /\ origin = "client" /\ returned # Nothing /\ outcome.kind # "TypeError" =>
    outcome = Outcome

\* A client that is told something while its request is on the way has lost its connection.
Losing == caller = "told" /\ stage \notin {"called", "written"} => outcome = Answer("TypeError", 0, NoText)

CallInv ==
  /\ Routed /\ Asked /\ Decoding /\ Calling /\ Silent /\ Answering /\ Refusing
  /\ Concluding /\ Losing

-----------------------------------------------------------------------------
\* Nothing that is computed from the request changes while the request stays.
LEMMA SameRequest ==
  ASSUME UNCHANGED <<input, wire>>
  PROVE  /\ RefusesBody' = RefusesBody /\ RefusesQuery' = RefusesQuery
         /\ Decoded' = Decoded
         /\ FromQuery' = FromQuery
         /\ \A r : FromPath(r)' = FromPath(r)
  <1>1. pkg' = pkg /\ framework' = framework /\ route' = route /\ wire' = wire
    BY DEF input
  <1>2. BodyFields' = BodyFields /\ Blank' = Blank
    BY <1>1 DEF BodyFields, Blank, Fields
  <1>3. \A form : Filled(form)' = Filled(form)
    BY <1>1, <1>2 DEF Filled
  <1>4. /\ UploadBad(wire.fields)' <=> UploadBad(wire.fields)
        /\ JSONBad(wire.fields)' <=> JSONBad(wire.fields)
    BY <1>1, <1>2, <1>3 DEF UploadBad, JSONBad
  <1>5. HasBody' <=> HasBody
    BY <1>1 DEF HasBody, Unary
  <1>6. \A n : QueryText(n)' = QueryText(n)
    BY <1>1 DEF QueryText
  <1>7. RefusesBody' <=> RefusesBody
    BY <1>1, <1>4, <1>5 DEF RefusesBody
  <1>8. RefusesQuery' <=> RefusesQuery
    BY <1>1, <1>6 DEF RefusesQuery, Skips
  <1>9. Decoded' = Decoded
    BY <1>1, <1>2, <1>3, <1>5 DEF Decoded
  <1>10. FromQuery' = FromQuery
    BY <1>1, <1>6 DEF FromQuery, Skips
  <1>11. \A r : FromPath(r)' = FromPath(r)
    BY <1>1 DEF FromPath, InBraces, URLParam, RawPath
  <1>. QED
    BY <1>7, <1>8, <1>9, <1>10, <1>11

\* Nor does the client's request for given arguments, nor the answer to a result.
LEMMA SameRoute ==
  ASSUME UNCHANGED input
  PROVE  /\ TypeChecks' = TypeChecks /\ Arguments' = Arguments
         /\ \A a : RequestFor(a)' = RequestFor(a) /\ (Unsound(a, {"half"})' <=> Unsound(a, {"half"}))
         /\ Results' = Results
         /\ \A result : Response(result)' = Response(result)
  <1>1. pkg' = pkg /\ framework' = framework /\ route' = route
    BY DEF input
  <1>2. BodyFields' = BodyFields
    BY <1>1 DEF BodyFields, Fields
  <1>3. TypeChecks' = TypeChecks
    BY <1>1, <1>2 DEF TypeChecks
  <1>4. Arguments' = Arguments
    BY <1>1, <1>2 DEF Arguments
  <1>5. \A a : RequestFor(a)' = RequestFor(a)
    <2>1. \A a : PathOf(a)' = PathOf(a)
      BY <1>1 DEF PathOf, PathText, InBraces
    <2>2. \A a : QueryOf(a)' = QueryOf(a)
      BY <1>1 DEF QueryOf
    <2>3. \A a : FormOf(a)' = FormOf(a) /\ JSONOf(a)' = JSONOf(a)
      BY <1>2 DEF FormOf, JSONOf
    <2>. QED  BY <1>1, <2>1, <2>2, <2>3 DEF RequestFor, HasBody, Unary
  <1>8. \A a : Unsound(a, {"half"})' <=> Unsound(a, {"half"})
    BY <1>1, <1>2 DEF Unsound, HasBody, Unary, Given
  <1>6. Results' = Results
    BY <1>1 DEF Results
  <1>7. \A result : Response(result)' = Response(result)
    BY <1>1 DEF Response
  <1>. QED  BY <1>3, <1>4, <1>5, <1>6, <1>7, <1>8

\* What the analyzer says of a route it accepts.
LEMMA RouteFacts ==
  ASSUME Routed
  PROVE  /\ route.pathParams = {f \in Fields(route) : SourceOf(f) = "path"}
         /\ route.queryParams = {f \in Fields(route) : SourceOf(f) = "query"}
         /\ route.body = {} => BodyFields = {}
         /\ route.upload =>
              /\ route.body # {}
              /\ BodyFields = {f \in Fields(route) : SourceOf(f) \in {"multipart", "form"}}
         /\ ~route.upload => BodyFields = {f \in Fields(route) : SourceOf(f) = "json"}
         /\ \A f \in Fields(route) : ~FieldRejected(f, TRUE, TRUE)
  <1>1. PICK h \in Range(pkg.handlers) : route = RouteOf(pkg, h)
    BY DEF Routed, RoutesOf
  <1>2. IsHandler(h) /\ ~IsRaw(h) /\ ~Rejected(pkg, h, TRUE)
    BY CallsAssumption, <1>1 DEF Routed
  <1>3. ~RequestRejected(pkg, h, TRUE)
    BY <1>2 DEF Rejected, IsHandler, IdiomaticRejected
  <1>4. /\ route.request = RequestOf(h)
        /\ route.pathParams = From(pkg, h, "path") /\ route.queryParams = From(pkg, h, "query")
        /\ route.upload = HasUpload(pkg, h)
        /\ route.body = IF HasJSON(pkg, h) \/ HasUpload(pkg, h) THEN {RequestOf(h)} ELSE {}
    BY <1>1, <1>2 DEF RouteOf
  <1>5. \A source : From(pkg, h, source) = {f \in Fields(route) : SourceOf(f) = source}
    BY <1>4 DEF From, Fields
  <1>6. \A f \in Fields(route) : ~FieldRejected(f, TRUE, TRUE)
    BY <1>3, <1>4 DEF RequestRejected, Fields
  <1>7. ~(HasJSON(pkg, h) /\ HasUpload(pkg, h))
    BY <1>3 DEF RequestRejected
  <1>8. /\ HasJSON(pkg, h) <=> \E f \in Fields(route) : SourceOf(f) = "json"
        /\ HasUpload(pkg, h) <=> \E f \in Fields(route) : SourceOf(f) \in {"multipart", "form"}
    BY <1>5 DEF HasJSON, HasUpload
  <1>. QED
    BY <1>4, <1>5, <1>6, <1>7, <1>8 DEF BodyFields

-----------------------------------------------------------------------------
\* The empty text is no other.
LEMMA NoTextDiffers ==
  NoText \notin {"bad_request", "0", "1", "0.5", "1e21", "a", "spaced", "at", "cut", "braced",
                "spaced_sent", "at_sent", "cut_sent", "braced_sent", "zero", "one", "half", "huge",
                "blob", "blobs", "big", "none", "object", "nil", "text"}
  BY Zenon DEF NoText

LEMMA AnswerCode == \A kind, status, code : Answer(kind, status, code).code = code
  BY DEF Answer

LEMMA InitInv == Init => CallInv
  <1>. SUFFICES ASSUME Init PROVE CallInv
    OBVIOUS
  <1>1. /\ pkg \in Packages /\ framework \in Frameworks /\ route \in RoutesOf(pkg)
        /\ stage = "generate" /\ caller = "idle" /\ origin = "none"
        /\ returned = Nothing /\ reply = Nothing
    BY DEF Init
  <1>2. Routed
    BY <1>1 DEF Routed, Unbuilt
  <1>3. Asked /\ Decoding /\ Calling /\ Silent /\ Answering /\ Concluding /\ Losing
    BY <1>1 DEF Asked, Decoding, Calling, Silent, Answering, Concluding, Losing, Invoked
  <1>4. Refusing
    BY <1>1, NoTextDiffers DEF Refusing, Nothing
  <1>. QED  BY <1>2, <1>3, <1>4 DEF CallInv

\* A request goes out before there is anything to say of it.
LEMMA SentKeeps ==
  ASSUME CallInv, stage \in {"ready", "called"}, stage' \in {"called", "sent"}, caller' = "waiting",
         UNCHANGED <<input, req, returned, reply, outcome>>, stage' = "called" => origin' = "client",
         origin' = "client" =>
           TypeChecks /\ \E a \in Arguments :
             args' = a /\ (stage' # "called" => wire' = RequestFor(a) /\ ~Unsound(a, {"half"}))
  PROVE  CallInv'
  <1>1. returned = Nothing /\ reply = Nothing
    BY DEF CallInv, Silent
  <1>2. Routed'
    BY DEF CallInv, Routed, input, AdapterPanics, WrapperCompiles, Unbuilt, RoutesOf, FormFields, FormsOf, Fields
  <1>3. Asked'
    BY SameRoute DEF Asked
  <1>4. Silent' /\ Answering' /\ Decoding' /\ Calling' /\ Concluding' /\ Losing'
    BY <1>1 DEF Silent, Answering, Decoding, Calling, Concluding, Losing, Invoked
  <1>5. Refusing'
    BY <1>1, NoTextDiffers DEF Refusing, Nothing
  <1>. QED  BY <1>2, <1>3, <1>4, <1>5 DEF CallInv

LEMMA SendKeeps == CallInv /\ Send => CallInv'
  <1>. SUFFICES ASSUME CallInv, Send PROVE CallInv'
    OBVIOUS
  <1>1. /\ stage = "called" /\ stage' = "sent" /\ caller' = "waiting"
        /\ wire' = RequestFor(args) /\ ~Unsound(args, {"half"})
        /\ UNCHANGED <<input, origin, args, req, returned, reply, outcome>>
    BY DEF Send
  <1>2. origin = "client" => TypeChecks /\ args \in Arguments
    BY DEF CallInv, Asked
  <1>. QED  BY <1>1, <1>2, SentKeeps

\* What the adapter and the client do with a request leaves it, and its route, as they are.
LEMMA RequestStays ==
  ASSUME CallInv, stage \notin Unbuilt, UNCHANGED <<input, origin, args, wire>>,
         stage = "called" <=> stage' = "called"
  PROVE  Routed' /\ Asked'
  <1>1. Routed'
    BY DEF CallInv, Routed, input, AdapterPanics, WrapperCompiles, Unbuilt, RoutesOf, FormFields, FormsOf, Fields
  <1>2. Asked'
    BY SameRoute DEF CallInv, Asked
  <1>. QED  BY <1>1, <1>2

\* An answer that no handler has returned.
LEMMA RefusalKeeps ==
  ASSUME CallInv, stage \in {"sent", "params", "handling"}, stage' = "written",
         UNCHANGED <<input, caller, origin, args, wire, returned, outcome>>,
         reply'.code = "bad_request" => RefusesBody \/ RefusesQuery
  PROVE  CallInv'
  <1>1. returned = Nothing
    BY DEF CallInv, Silent
  <1>2. Routed' /\ Asked'
    BY RequestStays DEF Unbuilt
  <1>3. Decoding' /\ Calling' /\ Silent' /\ Answering' /\ Concluding' /\ Losing'
    BY <1>1 DEF Decoding, Calling, Silent, Answering, Concluding, Losing, Invoked
  <1>4. Refusing'
    BY SameRequest DEF Refusing
  <1>. QED  BY <1>2, <1>3, <1>4 DEF CallInv

LEMMA GenerateKeeps == CallInv /\ Generate => CallInv'
  <1>. SUFFICES ASSUME CallInv, Generate PROVE CallInv'
    OBVIOUS
  <1>1. /\ stage' \in {"panicked", "uncompilable", "ready"}
        /\ UNCHANGED <<input, caller, origin, args, wire, req, returned, reply, outcome>>
        /\ stage = "generate" /\ returned = Nothing /\ reply = Nothing
    BY DEF Generate, CallInv, Silent
  <1>2. Routed'
    <2>1. UNCHANGED <<pkg, framework, route>>
      BY <1>1 DEF input
    <2>2. stage' \notin Unbuilt => ~AdapterPanics(route) /\ WrapperCompiles(route)
      BY DEF CallInv, Routed, Generate, Compiles, Unbuilt
    <2>. QED
      BY <2>1, <2>2 DEF CallInv, Routed, AdapterPanics, WrapperCompiles, Unbuilt, RoutesOf,
         FormFields, FormsOf, Fields
  <1>3. Asked'
    BY <1>1, SameRoute DEF CallInv, Asked
  <1>4. Decoding' /\ Calling' /\ Silent' /\ Answering' /\ Concluding' /\ Losing'
    BY <1>1 DEF CallInv, Decoding, Calling, Silent, Answering, Concluding, Losing, Invoked
  <1>5. Refusing'
    BY <1>1, NoTextDiffers DEF Refusing, Nothing
  <1>. QED  BY <1>2, <1>3, <1>4, <1>5 DEF CallInv

LEMMA NotFoundKeeps == CallInv /\ (NotFound \/ AcceptFails \/ HandsOver) => CallInv'
  <1>. SUFFICES ASSUME CallInv, NotFound \/ AcceptFails \/ HandsOver PROVE CallInv'
    OBVIOUS
  <1>1. /\ stage \in {"sent", "handling"} /\ stage' = "written"
        /\ UNCHANGED <<input, caller, origin, args, wire, returned, outcome>>
    BY DEF NotFound, AcceptFails, HandsOver, Writes
  <1>2. reply'.code # "bad_request"
    <2>1. \/ reply' = Answer("error", 404, "unknown")
          \/ \E kind, status : reply' = Answer(kind, status, NoText)
      BY DEF NotFound, AcceptFails, HandsOver, Writes
    <2>. QED  BY <2>1, AnswerCode, NoTextDiffers
  <1>. QED  BY <1>1, <1>2, RefusalKeeps

LEMMA DecodeKeeps == CallInv /\ Decode => CallInv'
  <1>. SUFFICES ASSUME CallInv, Decode PROVE CallInv'
    OBVIOUS
  <1>1. stage = "sent" /\ UNCHANGED <<input, caller, origin, args, wire, returned, outcome>>
    BY DEF Decode
  <1>2. CASE RefusesBody
    <2>1. stage' = "written"
      BY <1>2 DEF Decode, BadRequest, Writes
    <2>. QED  BY <1>1, <1>2, <2>1, RefusalKeeps
  <1>3. CASE ~RefusesBody
    <2>1. stage' = "params" /\ req' = Decoded /\ UNCHANGED reply
      BY <1>3 DEF Decode
    <2>2. returned = Nothing /\ reply = Nothing
      BY <1>1 DEF CallInv, Silent
    <2>3. Routed' /\ Asked'
      BY <1>1, <2>1, RequestStays DEF Unbuilt
    <2>4. Decoding'
      BY <1>1, <1>3, <2>1, SameRequest DEF Decoding
    <2>5. Calling' /\ Silent' /\ Answering' /\ Concluding' /\ Losing'
      BY <1>1, <2>1, <2>2 DEF CallInv, Calling, Silent, Answering, Concluding, Losing, Invoked
    <2>6. Refusing'
      BY <2>1, <2>2, NoTextDiffers DEF Refusing, Nothing
    <2>. QED  BY <2>3, <2>4, <2>5, <2>6 DEF CallInv
  <1>. QED  BY <1>2, <1>3

LEMMA AssignKeeps == CallInv /\ AssignParams => CallInv'
  <1>. SUFFICES ASSUME CallInv, AssignParams PROVE CallInv'
    OBVIOUS
  <1>1. stage = "params" /\ UNCHANGED <<input, caller, origin, args, wire, returned, outcome>>
    BY DEF AssignParams
  <1>2. CASE RefusesQuery
    <2>1. stage' = "written"
      BY <1>2 DEF AssignParams, BadRequest, Writes
    <2>. QED  BY <1>1, <1>2, <2>1, RefusalKeeps
  <1>3. CASE ~RefusesQuery
    <2>1. /\ stage' = "handling" /\ UNCHANGED reply
          /\ req' = Override(Override(req, FromPath(req)), FromQuery)
      BY <1>3 DEF AssignParams
    <2>2. returned = Nothing /\ reply = Nothing
      BY <1>1 DEF CallInv, Silent
    <2>3. ~RefusesBody /\ req = Decoded
      BY <1>1 DEF CallInv, Decoding
    <2>4. Routed' /\ Asked'
      BY <1>1, <2>1, RequestStays DEF Unbuilt
    <2>5. Calling'
      <3>1. FromPath(Decoded)' = FromPath(Decoded)
        BY <1>1, SameRequest DEF FromPath, InBraces, URLParam, RawPath, input
      <3>. QED  BY <1>1, <1>3, <2>1, <2>3, <3>1, SameRequest DEF Calling, Override
    <2>6. Decoding' /\ Silent' /\ Answering' /\ Concluding' /\ Losing'
      BY <1>1, <2>1, <2>2 DEF CallInv, Decoding, Silent, Answering, Concluding, Losing
    <2>7. Refusing'
      BY <2>1, <2>2, NoTextDiffers DEF Refusing, Nothing
    <2>. QED  BY <2>4, <2>5, <2>6, <2>7 DEF CallInv
  <1>. QED  BY <1>2, <1>3

\* None of a handler's results is the adapter's own 400.
LEMMA HandlersAnswer ==
  ASSUME NEW result \in Results
  PROVE  Response(result).code # "bad_request"
  <1>1. CASE result.kind \in {"error", "other"}
    <2>1. result.code # "bad_request"
      BY AnswerCode, NoTextDiffers DEF Results, Nothing
    <2>. QED  BY <1>1, <2>1, AnswerCode DEF Response, WriteError
  <1>2. CASE result.kind \notin {"error", "other"}
    <2>1. \/ Response(result) = Answer("nothing", 204, NoText)
          \/ Response(result) = Answer(result.kind, route.status, NoText)
      BY <1>2 DEF Response
    <2>. QED  BY <2>1, AnswerCode, NoTextDiffers
  <1>. QED  BY <1>1, <1>2

LEMMA HandlerKeeps == CallInv /\ (\E result \in Results : HandlerReturns(result)) => CallInv'
  <1>. SUFFICES ASSUME CallInv, NEW result \in Results, HandlerReturns(result) PROVE CallInv'
    OBVIOUS
  <1>1. /\ stage = "handling" /\ stage' = "written" /\ returned' = result
        /\ reply' = Response(result)
        /\ UNCHANGED <<input, caller, origin, args, wire, req, outcome>>
    BY DEF HandlerReturns, Writes
  <1>2. Routed' /\ Asked'
    BY <1>1, RequestStays DEF Unbuilt
  <1>3. Calling'
    <2>1. /\ ~RefusesBody /\ ~RefusesQuery
          /\ req = Override(Override(Decoded, FromPath(Decoded)), FromQuery)
      BY <1>1 DEF CallInv, Calling, Invoked
    <2>2. FromPath(Decoded)' = FromPath(Decoded)
      BY <1>1, SameRequest DEF FromPath, InBraces, URLParam, RawPath, input
    <2>. QED  BY <1>1, <2>1, <2>2, SameRequest DEF Calling, Override
  <1>4. Decoding' /\ Silent' /\ Losing'
    BY <1>1 DEF Decoding, Silent, Losing
  <1>7. Concluding'
    <2>1. caller = "told" => outcome.kind = "TypeError"
      BY <1>1 DEF CallInv, Losing, Answer
    <2>. QED  BY <1>1, <2>1 DEF Concluding
  <1>5. Answering'
    BY <1>1, SameRoute DEF Answering, HandlerReturns, Unary, input
  <1>6. Refusing'
    BY <1>1, HandlersAnswer DEF Refusing
  <1>. QED  BY <1>2, <1>3, <1>4, <1>5, <1>6, <1>7 DEF CallInv

\* The client learns how its call ended, and the adapter nothing of that.
LEMMA EndKeeps ==
  ASSUME CallInv, stage \notin Unbuilt \cup {"ready"}, caller' = "told",
         UNCHANGED <<input, stage, origin, args, wire, req, returned, reply>>,
         \/ outcome' = Answer("TypeError", 0, NoText)
         \/ stage = "called"
         \/ stage = "written" /\ (origin = "client" => outcome' = Outcome)
  PROVE  CallInv'
  <1>1. Routed' /\ Asked'
    BY RequestStays
  <1>2. Calling'
    <2>1. FromPath(Decoded)' = FromPath(Decoded)
      BY SameRequest DEF FromPath, InBraces, URLParam, RawPath, input
    <2>. QED  BY <2>1, SameRequest DEF CallInv, Calling, Override, Invoked
  <1>3. Decoding' /\ Silent' /\ Refusing'
    BY SameRequest DEF CallInv, Decoding, Silent, Refusing
  <1>4. Answering'
    BY SameRoute DEF CallInv, Answering, Unary, input
  <1>5. Losing'
    BY DEF Losing
  <1>6. Concluding'
    <2>1. CASE outcome' = Answer("TypeError", 0, NoText)
      BY <2>1 DEF Concluding, Answer
    <2>2. CASE stage = "called"
      BY <2>2 DEF Concluding, CallInv, Silent
    <2>3. CASE stage = "written" /\ (origin = "client" => outcome' = Outcome)
      BY <2>3 DEF Concluding, Outcome, input
    <2>. QED  BY <2>1, <2>2, <2>3
  <1>. QED  BY <1>1, <1>2, <1>3, <1>4, <1>5, <1>6 DEF CallInv

LEMMA EndingsKeep == CallInv /\ (ParseThrows \/ Receive \/ Lost) => CallInv'
  <1>1. ASSUME CallInv, ParseThrows PROVE CallInv'
    BY <1>1, EndKeeps DEF ParseThrows, Unbuilt
  <1>2. ASSUME CallInv, Receive PROVE CallInv'
    BY <1>2, EndKeeps DEF Receive, Unbuilt
  <1>3. ASSUME CallInv, Lost PROVE CallInv'
    BY <1>3, EndKeeps DEF Lost, Unbuilt
  <1>. QED  BY <1>1, <1>2, <1>3

LEMMA StutterKeeps == CallInv /\ UNCHANGED vars => CallInv'
  <1>. SUFFICES ASSUME CallInv, UNCHANGED vars PROVE CallInv'
    OBVIOUS
  <1>1. UNCHANGED <<input, stage, caller, origin, args, wire, req, returned, reply, outcome>>
    BY DEF vars
  <1>2. Routed'
    BY <1>1 DEF CallInv, Routed, input, AdapterPanics, WrapperCompiles, Unbuilt, RoutesOf,
       FormFields, FormsOf, Fields
  <1>3. Asked' /\ Answering'
    BY <1>1, SameRoute DEF CallInv, Asked, Answering, Unary, input
  <1>4. Calling'
    <2>1. FromPath(Decoded)' = FromPath(Decoded)
      BY <1>1, SameRequest DEF FromPath, InBraces, URLParam, RawPath, input
    <2>. QED  BY <1>1, <2>1, SameRequest DEF CallInv, Calling, Override, Invoked
  <1>5. Decoding' /\ Silent' /\ Refusing'
    BY <1>1, SameRequest DEF CallInv, Decoding, Silent, Refusing
  <1>6. Concluding' /\ Losing'
    BY <1>1 DEF CallInv, Concluding, Losing, Outcome, input
  <1>. QED  BY <1>2, <1>3, <1>4, <1>5, <1>6 DEF CallInv

\* The state of a call is what its request makes it.
THEOREM CallCorrect == Spec => []CallInv
  <1>1. CallInv /\ [Next]_vars => CallInv'
    <2>. SUFFICES ASSUME CallInv, [Next]_vars PROVE CallInv'
      OBVIOUS
    <2>1. CASE Generate
      BY <2>1, GenerateKeeps
    <2>2. ASSUME stage = "ready", NEW a \in Arguments, ClientCalls(a) PROVE CallInv'
      BY <2>2, SentKeeps DEF ClientCalls
    <2>3. CASE Foreign
      BY <2>3, SentKeeps DEF Foreign, ForeignCalls
    <2>4. CASE NotFound \/ AcceptFails \/ HandsOver
      BY <2>4, NotFoundKeeps
    <2>5. CASE Decode
      BY <2>5, DecodeKeeps
    <2>6. CASE AssignParams
      BY <2>6, AssignKeeps
    <2>7. CASE stage = "handling" /\ \E result \in Results : HandlerReturns(result)
      BY <2>7, HandlerKeeps
    <2>8. CASE ParseThrows \/ Receive \/ Lost
      BY <2>8, EndingsKeep
    <2>10. CASE Send
      BY <2>10, SendKeeps
    <2>9. CASE UNCHANGED vars
      BY <2>9, StutterKeeps
    <2>. QED  BY <2>1, <2>2, <2>3, <2>4, <2>5, <2>6, <2>7, <2>8, <2>9, <2>10 DEF Next
  <1>. QED  BY InitInv, <1>1, PTL DEF Spec

-----------------------------------------------------------------------------
(***************************************************************************)
(* What crosses the wire.                                                  *)
(***************************************************************************)
\* Where names are distinct, what is sent by name is found by field.
LEMMA ByNameFacts ==
  ASSUME NEW c, NEW S, Declares(S), DOMAIN c \subseteq S
  PROVE  /\ \A f \in DOMAIN c : f.wire \in DOMAIN ByName(c) /\ ByName(c)[f.wire] = c[f]
         /\ \A f \in S : f.wire \in DOMAIN ByName(c) => f \in DOMAIN c
  <1>1. \A f \in DOMAIN c : Bearer(DOMAIN c, f.wire) = f
    BY DEF Declares, Bearer
  <1>2. \A f \in DOMAIN c : f.wire \in Wires(DOMAIN c)
    BY DEF Wires
  <1>3. \A f \in S : f.wire \in Wires(DOMAIN c) => f \in DOMAIN c
    BY DEF Wires, Declares
  <1>4. DOMAIN ByName(c) = Wires(DOMAIN c)
    BY DEF ByName
  <1>5. \A f \in DOMAIN c : ByName(c)[f.wire] = c[f]
    BY <1>1, <1>2 DEF ByName
  <1>. QED  BY <1>2, <1>3, <1>4, <1>5

\* And what is sent in a form is found in its part.
LEMMA FormFacts ==
  ASSUME NEW c, NEW S, Declares(S), DOMAIN c \subseteq S
  PROVE  /\ \A f \in DOMAIN c : f.wire \in DOMAIN Form(c)[PartOf(f)] /\ Form(c)[PartOf(f)][f.wire] = c[f]
         /\ \A f \in S : f.wire \in DOMAIN Form(c)[PartOf(f)] => f \in DOMAIN c
  <1> DEFINE Fs(part) == {g \in DOMAIN c : PartOf(g) = part}
             part(f) == [g \in Fs(PartOf(f)) |-> c[g]]
  <1>. SUFFICES ASSUME NEW f \in S
                PROVE  /\ f \in DOMAIN c => /\ f.wire \in DOMAIN Form(c)[PartOf(f)]
                                            /\ Form(c)[PartOf(f)][f.wire] = c[f]
                       /\ f.wire \in DOMAIN Form(c)[PartOf(f)] => f \in DOMAIN c
    OBVIOUS
  <1>1. PartOf(f) \in {"File", "Value"}
    BY DEF PartOf
  <1>2. Form(c)[PartOf(f)] = ByName(part(f))
    BY <1>1 DEF Form
  <1>3. /\ DOMAIN part(f) = {g \in DOMAIN c : PartOf(g) = PartOf(f)} /\ DOMAIN part(f) \subseteq S
        /\ f \in DOMAIN c => f \in DOMAIN part(f) /\ part(f)[f] = c[f]
    OBVIOUS
  <1> HIDE DEF part
  <1>4. /\ \A g \in DOMAIN part(f) : g.wire \in DOMAIN ByName(part(f)) /\ ByName(part(f))[g.wire] = part(f)[g]
        /\ \A g \in S : g.wire \in DOMAIN ByName(part(f)) => g \in DOMAIN part(f)
    BY <1>3, ByNameFacts
  <1>. QED  BY <1>2, <1>3, <1>4

\* An argument has a value of its field.
LEMMA ChoiceFacts ==
  ASSUME NEW fields, NEW required, NEW a \in Choices(fields, required, Values)
  PROVE  /\ required \subseteq DOMAIN a /\ DOMAIN a \subseteq fields
         /\ \A f \in DOMAIN a : a[f] \in Values(f)
  BY DEF Choices

\* A number is told from its text.
LEMMA NumeralFacts ==
  /\ DOMAIN Numerals = {"zero", "one", "half", "huge"}
  /\ \A n \in DOMAIN Numerals :
       Number(Numerals[n]) = n /\ Numerals[n] \notin {NoText, "big"} /\ Numerals[n] \in WireTexts
  <1>1. /\ DOMAIN Numerals = {"zero", "one", "half", "huge"}
        /\ Numerals["zero"] = "0" /\ Numerals["one"] = "1"
        /\ Numerals["half"] = "0.5" /\ Numerals["huge"] = "1e21"
    BY DEF Numerals
  <1>2. \A n \in DOMAIN Numerals : Number(Numerals[n]) = n
    BY <1>1 DEF Number
  <1>3. \A n \in DOMAIN Numerals : Numerals[n] \notin {NoText, "big"}
    BY <1>1, NoTextDiffers
  <1>4. \A n \in DOMAIN Numerals : Numerals[n] \in WireTexts
    BY DEF WireTexts, Range
  <1>. QED  BY <1>1, <1>2, <1>3, <1>4

\* The values of each type.
LEMMA ValueFacts ==
  ASSUME NEW f
  PROVE  /\ f.type = "bool" => Values(f) = {"zero", "one"}
         /\ f.type \in {"int", "int64", "float64"} => Values(f) = DOMAIN Numerals
         /\ f.type = "file" => Values(f) = {"blob", "big"}
         /\ f.type = "files" => Values(f) = {"blobs", "big", "none"}
         /\ f.type = "named" => Values(f) = {"object"}
         /\ f.type \notin Numeric \cup {"file", "files", "named"} =>
              Values(f) = {NoText, "a"} \cup (IF SourceOf(f) = "path" THEN {"spaced", "at", "cut"} ELSE {})
  <1>1. CASE f.type = "bool"
    BY <1>1 DEF Values, Numeric, Integral
  <1>2. CASE f.type \in {"int", "int64", "float64"}
    BY <1>2, NumeralFacts DEF Values, Numeric, Integral
  <1>3. CASE f.type = "file"
    BY <1>3 DEF Values, Numeric, Integral
  <1>4. CASE f.type = "files"
    BY <1>4 DEF Values, Numeric, Integral
  <1>5. CASE f.type = "named"
    BY <1>5 DEF Values, Numeric, Integral
  <1>6. CASE f.type \notin Numeric \cup {"file", "files", "named"}
    <2>1. CASE SourceOf(f) = "path"
      BY <1>6, <2>1 DEF Values, Numeric, Integral
    <2>2. CASE SourceOf(f) # "path"
      BY <1>6, <2>2 DEF Values, Numeric, Integral
    <2>. QED  BY <2>1, <2>2
  <1>. QED  BY <1>1, <1>2, <1>3, <1>4, <1>5, <1>6 DEF Numeric, Integral

\* A value that is written as a text and parsed again is the same value, but for the numbers
\* that no Go int holds.
LEMMA TextFacts ==
  ASSUME NEW f, NEW v \in Values(f)
  PROVE  /\ Parses(f, Text(f, v)) /\ v # "none" => Parsed(f, Text(f, v)) = v
         /\ ~Parses(f, Text(f, v)) => f.type \in Integral /\ v \in {"half", "huge"}
         /\ f.type \in Numeric => Text(f, v) # NoText
         /\ Text(f, v) = "big" => v = "big"
  <1>1. CASE f.type \in Numeric
    <2>1. v \in DOMAIN Numerals /\ (f.type \notin Integral => v \in NumbersOf(f))
      BY <1>1, NumeralFacts DEF Values, NumbersOf, Numeric, Integral
    <2>2. v \notin NumbersOf(f) => v \in {"half", "huge"}
      BY <2>1, NumeralFacts DEF NumbersOf
    <2>3. Text(f, v) = Numerals[v]
      BY <1>1 DEF Text
    <2>4. v \in NumbersOf(f) => Parses(f, Text(f, v))
      BY <2>3 DEF Parses, IsNumber
    <2>5. Parsed(f, Text(f, v)) = v
      BY <1>1, <2>1, <2>3, NumeralFacts DEF Parsed, Numeric, Integral
    <2>. QED  BY <2>1, <2>2, <2>3, <2>4, <2>5, NumeralFacts
  <1>2. CASE f.type \notin Numeric
    <2>1. Text(f, v) = v /\ Parses(f, Text(f, v))
      BY <1>2 DEF Text, Parses
    <2>2. v # "none" => Parsed(f, v) = v
      BY <1>2 DEF Parsed, Values, Numeric, Integral
    <2>. QED  BY <1>2, <2>1, <2>2
  <1>. QED  BY <1>1, <1>2

\* What an argument of a path segment is where it arrives.
LEMMA SegmentFacts ==
  ASSUME NEW t \in {NoText, "a", "spaced", "at", "cut"}
  PROVE  /\ Unescaped(Encoded(t)) = t
         /\ Encoded(t) \in {Encoding[r] : r \in Reserved} <=> t \in Reserved
  <1>1. /\ DOMAIN Encoding = {"spaced", "braced", "at", "cut"}
        /\ Encoding["spaced"] = "spaced_sent" /\ Encoding["braced"] = "braced_sent"
        /\ Encoding["at"] = "at_sent" /\ Encoding["cut"] = "cut_sent"
    BY DEF Encoding
  <1>2. {Encoding[r] : r \in Reserved} = {"at_sent", "cut_sent"}
    BY <1>1 DEF Reserved
  <1>3. CASE t \in {"spaced", "at", "cut"}
    <2>1. Encoded(t) = Encoding[t]
      BY <1>1, <1>3 DEF Encoded
    <2>2. \A u \in DOMAIN Encoding : Encoding[u] = Encoding[t] => u = t
      BY <1>1, <1>3
    <2>3. Unescaped(Encoding[t]) = t
      BY <1>1, <1>3, <2>2 DEF Unescaped
    <2>. QED  BY <1>1, <1>2, <1>3, <2>1, <2>3 DEF Reserved
  <1>4. CASE t \in {NoText, "a"}
    <2>1. Encoded(t) = t
      BY <1>1, <1>4, NoTextDiffers DEF Encoded
    <2>2. \A u \in DOMAIN Encoding : Encoding[u] # t
      BY <1>1, <1>4, NoTextDiffers
    <2>3. Unescaped(t) = t
      BY <2>2 DEF Unescaped
    <2>. QED  BY <1>2, <1>4, <2>1, <2>3, NoTextDiffers DEF Reserved
  <1>. QED  BY <1>3, <1>4

\* The adapter sees an argument of the query, or that it was left out.
LEMMA ClientQuery ==
  ASSUME TypeChecks, NEW a \in Arguments, wire = RequestFor(a), NEW f \in route.queryParams
  PROVE  QueryText(f.wire) = IF f \in DOMAIN a THEN Text(f, a[f]) ELSE NoText
  <1> DEFINE c == [g \in Given(a, route.queryParams) |-> Text(g, a[g])]
  <1>1. wire.query = ByName(c)
    BY DEF RequestFor, QueryOf, Sent
  <1>2. DOMAIN c = route.queryParams \cap DOMAIN a
    BY DEF Given
  <1>3. Declares(route.queryParams)
    BY DEF TypeChecks, Declares
  <1>4. \A g \in DOMAIN c : c[g] = Text(g, a[g])
    OBVIOUS
  <1> HIDE DEF c
  <1>5. CASE f \in DOMAIN a
    <2>1. f \in DOMAIN c
      BY <1>2, <1>5
    <2>2. f.wire \in DOMAIN ByName(c) /\ ByName(c)[f.wire] = c[f]
      BY <1>2, <1>3, <2>1, ByNameFacts
    <2>. QED  BY <1>1, <1>4, <1>5, <2>1, <2>2 DEF QueryText
  <1>6. CASE f \notin DOMAIN a
    <2>1. f.wire \notin DOMAIN ByName(c)
      BY <1>2, <1>3, <1>6, ByNameFacts
    <2>. QED  BY <1>1, <1>6, <2>1 DEF QueryText
  <1>. QED  BY <1>5, <1>6

\* The form holds the arguments of the body but for empty lists of files.
LEMMA ClientForm ==
  ASSUME TypeChecks, NEW a \in Arguments
  PROVE  /\ Filled(FormOf(a)) = {f \in BodyFields \cap DOMAIN a : a[f] # "none"}
         /\ \A f \in Filled(FormOf(a)) : FormOf(a)[PartOf(f)][f.wire] = Text(f, a[f])
  <1> DEFINE S == {f \in Given(a, BodyFields) : a[f] # "none"}
             c == [g \in Given(a, S) |-> Text(g, a[g])]
  <1>1. FormOf(a) = Form(c)
    BY DEF FormOf, Sent
  <1>2. DOMAIN c = {f \in BodyFields \cap DOMAIN a : a[f] # "none"}
    BY DEF Given
  <1>3. Declares(BodyFields)
    BY DEF TypeChecks
  <1>4. \A g \in DOMAIN c : c[g] = Text(g, a[g])
    OBVIOUS
  <1> HIDE DEF S, c
  <1>5. DOMAIN c \subseteq BodyFields
    BY <1>2
  <1>6. /\ \A f \in DOMAIN c : f.wire \in DOMAIN Form(c)[PartOf(f)] /\ Form(c)[PartOf(f)][f.wire] = c[f]
        /\ \A f \in BodyFields : f.wire \in DOMAIN Form(c)[PartOf(f)] => f \in DOMAIN c
    BY <1>3, <1>5, FormFacts
  <1>7. Filled(FormOf(a)) = DOMAIN c
    BY <1>1, <1>5, <1>6 DEF Filled
  <1>. QED  BY <1>1, <1>2, <1>4, <1>6, <1>7

\* What Arguments holds, told part by part.
LEMMA ArgumentFacts ==
  ASSUME Routed, NEW a \in Arguments
  PROVE  /\ route.pathParams \subseteq DOMAIN a
         /\ DOMAIN a \subseteq route.pathParams \cup route.queryParams \cup BodyFields
         /\ route.body # {} => \A f \in BodyFields : ~Optional(f) => f \in DOMAIN a
         /\ \A f \in DOMAIN a : a[f] \in Values(f)
  <1> DEFINE fields == route.pathParams \cup route.queryParams
                         \cup (IF route.body = {} THEN {} ELSE BodyFields)
             required == {f \in fields : ~Optional(f)}
  <1>1. a \in Choices(fields, required, Values)
    BY DEF Arguments
  <1>2. /\ required \subseteq DOMAIN a /\ DOMAIN a \subseteq fields
        /\ \A f \in DOMAIN a : a[f] \in Values(f)
    <2> HIDE DEF fields, required
    <2>. QED  BY <1>1, ChoiceFacts
  <1>3. \A f \in route.pathParams : ~Optional(f)
    BY RouteFacts DEF Optional
  <1>. QED  BY <1>2, <1>3

\* Whatever the body is, decoding it leaves no field of the struct without a value.
LEMMA DecodedDomain == DOMAIN Decoded = Fields(route)
  BY DEF Decoded, Override, Blank

\* What the handler finds in each field.
LEMMA FilledFrom ==
  ASSUME CallInv, Invoked, NEW f \in Fields(route)
  PROVE  req[f] = IF f \in route.queryParams /\ ~Skips(f) THEN Parsed(f, QueryText(f.wire))
                  ELSE IF f \in route.pathParams THEN FromPath(Decoded)[f]
                  ELSE Decoded[f]
  <1>1. req = Override(Override(Decoded, FromPath(Decoded)), FromQuery)
    BY DEF CallInv, Calling
  <1>2. /\ DOMAIN FromQuery = {q \in route.queryParams : ~Skips(q)}
        /\ \A q \in DOMAIN FromQuery : FromQuery[q] = Parsed(q, QueryText(q.wire))
    BY DEF FromQuery
  <1>3. DOMAIN FromPath(Decoded) = route.pathParams
    BY DEF FromPath
  <1>4. DOMAIN Override(Decoded, FromPath(Decoded)) = Fields(route)
    BY DecodedDomain DEF Override
  <1>5. Override(Decoded, FromPath(Decoded))[f] =
          IF f \in route.pathParams THEN FromPath(Decoded)[f] ELSE Decoded[f]
    BY <1>3, DecodedDomain DEF Override
  <1>6. req[f] = IF f \in DOMAIN FromQuery THEN FromQuery[f]
                 ELSE Override(Decoded, FromPath(Decoded))[f]
    BY <1>1, <1>4 DEF Override
  <1>. QED  BY <1>2, <1>5, <1>6

\* PathFromURL: after the body and whatever it holds, the path is assigned.
LEMMA PathLast ==
  ASSUME CallInv, Invoked, Colons, NEW f \in route.pathParams
  PROVE  req[f] = URLParam(f.wire)
  <1>1. Routed
    BY DEF CallInv
  <1>2. f \in Fields(route) /\ f \notin route.queryParams
    BY <1>1, RouteFacts
  <1>3. req[f] = FromPath(Decoded)[f]
    BY <1>2, FilledFrom
  <1>. QED  BY <1>3 DEF FromPath, Colons

LEMMA PathAssigned == CallInv => PathFromURL
  BY PathLast DEF PathFromURL, URLParam

THEOREM PathCorrect == Spec => []PathFromURL
  BY CallCorrect, PathAssigned, PTL

\* An argument that its field cannot hold is a number.
LEMMA UnfitFacts ==
  ASSUME NEW f, NEW v \in Values(f), v \notin GoValues(f)
  PROVE  f.type \in Integral /\ v \in {"half", "huge"}
  <1>1. CASE f.type \in Numeric
    BY <1>1 DEF Values, GoValues, NumbersOf, Numeric, Integral
  <1>2. CASE f.type \in {"file", "files", "named"}
    BY <1>2 DEF GoValues, Numeric, Integral
  <1>3. CASE f.type \notin Numeric \cup {"file", "files", "named"}
    <2>1. Values(f) \subseteq {NoText, "a", "spaced", "at", "cut"}
      BY <1>3, ValueFacts
    <2>2. GoValues(f) = WireTexts
      BY <1>3 DEF GoValues
    <2>3. {NoText, "a"} \subseteq WireTexts /\ DOMAIN Encoding \subseteq WireTexts
      BY DEF WireTexts, Texts
    <2>4. {"spaced", "at", "cut"} \subseteq DOMAIN Encoding
      BY DEF Encoding
    <2>. QED  BY <2>1, <2>2, <2>3, <2>4
  <1>. QED  BY <1>1, <1>2, <1>3

\* NeverRejected: what the adapter does not decode of the request a client makes of its
\* arguments.
Excused ==
  \/ \E f \in BodyFields : ~Optional(f) /\ args[f] = "none"
  \/ \E f \in Limited \cap DOMAIN args : args[f] = "big"
  \/ \E f \in DOMAIN args :
       f.type \in Integral /\ args[f] \in {"huge"} \cup (IF SourceOf(f) = "json" THEN {} ELSE {"half"})

LEMMA ClientAccepted == CallInv => NeverRejected
  <1>. SUFFICES ASSUME CallInv, reply.code = "bad_request", origin = "client"
                PROVE  Excused
    BY DEF NeverRejected, Excused
  <1>1. RefusesBody \/ RefusesQuery
    BY DEF CallInv, Refusing
  <1>2. stage # "called"
    BY NoTextDiffers DEF CallInv, Silent, Nothing
  <1>3. TypeChecks /\ args \in Arguments /\ wire = RequestFor(args) /\ ~Unsound(args, {"half"})
    BY <1>2 DEF CallInv, Asked
  <1>4. Routed
    BY DEF CallInv
  <1>5. \A f \in DOMAIN args : args[f] \in Values(f)
    BY <1>3, <1>4, ArgumentFacts
  <1>6. CASE RefusesQuery
    <2>1. PICK f \in route.queryParams : ~Skips(f) /\ ~Parses(f, QueryText(f.wire))
      BY <1>6 DEF RefusesQuery
    <2>2. QueryText(f.wire) = IF f \in DOMAIN args THEN Text(f, args[f]) ELSE NoText
      BY <1>3, ClientQuery
    <2>3. f \in DOMAIN args
      BY <2>1, <2>2 DEF Skips, Parses
    <2>4. f.type \in Integral /\ args[f] \in {"half", "huge"}
      BY <1>5, <2>1, <2>2, <2>3, TextFacts
    <2>5. SourceOf(f) # "json"
      BY <1>4, RouteFacts
    <2>. QED  BY <2>3, <2>4, <2>5 DEF Excused
  <1>7. CASE RefusesBody /\ route.upload
    <2>1. HasBody /\ UploadBad(FormOf(args))
      BY <1>3, <1>7 DEF RefusesBody, RequestFor, Body
    <2>2. /\ Filled(FormOf(args)) = {f \in BodyFields \cap DOMAIN args : args[f] # "none"}
          /\ \A f \in Filled(FormOf(args)) : FormOf(args)[PartOf(f)][f.wire] = Text(f, args[f])
      BY <1>3, ClientForm
    <2>3. ASSUME NEW f \in BodyFields, ~Optional(f), f \notin Filled(FormOf(args)) PROVE Excused
      <3>1. f \in DOMAIN args
        BY <1>3, <1>4, <2>1, <2>3, ArgumentFacts DEF HasBody
      <3>. QED  BY <2>2, <2>3, <3>1 DEF Excused
    <2>4. ASSUME NEW f \in Filled(FormOf(args)), ~Parses(f, FormOf(args)[PartOf(f)][f.wire])
          PROVE  Excused
      <3>1. f \in BodyFields \cap DOMAIN args /\ ~Parses(f, Text(f, args[f]))
        BY <2>2, <2>4
      <3>2. f.type \in Integral /\ args[f] \in {"half", "huge"}
        BY <1>5, <3>1, TextFacts
      <3>3. SourceOf(f) # "json"
        BY <1>4, <1>7, <3>1, RouteFacts
      <3>. QED  BY <3>1, <3>2, <3>3 DEF Excused
    <2>5. ASSUME NEW f \in Filled(FormOf(args)) \cap Limited, FormOf(args)[PartOf(f)][f.wire] = "big"
          PROVE  Excused
      <3>1. f \in BodyFields \cap DOMAIN args /\ Text(f, args[f]) = "big"
        BY <2>2, <2>5
      <3>2. args[f] = "big"
        BY <1>5, <3>1, TextFacts
      <3>. QED  BY <2>5, <3>1, <3>2 DEF Excused
    <2>. QED  BY <2>1, <2>3, <2>4, <2>5 DEF UploadBad
  <1>8. CASE RefusesBody /\ ~route.upload
    <2>1. HasBody /\ JSONBad(JSONOf(args))
      BY <1>3, <1>8 DEF RefusesBody, RequestFor, Body
    <2>2. PICK f \in BodyFields \cap DOMAIN args : args[f] \notin GoValues(f)
      BY <2>1 DEF JSONBad, JSONOf, Given
    <2>3. f.type \in Integral /\ args[f] \in {"half", "huge"}
      BY <1>5, <2>2, UnfitFacts
    <2>4. args[f] # "half"
      BY <1>3, <1>8, <2>1, <2>2, <2>3 DEF Unsound, Given
    <2>. QED  BY <2>2, <2>3, <2>4 DEF Excused
  <1>. QED  BY <1>1, <1>6, <1>7, <1>8

THEOREM AcceptedCorrect == Spec => []NeverRejected
  BY CallCorrect, ClientAccepted, PTL

\* What decoding the client's body makes of each field.
LEMMA ClientBody ==
  ASSUME Routed, TypeChecks, ~RefusesBody, NEW a \in Arguments, wire = RequestFor(a),
         NEW f \in Fields(route)
  PROVE  /\ f \notin BodyFields => Decoded[f] = Zero(f)
         /\ f \in BodyFields /\ Unary(route) =>
              Decoded[f] = IF f \notin DOMAIN a \/ (route.upload /\ a[f] = "none") THEN Zero(f)
                           ELSE a[f]
  <1>1. /\ DOMAIN Blank = Fields(route) /\ Blank[f] = Zero(f)
    BY DEF Blank
  <1>2. CASE ~HasBody
    <2>1. Decoded[f] = Zero(f)
      BY <1>1, <1>2 DEF Decoded
    <2>2. f \notin BodyFields \/ ~Unary(route)
      BY <1>2, RouteFacts DEF HasBody
    <2>. QED  BY <2>1, <2>2
  <1>3. CASE HasBody /\ route.upload
    <2> DEFINE form == [g \in Filled(wire.fields) |-> Parsed(g, wire.fields[PartOf(g)][g.wire])]
    <2>1. wire.fields = FormOf(a)
      BY <1>3 DEF RequestFor, HasBody
    <2>2. Decoded = Override(Blank, form)
      BY <1>3 DEF Decoded
    <2>3. /\ Filled(wire.fields) = {g \in BodyFields \cap DOMAIN a : a[g] # "none"}
          /\ \A g \in Filled(wire.fields) : wire.fields[PartOf(g)][g.wire] = Text(g, a[g])
      BY <2>1, ClientForm
    <2>4. f \in Filled(wire.fields) => form[f] = a[f]
      <3>. SUFFICES ASSUME f \in Filled(wire.fields) PROVE form[f] = a[f]
        OBVIOUS
      <3>1. form[f] = Parsed(f, Text(f, a[f]))
        BY <2>3
      <3>2. a[f] \in Values(f) /\ a[f] # "none"
        BY <2>3, ArgumentFacts
      <3>3. Parses(f, Text(f, a[f]))
        BY <1>3, <2>3 DEF RefusesBody, UploadBad
      <3>. QED  BY <3>1, <3>2, <3>3, TextFacts
    <2>5. DOMAIN form = Filled(wire.fields)
      OBVIOUS
    <2> HIDE DEF form
    <2>6. Decoded[f] = IF f \in Filled(wire.fields) THEN a[f] ELSE Zero(f)
      BY <1>1, <2>2, <2>4, <2>5 DEF Override
    <2>. QED  BY <1>3, <2>3, <2>6
  <1>4. CASE HasBody /\ ~route.upload
    <2>1. wire.fields = JSONOf(a)
      BY <1>4 DEF RequestFor, HasBody
    <2>2. Decoded = Override(Blank, JSONOf(a))
      BY <1>4, <2>1 DEF Decoded
    <2>3. /\ DOMAIN JSONOf(a) = BodyFields \cap DOMAIN a
          /\ \A g \in DOMAIN JSONOf(a) : JSONOf(a)[g] = a[g]
      BY DEF JSONOf, Given
    <2>4. Decoded[f] = IF f \in BodyFields \cap DOMAIN a THEN a[f] ELSE Zero(f)
      BY <1>1, <2>2, <2>3 DEF Override
    <2>. QED  BY <1>4, <2>4
  <1>. QED  BY <1>2, <1>3, <1>4

\* The field types of a path or query parameter that the adapter compiles with.
LEMMA ParameterTypes ==
  ASSUME CallInv, Invoked
  PROVE  /\ \A f \in route.pathParams : f.type = "string"
         /\ \A f \in route.queryParams : f.type \in {"string", "int", "bool", "float64"}
  <1>1. stage \notin Unbuilt
    BY DEF CallInv, Silent, Invoked, Unbuilt
  <1>2. WrapperCompiles(route)
    BY <1>1 DEF CallInv, Routed
  <1>. QED  BY <1>2 DEF WrapperCompiles, Assigns

\* The arguments of the path, and where Go keeps the path as it was sent.
LEMMA PathSent ==
  ASSUME CallInv, Invoked, Colons, TypeChecks, NEW a \in Arguments, wire = RequestFor(a)
  PROVE  /\ \A f \in route.pathParams :
              /\ a[f] \in {NoText, "a", "spaced", "at", "cut"}
              /\ wire.path[f.wire] = Encoded(a[f])
         /\ RawPath <=> \E f \in route.pathParams : a[f] \in Reserved
  <1> DEFINE c == [g \in route.pathParams |-> PathText(g, a)]
  <1>1. wire.path = ByName(c) /\ DOMAIN c = route.pathParams
    BY DEF RequestFor, PathOf
  <1>2. Declares(route.pathParams)
    BY DEF TypeChecks, Declares
  <1>3. ASSUME NEW f \in route.pathParams
        PROVE  a[f] \in {NoText, "a", "spaced", "at", "cut"} /\ c[f] = Encoded(a[f])
    <2>1. f.type = "string" /\ SourceOf(f) = "path"
      BY ParameterTypes, RouteFacts DEF CallInv
    <2>2. a[f] \in Values(f)
      BY ArgumentFacts DEF CallInv
    <2>3. c[f] = Encoded(Text(f, a[f]))
      BY DEF PathText, Colons
    <2>. QED  BY <2>1, <2>2, <2>3 DEF Values, Text, Numeric, Integral
  <1> HIDE DEF c
  <1>4. \A f \in route.pathParams : f.wire \in DOMAIN wire.path /\ wire.path[f.wire] = Encoded(a[f])
    BY <1>1, <1>2, <1>3, ByNameFacts
  <1>5. \A n \in DOMAIN wire.path : \E f \in route.pathParams : f.wire = n
    BY <1>1 DEF ByName, Wires
  <1>6. \A f \in route.pathParams :
          Encoded(a[f]) \in {Encoding[r] : r \in Reserved} <=> a[f] \in Reserved
    BY <1>3, SegmentFacts
  <1>7. RawPath <=> \E f \in route.pathParams : a[f] \in Reserved
    BY <1>4, <1>5, <1>6 DEF RawPath
  <1>. QED  BY <1>3, <1>4, <1>7

\* ArgsArrive: each field holds its argument, by the part of the request that carries it.
LEMMA Arrival == CallInv => ArgsArrive
  <1>. SUFFICES ASSUME CallInv, Invoked, origin = "client", Colons PROVE
         /\ \A f \in route.queryParams \cup (IF Unary(route) THEN BodyFields ELSE {}) : req[f] = Passed(f)
         /\ \A f \in route.pathParams : req[f] = IF Escaping THEN Encoded(args[f]) ELSE args[f]
    BY DEF ArgsArrive
  <1>0. stage # "called"
    BY DEF CallInv, Silent, Invoked
  <1>1. TypeChecks /\ args \in Arguments /\ wire = RequestFor(args)
    BY <1>0 DEF CallInv, Asked
  <1>2. Routed /\ ~RefusesBody /\ ~RefusesQuery
    BY DEF CallInv, Calling
  <1>3. /\ route.pathParams \subseteq DOMAIN args
        /\ \A g \in DOMAIN args : args[g] \in Values(g)
    BY <1>1, <1>2, ArgumentFacts
  <1>4. \A f \in route.pathParams \cup route.queryParams \cup BodyFields :
        /\ f \in Fields(route)
        /\ f \in route.pathParams => f \notin route.queryParams
        /\ f \in BodyFields => f \notin route.pathParams /\ f \notin route.queryParams
    BY <1>2, RouteFacts DEF BodyFields
  <1>5. ASSUME NEW f \in route.pathParams
        PROVE  req[f] = IF Escaping THEN Encoded(args[f]) ELSE args[f]
    <2>1. req[f] = URLParam(f.wire)
      BY <1>5, PathLast
    <2>2. /\ wire.path[f.wire] = Encoded(args[f])
          /\ Escaping <=> RawPath /\ framework \in {"chi", "echo"}
      BY <1>1, <1>5, PathSent DEF Escaping
    <2>3. Unescaped(Encoded(args[f])) = args[f]
      BY <1>1, <1>5, PathSent, SegmentFacts
    <2>. QED  BY <2>1, <2>2, <2>3 DEF URLParam
  <1>6. ASSUME NEW f \in route.queryParams PROVE req[f] = Passed(f)
    <2>0. f \in Fields(route) /\ f \notin route.pathParams /\ f \notin BodyFields
      BY <1>4
    <2>1. QueryText(f.wire) = IF f \in DOMAIN args THEN Text(f, args[f]) ELSE NoText
      BY <1>1, <1>6, ClientQuery
    <2>2. f.type \in {"string", "int", "bool", "float64"}
      BY <1>6, ParameterTypes
    <2>3. CASE f \in DOMAIN args
      <3>1. args[f] \in Values(f) /\ args[f] # "none"
        BY <1>3, <2>2, <2>3, NoTextDiffers DEF Values, NumbersOf, Numeric, Integral
      <3>2. ~Skips(f)
        BY <2>1, <2>3, <3>1, TextFacts DEF Skips
      <3>3. Parses(f, Text(f, args[f]))
        BY <1>2, <2>1, <2>3, <3>2 DEF RefusesQuery
      <3>4. req[f] = Parsed(f, Text(f, args[f]))
        BY <2>0, <2>1, <2>3, <3>2, FilledFrom
      <3>. QED  BY <2>3, <3>1, <3>3, <3>4, TextFacts DEF Passed
    <2>4. CASE f \notin DOMAIN args /\ f.type \in Numeric
      <3>1. Skips(f)
        BY <2>1, <2>4 DEF Skips
      <3>2. req[f] = Decoded[f]
        BY <2>0, <3>1, FilledFrom
      <3>3. Decoded[f] = Zero(f)
        BY <1>1, <1>2, <2>0, ClientBody
      <3>. QED  BY <2>4, <3>2, <3>3 DEF Passed
    <2>5. CASE f \notin DOMAIN args /\ f.type \notin Numeric
      <3>1. ~Skips(f)
        BY <2>5 DEF Skips
      <3>2. f.type = "string"
        BY <2>2, <2>5 DEF Numeric, Integral
      <3>3. req[f] = NoText
        BY <2>0, <2>1, <2>5, <3>1, <3>2, FilledFrom DEF Parsed
      <3>4. Zero(f) = NoText
        BY <2>5, <3>2 DEF Zero
      <3>. QED  BY <2>5, <3>3, <3>4 DEF Passed
    <2>. QED  BY <2>3, <2>4, <2>5
  <1>7. ASSUME NEW f \in BodyFields, Unary(route) PROVE req[f] = Passed(f)
    <2>1. req[f] = Decoded[f]
      BY <1>4, <1>7, FilledFrom
    <2>2. Decoded[f] = IF f \notin DOMAIN args \/ (route.upload /\ args[f] = "none") THEN Zero(f)
                       ELSE args[f]
      BY <1>1, <1>2, <1>4, <1>7, ClientBody
    <2>. QED  BY <2>1, <2>2 DEF Passed
  <1>. QED  BY <1>5, <1>6, <1>7

THEOREM ArgsCorrect == Spec => []ArgsArrive
  BY CallCorrect, Arrival, PTL

\* ResultsArrive: what the client's method does follows from the reply alone.
LEMMA Answered == CallInv => ResultsArrive
  <1>. SUFFICES ASSUME CallInv, caller = "told", origin = "client", outcome.kind # "TypeError",
                       returned.kind \in {"error", "other", "value"}
                PROVE  CASE returned.kind = "error" ->
                              outcome = Answer("GoductError", returned.status, returned.code)
                         [] returned.kind = "other" -> outcome = Answer("GoductError", 500, "internal")
                         [] returned.kind = "value" /\ route.status # 204 -> outcome.kind = "value"
                         [] OTHER -> TRUE
    BY DEF ResultsArrive
  <1>1. returned # Nothing
    BY DEF Nothing
  <1>2. /\ Unary(route) /\ returned \in Results /\ reply = Response(returned) /\ outcome = Outcome
        /\ stage = "written" /\ route.socket = {}
    BY <1>1 DEF CallInv, Answering, Concluding, Silent, Unary
  <1>3. CASE returned.kind = "error"
    <2>1. returned.status \in {404, 409} /\ reply = returned
      BY <1>2, <1>3 DEF Results, Answer, Nothing, Response, WriteError
    <2>2. outcome = Answer("GoductError", returned.status, returned.code)
      BY <1>2, <1>3, <2>1 DEF Outcome, IsOk
    <2>. QED  BY <1>3, <2>2
  <1>4. CASE returned.kind = "other"
    <2>1. reply = Answer("error", 500, "internal")
      BY <1>2, <1>4 DEF Response, WriteError
    <2>2. outcome = Answer("GoductError", 500, "internal")
      BY <1>2, <2>1 DEF Outcome, IsOk, Answer
    <2>. QED  BY <1>4, <2>2
  <1>5. CASE returned.kind = "value" /\ route.status # 204
    <2>1. reply = Answer("value", route.status, NoText)
      BY <1>2, <1>5 DEF Response
    <2>2. route.status \in {200, 201}
      BY <1>2, <1>5 DEF CallInv, Routed, Unbuilt, AdapterPanics, Unary
    <2>3. route.response # {}
      BY <1>2, <1>5 DEF Results, Answer, Nothing
    <2>4. outcome = Answer("value", 0, NoText)
      BY <1>2, <2>1, <2>2, <2>3 DEF Outcome, IsOk, Answer
    <2>. QED  BY <1>5, <2>4 DEF Answer
  <1>6. CASE returned.kind = "value" /\ route.status = 204
    BY <1>6
  <1>. QED  BY <1>3, <1>4, <1>5, <1>6

THEOREM ResultsCorrect == Spec => []ResultsArrive
  BY CallCorrect, Answered, PTL

-----------------------------------------------------------------------------
(***************************************************************************)
(* The type invariant.  Whoever sends the request, each text or value on   *)
(* the wire is one that the field it lands in can hold.                    *)
(***************************************************************************)
WireTyped(w) ==
  /\ \A f \in route.pathParams : w.path[f.wire] \in WireTexts
  /\ \A f \in route.queryParams : f.wire \in DOMAIN w.query => w.query[f.wire] \in WireTexts
  /\ w.body.kind = "form" =>
       \A f \in Filled(w.fields) : PartOf(f) = "Value" => w.fields["Value"][f.wire] \in WireTexts

Unsent == Unbuilt \cup {"ready", "called"}
TypeInv == TypeOK /\ (stage \notin Unsent => WireTyped(wire))

\* What has another Go type than a text or a number.
Objects == {"file", "files", "named"}

\* Parameters and the texts of a form are texts or numbers, files have their own type.
LEMMA FieldTypes ==
  ASSUME Routed
  PROVE  /\ \A f \in route.pathParams \cup route.queryParams : f.type \notin Objects
         /\ route.upload => \A f \in BodyFields :
              /\ PartOf(f) = "Value" => f.type \notin Objects
              /\ PartOf(f) # "Value" => f.type \in {"file", "files"}
  <1>1. \A f \in Fields(route) : ~BadType(f, TRUE)
    BY RouteFacts DEF FieldRejected, Fields
  <1>2. \A f : IsParam(f, TRUE) \/ IsParam(f, FALSE) => f.type \notin Objects
    BY DEF IsParam, Basics, Slices, Objects
  <1>3. \A f \in Fields(route) :
          /\ SourceOf(f) \in {"path", "query", "form"} => f.type \notin Objects
          /\ SourceOf(f) = "multipart" => f.type \in {"file", "files"}
    BY <1>1, <1>2 DEF BadType
  <1>. QED  BY <1>3, RouteFacts DEF PartOf

\* A text that is sent for a value, by the client or another, is one of the wire's.
LEMMA TextTyped ==
  ASSUME NEW f, f.type \notin Objects
  PROVE  /\ \A v \in Values(f) : Text(f, v) \in WireTexts
         /\ TextsOf(f) \subseteq WireTexts
  <1>1. TextsOf(f) = Texts /\ Texts \subseteq WireTexts
    BY DEF TextsOf, WireTexts, Objects
  <1>2. CASE f.type \in Numeric
    <2>1. Values(f) \subseteq DOMAIN Numerals
      BY <1>2, NumeralFacts DEF Values, NumbersOf, Numeric, Integral
    <2>. QED  BY <1>1, <1>2, <2>1, NumeralFacts DEF Text
  <1>3. CASE f.type \notin Numeric
    <2>1. Values(f) \subseteq {NoText, "a"} \cup {"spaced", "at", "cut"}
      BY <1>3, ValueFacts DEF Objects
    <2>2. {"spaced", "at", "cut"} \subseteq DOMAIN Encoding
      BY DEF Encoding
    <2>3. {NoText, "a"} \subseteq WireTexts /\ DOMAIN Encoding \subseteq WireTexts
      BY DEF WireTexts, Texts
    <2>. QED  BY <1>1, <1>3, <2>1, <2>2, <2>3 DEF Text
  <1>. QED  BY <1>1, <1>2, <1>3

\* And so is what it becomes in a path, and what that becomes again.
LEMMA SegmentTyped ==
  /\ \A t \in WireTexts : Encoded(t) \in WireTexts /\ Unescaped(t) \in WireTexts
  /\ AsItStands \in WireTexts /\ NoText \in WireTexts
  /\ \A f : SegmentsOf(f) \subseteq WireTexts
  <1>1. DOMAIN Encoding \subseteq WireTexts /\ Range(Encoding) \subseteq WireTexts /\ Texts \subseteq WireTexts
    BY DEF WireTexts
  <1>2. \A t \in DOMAIN Encoding : Encoding[t] \in WireTexts
    BY <1>1 DEF Range
  <1>3. \A t \in WireTexts : Encoded(t) \in WireTexts /\ Unescaped(t) \in WireTexts
    BY <1>1, <1>2 DEF Encoded, Unescaped
  <1>4. {"at", "braced"} \subseteq DOMAIN Encoding
    BY DEF Encoding
  <1>. QED  BY <1>1, <1>3, <1>4 DEF AsItStands, Texts, SegmentsOf

\* The zero value is a value of the Go type, and so is what the adapter makes of a text that
\* parses.
LEMMA ZeroTyped == \A f : Zero(f) \in GoValues(f)
  <1>. SUFFICES ASSUME NEW f PROVE Zero(f) \in GoValues(f)
    OBVIOUS
  <1>1. CASE f.type \in Numeric
    BY <1>1 DEF GoValues, Zero, NumbersOf, Numeric, Integral
  <1>2. CASE f.type \in Objects
    BY <1>2 DEF GoValues, Zero, Numeric, Integral, Objects
  <1>3. CASE f.type \notin Objects \cup Numeric
    BY <1>3, SegmentTyped DEF Zero, GoValues, Objects
  <1>. QED  BY <1>1, <1>2, <1>3

LEMMA ParsedTyped ==
  ASSUME NEW f, f.type # "named", NEW text, f.type \in Objects \/ text \in WireTexts, Parses(f, text)
  PROVE  Parsed(f, text) \in GoValues(f)
  <1>1. CASE f.type \in Numeric
    <2>1. PICK n \in NumbersOf(f) : Numerals[n] = text
      BY <1>1 DEF Parses, IsNumber
    <2>2. n \in DOMAIN Numerals
      BY NumeralFacts DEF NumbersOf
    <2>3. Parsed(f, text) = n
      BY <1>1, <2>1, <2>2, NumeralFacts DEF Parsed, Numeric, Integral
    <2>. QED  BY <1>1, <2>3 DEF GoValues, Numeric, Integral
  <1>2. CASE f.type \in {"file", "files"}
    BY <1>2 DEF Parsed, GoValues, Values, Numeric, Integral
  <1>3. CASE f.type \notin Objects \cup Numeric
    BY <1>3 DEF Parsed, GoValues, Objects
  <1>. QED  BY <1>1, <1>2, <1>3 DEF Objects

\* Under a name there is what one of its fields has.
LEMMA BearerFacts ==
  ASSUME NEW c, NEW n \in DOMAIN ByName(c)
  PROVE  \E g \in DOMAIN c : g.wire = n /\ ByName(c)[n] = c[g]
  <1>1. n \in Wires(DOMAIN c)
    BY DEF ByName
  <1>2. \E g \in DOMAIN c : g.wire = n
    BY <1>1 DEF Wires
  <1>3. Bearer(DOMAIN c, n) \in DOMAIN c /\ Bearer(DOMAIN c, n).wire = n
    BY <1>2 DEF Bearer
  <1>. QED  BY <1>1, <1>3 DEF ByName

\* Every name of the fields is there, and what is there is a text if their texts are.
LEMMA ByNameTyped ==
  ASSUME NEW c, \A g \in DOMAIN c : c[g] \in WireTexts
  PROVE  /\ \A n \in DOMAIN ByName(c) : ByName(c)[n] \in WireTexts
         /\ \A g \in DOMAIN c : g.wire \in DOMAIN ByName(c)
  <1>1. \A n \in DOMAIN ByName(c) : ByName(c)[n] \in WireTexts
    BY BearerFacts
  <1>2. \A g \in DOMAIN c : g.wire \in DOMAIN ByName(c)
    BY DEF ByName, Wires
  <1>. QED  BY <1>1, <1>2

LEMMA FormTyped ==
  ASSUME NEW c, \A g \in DOMAIN c : PartOf(g) = "Value" => c[g] \in WireTexts
  PROVE  \A n \in DOMAIN Form(c)["Value"] : Form(c)["Value"][n] \in WireTexts
  <1> DEFINE part == [g \in {h \in DOMAIN c : PartOf(h) = "Value"} |-> c[g]]
  <1>1. Form(c)["Value"] = ByName(part)
    BY DEF Form
  <1>2. \A g \in DOMAIN part : part[g] \in WireTexts
    OBVIOUS
  <1> HIDE DEF part
  <1>. QED  BY <1>1, <1>2, ByNameTyped

\* A request of the generated client.
LEMMA ClientTyped ==
  ASSUME Routed, NEW a \in Arguments
  PROVE  WireTyped(RequestFor(a))
  <1> DEFINE w == RequestFor(a)
             path == [f \in route.pathParams |-> PathText(f, a)]
             query == Sent(a, route.queryParams)
             parts == {f \in Given(a, BodyFields) : a[f] # "none"}
             form == Sent(a, parts)
  <1>1. /\ route.pathParams \subseteq DOMAIN a
        /\ \A f \in DOMAIN a : a[f] \in Values(f)
    BY ArgumentFacts
  <1>2. w.path = ByName(path) /\ w.query = ByName(query)
    BY DEF RequestFor, PathOf, QueryOf
  <1>3. \A f \in DOMAIN path : path[f] \in WireTexts
    <2>. SUFFICES ASSUME NEW f \in route.pathParams PROVE PathText(f, a) \in WireTexts
      OBVIOUS
    <2>1. Text(f, a[f]) \in WireTexts
      BY <1>1, FieldTypes, TextTyped
    <2>. QED  BY <2>1, SegmentTyped DEF PathText
  <1>4. \A f \in DOMAIN query : query[f] \in WireTexts
    <2>. SUFFICES ASSUME NEW f \in route.queryParams \cap DOMAIN a PROVE Text(f, a[f]) \in WireTexts
      BY DEF Sent, Given
    <2>. QED  BY <1>1, FieldTypes, TextTyped
  <1>5. w.body.kind = "form" => route.upload /\ w.fields = Form(form)
    BY DEF RequestFor, Body, FormOf
  <1>6. route.upload => \A f \in DOMAIN form : PartOf(f) = "Value" => form[f] \in WireTexts
    <2>. SUFFICES ASSUME route.upload, NEW f \in BodyFields \cap DOMAIN a, PartOf(f) = "Value"
                  PROVE  Text(f, a[f]) \in WireTexts
      BY DEF Sent, Given
    <2>. QED  BY <1>1, FieldTypes, TextTyped
  <1>9. \A f \in route.pathParams : f \in DOMAIN path
    OBVIOUS
  <1> HIDE DEF w, path, query, parts, form
  <1>10. \A f \in route.pathParams : w.path[f.wire] \in WireTexts
    BY <1>2, <1>3, <1>9, ByNameTyped
  <1>11. \A f \in route.queryParams : f.wire \in DOMAIN w.query => w.query[f.wire] \in WireTexts
    BY <1>2, <1>4, ByNameTyped
  <1>12. w.body.kind = "form" =>
           \A f \in Filled(w.fields) : PartOf(f) = "Value" => w.fields["Value"][f.wire] \in WireTexts
    BY <1>5, <1>6, FormTyped DEF Filled
  <1>13. WireTyped(w)
    BY <1>10, <1>11, <1>12 DEF WireTyped
  <1>. QED  BY <1>13 DEF w

\* A choice of texts has texts only.
LEMMA TextChoice ==
  ASSUME NEW fields, NEW required, NEW c \in Choices(fields, required, TextsOf)
  PROVE  /\ required \subseteq DOMAIN c /\ DOMAIN c \subseteq fields
         /\ \A f \in DOMAIN c : c[f] \in TextsOf(f)
  BY DEF Choices

LEMMA SegmentChoice ==
  ASSUME NEW fields, NEW required, NEW c \in Choices(fields, required, SegmentsOf)
  PROVE  /\ required \subseteq DOMAIN c /\ DOMAIN c \subseteq fields
         /\ \A f \in DOMAIN c : c[f] \in SegmentsOf(f)
  BY DEF Choices

\* A request of any other client.
LEMMA ForeignTyped ==
  ASSUME Routed, NEW path \in Choices(route.pathParams, route.pathParams, SegmentsOf),
         NEW query \in Choices(route.queryParams, {}, TextsOf), NEW headers, NEW kind, NEW fields,
         \/ kind \in {"none", "garbage"}
         \/ kind = "json" /\ fields \in Choices(Keys, {}, Values)
         \/ /\ kind = "form" /\ route.upload
            /\ \E form \in Choices(BodyFields, {}, TextsOf) : fields = Form(form)
  PROVE  WireTyped([path |-> ByName(path), query |-> ByName(query), headers |-> headers,
                    body |-> Body(kind), fields |-> fields])
  <1> DEFINE w == [path |-> ByName(path), query |-> ByName(query), headers |-> headers,
                   body |-> Body(kind), fields |-> fields]
  <1>1. w.path = ByName(path) /\ w.query = ByName(query) /\ w.fields = fields /\ w.body.kind = kind
    BY DEF Body
  <1> HIDE DEF w
  <1>2. /\ DOMAIN path = route.pathParams /\ \A f \in DOMAIN path : path[f] \in WireTexts
    BY SegmentChoice, SegmentTyped
  <1>3. \A f \in DOMAIN query : query[f] \in WireTexts
    BY TextChoice, FieldTypes, TextTyped
  <1>4. \A f \in route.pathParams : w.path[f.wire] \in WireTexts
    BY <1>1, <1>2, ByNameTyped
  <1>5. \A f \in route.queryParams : f.wire \in DOMAIN w.query => w.query[f.wire] \in WireTexts
    BY <1>1, <1>3, ByNameTyped
  <1>6. ASSUME kind = "form"
        PROVE  \A f \in Filled(w.fields) : PartOf(f) = "Value" => w.fields["Value"][f.wire] \in WireTexts
    <2>1. PICK form \in Choices(BodyFields, {}, TextsOf) : fields = Form(form)
      BY <1>6
    <2>2. \A f \in DOMAIN form : PartOf(f) = "Value" => form[f] \in WireTexts
      BY <1>6, TextChoice, FieldTypes, TextTyped
    <2>. QED  BY <1>1, <2>1, <2>2, FormTyped DEF Filled
  <1>8. WireTyped(w)
    BY <1>1, <1>4, <1>5, <1>6 DEF WireTyped
  <1>. QED  BY <1>8 DEF w

\* The struct as the body leaves it.
LEMMA DecodedTyped ==
  ASSUME Routed, WireTyped(wire), ~RefusesBody, NEW f \in Fields(route)
  PROVE  Decoded[f] \in GoValues(f)
  <1>1. DOMAIN Blank = Fields(route) /\ Blank[f] \in GoValues(f)
    BY ZeroTyped DEF Blank
  <1>2. CASE ~HasBody
    BY <1>1, <1>2 DEF Decoded
  <1>3. CASE HasBody /\ route.upload
    <2> DEFINE text(g) == wire.fields[PartOf(g)][g.wire]
               form == [g \in Filled(wire.fields) |-> Parsed(g, text(g))]
    <2>1. Decoded[f] = IF f \in DOMAIN form THEN form[f] ELSE Blank[f]
      BY <1>1, <1>3 DEF Decoded, Override
    <2>2. ASSUME f \in Filled(wire.fields) PROVE Parsed(f, text(f)) \in GoValues(f)
      <3>1. wire.body.kind = "form" /\ Parses(f, text(f))
        BY <1>3, <2>2 DEF RefusesBody, UploadBad
      <3>2. f \in BodyFields
        BY <2>2 DEF Filled
      <3>3. CASE PartOf(f) = "Value"
        <4>1. f.type \notin Objects
          BY <1>3, <3>2, <3>3, FieldTypes
        <4>2. text(f) \in WireTexts
          BY <2>2, <3>1, <3>3 DEF WireTyped
        <4>. QED  BY <3>1, <4>1, <4>2, ParsedTyped DEF Objects
      <3>4. CASE PartOf(f) # "Value"
        <4>1. f.type \in {"file", "files"}
          BY <1>3, <3>2, <3>4, FieldTypes
        <4>. QED  BY <3>1, <4>1, ParsedTyped DEF Objects
      <3>. QED  BY <3>3, <3>4
    <2>. QED  BY <1>1, <2>1, <2>2
  <1>4. CASE HasBody /\ ~route.upload
    <2>1. \A g \in DOMAIN wire.fields : wire.fields[g] \in GoValues(g)
      BY <1>4 DEF RefusesBody, JSONBad
    <2>2. Decoded[f] = IF f \in DOMAIN wire.fields THEN wire.fields[f] ELSE Blank[f]
      BY <1>1, <1>4 DEF Decoded, Override
    <2>. QED  BY <1>1, <2>1, <2>2
  <1>. QED  BY <1>2, <1>3, <1>4

\* The struct with the parameters.
LEMMA AssignedTyped ==
  ASSUME Routed, stage \notin Unbuilt, WireTyped(wire), ~RefusesBody, ~RefusesQuery,
         NEW f \in Fields(route)
  PROVE  Override(Override(Decoded, FromPath(Decoded)), FromQuery)[f] \in GoValues(f)
  <1>1. WrapperCompiles(route)
    BY DEF Routed
  <1>2. DOMAIN Override(Decoded, FromPath(Decoded)) = Fields(route)
    BY DecodedDomain DEF Override
  <1>3. DOMAIN FromPath(Decoded) = route.pathParams
    BY DEF FromPath
  <1>4. f \in route.pathParams => FromPath(Decoded)[f] \in GoValues(f)
    <2>. SUFFICES ASSUME f \in route.pathParams PROVE FromPath(Decoded)[f] \in GoValues(f)
      OBVIOUS
    <2>1. f.type = "string"
      BY <1>1 DEF WrapperCompiles
    <2>2. GoValues(f) = WireTexts
      BY <2>1 DEF GoValues, Numeric, Integral
    <2>3. URLParam(f.wire) \in WireTexts
      BY SegmentTyped DEF URLParam, WireTyped
    <2>. QED  BY <2>2, <2>3, SegmentTyped DEF FromPath
  <1>5. Override(Decoded, FromPath(Decoded))[f] \in GoValues(f)
    BY <1>3, <1>4, DecodedDomain, DecodedTyped DEF Override
  <1>6. f \in DOMAIN FromQuery => FromQuery[f] \in GoValues(f)
    <2>. SUFFICES ASSUME f \in route.queryParams, ~Skips(f)
                  PROVE  Parsed(f, QueryText(f.wire)) \in GoValues(f)
      BY DEF FromQuery
    <2>1. f.type \notin Objects
      BY FieldTypes
    <2>2. QueryText(f.wire) \in WireTexts
      BY DEF QueryText, WireTyped, WireTexts, Texts
    <2>3. Parses(f, QueryText(f.wire))
      BY DEF RefusesQuery
    <2>. QED  BY <2>1, <2>2, <2>3, ParsedTyped DEF Objects
  <1>. QED  BY <1>2, <1>5, <1>6 DEF Override

\* What depends on the route alone stays with it.
LEMMA TypedStays ==
  ASSUME UNCHANGED input
  PROVE  /\ Fields(route)' = Fields(route) /\ Arguments' = Arguments /\ Results' = Results
         /\ WireTyped(wire)' <=> WireTyped(wire')
  <1>1. pkg' = pkg /\ route' = route
    BY DEF input
  <1>2. Fields(route)' = Fields(route)
    BY <1>1 DEF Fields
  <1>3. BodyFields' = BodyFields
    BY <1>1 DEF BodyFields, Fields
  <1>4. Filled(wire.fields)' = {f \in BodyFields : f.wire \in DOMAIN wire'.fields[PartOf(f)]}
    BY <1>3 DEF Filled
  <1>5. Filled(wire'.fields) = {f \in BodyFields : f.wire \in DOMAIN wire'.fields[PartOf(f)]}
    BY DEF Filled
  <1>6. WireTyped(wire)' <=> WireTyped(wire')
    BY <1>1, <1>4, <1>5 DEF WireTyped
  <1>. QED  BY <1>2, <1>6, SameRoute

\* A step that neither sends nor decodes keeps the types.
LEMMA QuietKeeps ==
  ASSUME TypeInv, UNCHANGED <<input, origin, args, wire, req>>,
         stage' \in {"panicked", "uncompilable", "ready", "written"} \/ stage' = stage,
         stage' \notin Unsent => stage \notin Unsent, caller' \in {"idle", "waiting", "told"},
         returned' \in Results \cup {Nothing}, Invoked' => Invoked
  PROVE  TypeInv'
  <1>1. stage' \in {"generate", "panicked", "uncompilable", "ready", "called", "sent", "params",
                    "handling", "written"}
    BY DEF TypeInv, TypeOK
  <1>2. TypeOK'
    BY <1>1, TypedStays DEF TypeInv, TypeOK
  <1>3. stage' \notin Unsent => WireTyped(wire)'
    BY TypedStays DEF TypeInv
  <1>. QED  BY <1>2, <1>3 DEF TypeInv

\* Every field of the request struct holds a value of its Go type, whoever calls.
THEOREM TypeCorrect == Spec => []TypeOK
  <1>1. Init => TypeInv
    <2>. SUFFICES ASSUME Init PROVE TypeInv
      OBVIOUS
    <2>1. DOMAIN Empty = {}
      BY DEF Empty
    <2>. QED  BY <2>1 DEF Init, TypeInv, TypeOK, Unsent, Unbuilt, Invoked
  <1>2. CallInv /\ TypeInv /\ [Next]_vars => TypeInv'
    <2>. SUFFICES ASSUME CallInv, TypeInv, [Next]_vars PROVE TypeInv'
      OBVIOUS
    <2>1. Routed /\ returned \in Results \cup {Nothing}
      BY DEF CallInv, TypeInv, TypeOK
    <2>2. ASSUME UNCHANGED <<input, req, returned>>, stage \in {"ready", "called"},
                 stage' \in {"called", "sent"}, caller' = "waiting",
                 args' \in Arguments \cup {Empty}, origin' \in {"none", "client", "other"},
                 stage' = "sent" => WireTyped(wire')
          PROVE  TypeInv'
      <3>1. ~Invoked'
        BY <2>2 DEF CallInv, Silent, Invoked
      <3>2. TypeOK'
        BY <2>2, <3>1, TypedStays DEF TypeInv, TypeOK
      <3>3. stage' \notin Unsent => WireTyped(wire)'
        BY <2>2, TypedStays DEF Unsent
      <3>. QED  BY <3>2, <3>3 DEF TypeInv
    <2>3. CASE Generate
      <3>1. /\ UNCHANGED <<input, caller, origin, args, wire, req, returned>>
            /\ stage' \in {"panicked", "uncompilable", "ready"}
        BY <2>3 DEF Generate
      <3>2. Invoked' => Invoked
        BY <3>1 DEF Invoked
      <3>. QED  BY <2>1, <3>1, <3>2, QuietKeeps DEF Unsent, Unbuilt, TypeInv, TypeOK
    <2>4. ASSUME stage = "ready", NEW a \in Arguments, ClientCalls(a) PROVE TypeInv'
      BY <2>2, <2>4 DEF ClientCalls
    <2>14. CASE Send
      <3>1. /\ wire' = RequestFor(args) /\ stage = "called" /\ stage' = "sent" /\ caller' = "waiting"
            /\ UNCHANGED <<input, origin, args, req, returned>>
        BY <2>14 DEF Send
      <3>2. args \in Arguments
        BY <3>1 DEF CallInv, Asked
      <3>3. WireTyped(wire')
        BY <2>1, <3>1, <3>2, ClientTyped
      <3>. QED  BY <2>2, <3>1, <3>2, <3>3 DEF TypeInv, TypeOK
    <2>5. CASE Foreign
      <3>1. PICK query \in Choices(route.queryParams, {}, TextsOf),
                 headers \in Choices(route.headerParams, {}, TextsOf) :
              \/ \E body \in {"none", "garbage"} : ForeignCalls(query, headers, body, Empty)
              \/ /\ route.body # {} /\ ~route.upload
                 /\ \E fields \in Choices(Keys, {}, Values) : ForeignCalls(query, headers, "json", fields)
              \/ /\ route.body # {} /\ route.upload
                 /\ \E fields \in Choices(BodyFields, {}, TextsOf) :
                      ForeignCalls(query, headers, "form", Form(fields))
        BY <2>5 DEF Foreign
      <3>2. PICK kind, fields :
              /\ ForeignCalls(query, headers, kind, fields)
              /\ \/ kind \in {"none", "garbage"}
                 \/ kind = "json" /\ fields \in Choices(Keys, {}, Values)
                 \/ /\ kind = "form" /\ route.upload
                    /\ \E form \in Choices(BodyFields, {}, TextsOf) : fields = Form(form)
        BY <3>1
      <3>3. PICK path \in Choices(route.pathParams, route.pathParams, SegmentsOf) :
              wire' = [path |-> ByName(path), query |-> ByName(query), headers |-> ByName(headers),
                       body |-> Body(kind), fields |-> fields]
        BY <3>2 DEF ForeignCalls
      <3>4. WireTyped(wire')
        BY <2>1, <3>2, <3>3, ForeignTyped
      <3>5. /\ UNCHANGED <<input, args, req, returned>> /\ stage = "ready" /\ stage' = "sent"
            /\ origin' = "other" /\ caller' = "waiting"
        BY <3>2 DEF ForeignCalls
      <3>6. args' \in Arguments \cup {Empty}
        BY <3>5 DEF TypeInv, TypeOK
      <3>. QED  BY <2>2, <3>4, <3>5, <3>6
    <2>6. ASSUME stage \in {"sent", "params", "handling"}, stage' = "written",
                 UNCHANGED <<input, caller, origin, args, wire, req, returned>>
          PROVE  TypeInv'
      <3>1. ~Invoked'
        BY <2>6 DEF CallInv, Silent, Invoked
      <3>. QED  BY <2>1, <2>6, <3>1, QuietKeeps DEF Unsent, Unbuilt, TypeInv, TypeOK
    <2>7. CASE NotFound \/ AcceptFails \/ HandsOver
      BY <2>6, <2>7 DEF NotFound, AcceptFails, HandsOver, Writes
    <2>8. ASSUME stage \in {"sent", "params"}, stage' \in {"params", "handling"},
                 UNCHANGED <<input, caller, origin, args, wire, returned>>,
                 DOMAIN req' = Fields(route), \A f \in Fields(route) : req'[f] \in GoValues(f)
          PROVE  TypeInv'
      <3>1. WireTyped(wire)'
        BY <2>8, TypedStays DEF TypeInv, Unsent, Unbuilt
      <3>2. TypeOK'
        BY <2>8, TypedStays DEF TypeInv, TypeOK
      <3>. QED  BY <3>1, <3>2 DEF TypeInv
    <2>9. CASE Decode
      <3>1. stage = "sent" /\ UNCHANGED <<input, caller, origin, args, wire, returned>>
        BY <2>9 DEF Decode
      <3>2. CASE RefusesBody
        <4>1. stage' = "written" /\ req' = req
          BY <2>9, <3>2 DEF Decode, BadRequest, Writes
        <4>. QED  BY <2>6, <3>1, <4>1
      <3>3. CASE ~RefusesBody
        <4>1. stage' = "params" /\ req' = Decoded
          BY <2>9, <3>3 DEF Decode
        <4>2. WireTyped(wire)
          BY <3>1 DEF TypeInv, Unsent, Unbuilt
        <4>. QED  BY <2>1, <2>8, <3>1, <3>3, <4>1, <4>2, DecodedDomain, DecodedTyped
      <3>. QED  BY <3>2, <3>3
    <2>10. CASE AssignParams
      <3>1. stage = "params" /\ UNCHANGED <<input, caller, origin, args, wire, returned>>
        BY <2>10 DEF AssignParams
      <3>2. CASE RefusesQuery
        <4>1. stage' = "written" /\ req' = req
          BY <2>10, <3>2 DEF AssignParams, BadRequest, Writes
        <4>. QED  BY <2>6, <3>1, <4>1
      <3>3. CASE ~RefusesQuery
        <4>1. stage' = "handling" /\ req' = Override(Override(req, FromPath(req)), FromQuery)
          BY <2>10, <3>3 DEF AssignParams
        <4>2. ~RefusesBody /\ req = Decoded
          BY <3>1 DEF CallInv, Decoding
        <4>3. WireTyped(wire)
          BY <3>1 DEF TypeInv, Unsent, Unbuilt
        <4>4. \A f \in Fields(route) : req'[f] \in GoValues(f)
          BY <2>1, <3>1, <3>3, <4>1, <4>2, <4>3, AssignedTyped DEF Unbuilt
        <4>5. DOMAIN req' = Fields(route)
          BY <4>1, <4>2, DecodedDomain DEF Override
        <4>. QED  BY <2>8, <3>1, <4>1, <4>4, <4>5
      <3>. QED  BY <3>2, <3>3
    <2>11. ASSUME stage = "handling", NEW result \in Results, HandlerReturns(result) PROVE TypeInv'
      <3>1. /\ stage' = "written" /\ returned' = result
            /\ UNCHANGED <<input, caller, origin, args, wire, req>>
        BY <2>11 DEF HandlerReturns, Writes
      <3>2. Invoked
        BY <2>11 DEF Invoked
      <3>. QED  BY <2>11, <3>1, <3>2, QuietKeeps DEF Unsent, Unbuilt, TypeInv, TypeOK
    <2>12. CASE ParseThrows \/ Receive \/ Lost
      <3>1. UNCHANGED <<input, stage, origin, args, wire, req, returned>> /\ caller' = "told"
        BY <2>12 DEF ParseThrows, Receive, Lost
      <3>2. Invoked' => Invoked
        BY <3>1 DEF Invoked
      <3>. QED  BY <2>1, <3>1, <3>2, QuietKeeps
    <2>13. CASE UNCHANGED vars
      BY <2>1, <2>13, QuietKeeps DEF vars, Invoked, TypeInv, TypeOK
    <2>. QED  BY <2>3, <2>4, <2>5, <2>7, <2>9, <2>10, <2>11, <2>12, <2>13, <2>14 DEF Next
  <1>3. TypeInv => TypeOK
    BY DEF TypeInv
  <1>. QED  BY <1>1, <1>2, <1>3, CallCorrect, PTL DEF Spec

-----------------------------------------------------------------------------
(***************************************************************************)
(* A call implements Rpc.                                                  *)
(***************************************************************************)
\* Nobody has asked before a request is made, and an answer to a unary call that is no
\* handler's is one of three.
Unasked == stage \in Unbuilt \cup {"ready"} => origin = "none"
Refused ==
  stage = "written" /\ returned = Nothing /\ Unary(route) =>
    reply \in {Answer("error", 400, "bad_request"), Answer("error", 404, "unknown"),
               Answer("text", 404, NoText)}
RpcInv == Unasked /\ Refused

LEMMA ResultsAreSome == \A result \in Results : result # Nothing
  BY DEF Results, Nothing, Answer

LEMMA RpcKeeps == CallInv /\ RpcInv /\ [Next]_vars => RpcInv'
  <1>. SUFFICES ASSUME CallInv, RpcInv, [Next]_vars PROVE RpcInv'
    OBVIOUS
  <1>1. CASE Generate
    BY <1>1 DEF Generate, RpcInv, Unasked, Refused, Unbuilt
  <1>2. ASSUME stage = "ready", NEW a \in Arguments, ClientCalls(a) PROVE RpcInv'
    BY <1>2 DEF ClientCalls, RpcInv, Unasked, Refused, Unbuilt
  <1>3. CASE Foreign \/ Send
    BY <1>3 DEF Foreign, ForeignCalls, Send, RpcInv, Unasked, Refused, Unbuilt
  <1>4. CASE NotFound
    <2>1. /\ stage' = "written"
          /\ reply' \in {Answer("error", 404, "unknown"), Answer("text", 404, NoText)}
      BY <1>4 DEF NotFound, Writes
    <2>. QED  BY <2>1 DEF RpcInv, Unasked, Refused, Unbuilt
  <1>5. CASE Decode
    <2>1. \/ stage' = "params"
          \/ stage' = "written" /\ reply' = Answer("error", 400, "bad_request")
      BY <1>5 DEF Decode, BadRequest, Writes
    <2>. QED  BY <2>1 DEF RpcInv, Unasked, Refused, Unbuilt
  <1>6. CASE AssignParams
    <2>1. \/ stage' = "handling"
          \/ stage' = "written" /\ reply' = Answer("error", 400, "bad_request")
      BY <1>6 DEF AssignParams, BadRequest, Writes
    <2>. QED  BY <2>1 DEF RpcInv, Unasked, Refused, Unbuilt
  <1>7. ASSUME NEW result \in Results, HandlerReturns(result) PROVE RpcInv'
    <2>1. stage' = "written" /\ returned' = result
      BY <1>7 DEF HandlerReturns, Writes
    <2>. QED  BY <2>1, ResultsAreSome DEF RpcInv, Unasked, Refused, Unbuilt
  <1>8. CASE AcceptFails \/ HandsOver
    <2>1. stage' = "written" /\ route' = route /\ ~Unary(route)
      BY <1>8 DEF AcceptFails, HandsOver, Writes, input, Unary
    <2>. QED  BY <2>1 DEF RpcInv, Unasked, Refused, Unbuilt, Unary
  <1>9. CASE ParseThrows \/ Receive \/ Lost \/ UNCHANGED vars
    <2>1. UNCHANGED <<input, stage, origin, returned, reply>>
      BY <1>9 DEF ParseThrows, Receive, Lost, vars
    <2>. QED  BY <2>1 DEF RpcInv, Unasked, Refused, Unary, input
  <1>. QED  BY <1>1, <1>2, <1>3, <1>4, <1>5, <1>6, <1>7, <1>8, <1>9 DEF Next

\* The arguments of a call, as its handler is to find them.
Whole == [f \in Carried |-> Passed(f)]

\* What a call means stays as long as its route and its arguments do.
LEMMA MeaningStays ==
  ASSUME UNCHANGED <<input, origin, args>>
  PROVE  /\ Heard' <=> Heard
         /\ Carried' = Carried /\ Whole' = Whole
         /\ \A result : Promised(result)' = Promised(result)
  <1>1. pkg' = pkg /\ framework' = framework /\ route' = route
    BY DEF input
  <1>2. Heard' <=> Heard
    BY <1>1 DEF Heard, Unary, Colons, InBraces, Escaping
  <1>3. Carried' = Carried
    BY <1>1 DEF Carried, BodyFields, Fields
  <1>4. Whole' = Whole
    BY <1>1, <1>3 DEF Whole, Passed
  <1>5. \A result : Promised(result)' = Promised(result)
    BY <1>1 DEF Promised
  <1>. QED  BY <1>2, <1>3, <1>4, <1>5

\* The handler is served what was passed.
Faithful == Heard /\ Invoked => [f \in Carried |-> req[f]] = Whole

LEMMA ServedPassed == CallInv => Faithful
  <1>. SUFFICES ASSUME CallInv, Heard, Invoked PROVE [f \in Carried |-> req[f]] = Whole
    BY DEF Faithful
  <1>1. /\ \A f \in route.queryParams \cup BodyFields : req[f] = Passed(f)
        /\ \A f \in route.pathParams : req[f] = args[f]
    BY Arrival DEF ArgsArrive, Heard
  <1>2. Routed /\ TypeChecks /\ args \in Arguments /\ wire = RequestFor(args)
    BY DEF CallInv, Asked, Heard, Silent, Invoked
  <1>3. \A f \in route.pathParams : f \in DOMAIN args /\ args[f] # "none"
    BY <1>2, ArgumentFacts, PathSent, NoTextDiffers DEF Heard
  <1>4. \A f \in route.pathParams : Passed(f) = args[f]
    BY <1>3 DEF Passed
  <1>. QED  BY <1>1, <1>4 DEF Whole, Carried

\* What the caller is told of a handler's result.
LEMMA OutcomePromised ==
  ASSUME CallInv, stage = "written", returned # Nothing
  PROVE  Outcome = Promised(returned)
  <1>1. Unary(route) /\ returned \in Results /\ reply = Response(returned)
    BY DEF CallInv, Answering
  <1>2. route.status \in {200, 201, 204} /\ route.socket = {}
    BY <1>1 DEF CallInv, Routed, Unbuilt, AdapterPanics, Unary
  <1>3. CASE returned.kind = "error"
    <2>1. returned.status \in {404, 409} /\ reply = returned
      BY <1>1, <1>3 DEF Results, Answer, Response, WriteError
    <2>2. Outcome = Answer("GoductError", returned.status, returned.code)
      BY <1>2, <1>3, <2>1 DEF Outcome, IsOk
    <2>. QED  BY <1>3, <2>2 DEF Promised
  <1>4. CASE returned.kind = "other"
    <2>1. reply = Answer("error", 500, "internal")
      BY <1>1, <1>4 DEF Response, WriteError
    <2>2. Outcome = Answer("GoductError", 500, "internal")
      BY <1>2, <2>1 DEF Outcome, IsOk, Answer
    <2>. QED  BY <1>4, <2>2 DEF Promised
  <1>5. CASE returned.kind = "done"
    <2>1. route.response = {}
      BY <1>1, <1>5 DEF Results, Answer
    <2>2. reply.kind \in {"nothing", "done"} /\ reply.status \in {200, 201, 204}
      BY <1>1, <1>2, <1>5 DEF Response, Answer
    <2>3. Outcome = Nothing
      BY <1>2, <2>1, <2>2 DEF Outcome, IsOk
    <2>. QED  BY <1>5, <2>3 DEF Promised
  <1>6. CASE returned.kind \in {"value", "nil"}
    <2>1. route.response # {}
      BY <1>1, <1>6 DEF Results, Answer
    <2>2. /\ reply.kind = IF route.status = 204 THEN "nothing" ELSE returned.kind
          /\ reply.status = route.status
      BY <1>1, <1>6 DEF Response, Answer
    <2>3. Outcome = IF returned.kind = "value" /\ route.status # 204
                    THEN Answer("value", 0, NoText) ELSE Answer("ZodError", 0, NoText)
      BY <1>2, <1>6, <2>1, <2>2 DEF Outcome, IsOk
    <2>. QED  BY <1>6, <2>3 DEF Promised
  <1>7. returned.kind \in {"error", "other", "done", "value", "nil"}
    BY <1>1 DEF Results, Answer
  <1>. QED  BY <1>3, <1>4, <1>5, <1>6, <1>7

\* What the caller is told when its call was refused.
LEMMA OutcomeRefused ==
  ASSUME RpcInv, stage = "written", returned = Nothing, Unary(route)
  PROVE  Outcome \in {Answer("GoductError", 400, "bad_request"), Answer("GoductError", 404, "unknown"),
                      Answer("SyntaxError", 0, NoText)}
  BY DEF RpcInv, Refused, Outcome, IsOk, Answer, Unary

\* Each action of a call is a step of Rpc, or none.
LEMMA StepIsRpc ==
  ASSUME CallInv, Faithful, Faithful', RpcInv, [Next]_vars
  PROVE  [Call!Next]_Call!rpc
  <1> DEFINE asks == IF Heard THEN {Whole} ELSE {}
             serves == IF Heard /\ Invoked THEN {[f \in Carried |-> req[f]]} ELSE {}
             answers == IF Heard /\ returned # Nothing THEN {Promised(returned)} ELSE {}
             outcomes == IF Heard /\ caller = "told" THEN {outcome} ELSE {}
  <1>0. Call!rpc = <<asks, serves, answers, outcomes>>
    BY DEF Call!rpc, Whole
  <1>1. /\ Heard /\ Invoked => serves = {Whole}
        /\ Heard' /\ Invoked' => serves' = {Whole'}
    BY DEF Faithful
  <1>2. ASSUME ~Heard, ~Heard' PROVE UNCHANGED Call!rpc
    BY <1>2 DEF Call!rpc
  <1>3. ASSUME UNCHANGED <<input, origin, args>>
        PROVE  asks' = asks /\ (Heard' <=> Heard) /\ Whole' = Whole
    BY <1>3, MeaningStays
  <1>4. ASSUME UNCHANGED <<input, origin, args>>, Invoked <=> Invoked' PROVE serves' = serves
    <2>1. CASE Heard /\ Invoked
      BY <1>1, <1>3, <1>4, <2>1
    <2>. QED  BY <1>3, <1>4, <2>1
  <1>5. ASSUME UNCHANGED <<input, origin, args, returned>> PROVE answers' = answers
    BY <1>5, MeaningStays
  <1>6. ASSUME UNCHANGED <<input, origin, args, caller, outcome>> PROVE outcomes' = outcomes
    BY <1>3, <1>6
  <1>7. ASSUME stage = "ready", NEW a \in Arguments, ClientCalls(a) PROVE [Call!Next]_Call!rpc
    <2>1. /\ ~Heard /\ returned = Nothing /\ caller' # "told"
          /\ stage' = "called" /\ returned' = returned
      BY <1>7 DEF ClientCalls, RpcInv, Unasked, Heard, CallInv, Silent
    <2>2. CASE Heard'
      <3>1. Call!One(asks')
        BY <2>2 DEF Call!One
      <3>2. asks = {} /\ serves = {} /\ serves' = {} /\ answers = {} /\ answers' = {}
            /\ outcomes = {} /\ outcomes' = {}
        BY <2>1 DEF Invoked
      <3>. QED  BY <3>1, <3>2 DEF Call!Next, Call!Ask, Whole
    <2>. QED  BY <1>2, <2>1, <2>2
  <1>8. ASSUME UNCHANGED <<input, origin, args, returned, caller, outcome>>, Invoked <=> Invoked'
        PROVE  UNCHANGED Call!rpc
    <2>1. asks' = asks /\ serves' = serves /\ answers' = answers /\ outcomes' = outcomes
      BY <1>3, <1>4, <1>5, <1>6, <1>8
    <2>. QED  BY <2>1 DEF Call!rpc, Whole
  <1>9. CASE NotFound \/ Decode \/ Send
    <2>1. /\ UNCHANGED <<input, origin, args, returned, caller, outcome>>
          /\ stage \in {"sent", "called"} /\ stage' \in {"sent", "params", "written"}
      BY <1>9 DEF NotFound, Decode, Send, Writes, BadRequest
    <2>2. ~Invoked /\ ~Invoked'
      BY <2>1 DEF CallInv, Silent, Invoked
    <2>. QED  BY <1>8, <2>1, <2>2
  <1>10. CASE AssignParams
    <2>1. /\ stage = "params" /\ UNCHANGED <<input, origin, args, returned, caller, outcome>>
          /\ stage' \in {"written", "handling"} /\ returned = Nothing
      BY <1>10 DEF AssignParams, Writes, BadRequest, CallInv, Silent
    <2>2. CASE stage' = "handling" /\ Heard
      <3>1. outcomes \subseteq {Answer("TypeError", 0, NoText)}
        BY <2>1 DEF CallInv, Losing
      <3>2. asks' = asks /\ serves = {} /\ outcomes' = outcomes /\ answers' = answers
        BY <1>3, <1>5, <1>6, <2>1, <2>2 DEF Invoked
      <3>3. serves' = asks /\ asks # {}
        BY <1>3, <1>1, <2>1, <2>2 DEF Invoked
      <3>. QED  BY <3>1, <3>2, <3>3 DEF Call!Next, Call!Serve, Whole
    <2>3. CASE stage' = "written"
      BY <1>8, <2>1, <2>3 DEF Invoked
    <2>. QED  BY <1>2, <1>3, <2>1, <2>2, <2>3
  <1>11. ASSUME stage = "handling", NEW result \in Results, HandlerReturns(result)
         PROVE  [Call!Next]_Call!rpc
    <2>1. /\ stage' = "written" /\ returned' = result /\ result # Nothing /\ returned = Nothing
          /\ UNCHANGED <<input, origin, args, caller, outcome>>
      BY <1>11, ResultsAreSome DEF HandlerReturns, Writes, CallInv, Silent
    <2>2. Invoked /\ Invoked'
      BY <1>11, <2>1 DEF Invoked
    <2>3. CASE Heard
      <3>1. asks' = asks /\ serves' = serves /\ serves # {} /\ answers = {} /\ outcomes' = outcomes
        BY <1>3, <1>4, <1>6, <1>11, <2>1, <2>2, <2>3
      <3>2. Call!One(answers')
        BY <1>3, <2>1, <2>3 DEF Call!One
      <3>. QED  BY <3>1, <3>2 DEF Call!Next, Call!Answer, Whole
    <2>. QED  BY <1>2, <1>3, <2>1, <2>3
  <1>12. CASE AcceptFails \/ HandsOver
    <2>1. ~Heard /\ UNCHANGED <<input, origin, args>>
      BY <1>12 DEF AcceptFails, HandsOver, Heard, Unary
    <2>. QED  BY <1>2, <1>3, <2>1
  <1>13. CASE ParseThrows \/ Receive \/ Lost
    <2>1. /\ caller = "waiting" /\ caller' = "told" /\ stage \notin Unbuilt \cup {"ready"}
          /\ UNCHANGED <<input, stage, origin, args, returned, req>>
      BY <1>13 DEF ParseThrows, Receive, Lost, Unbuilt
    <2>2. Invoked' <=> Invoked
      BY <2>1 DEF Invoked
    <2>3. CASE Heard
      <3>1. /\ asks' = asks /\ asks # {} /\ answers' = answers /\ serves' = serves
            /\ outcomes = {} /\ outcomes' = {outcome'}
        BY <1>3, <1>4, <1>5, <2>1, <2>2, <2>3
      <3>2. returned = Nothing /\ stage # "handling" => serves = {}
        BY DEF Invoked
      <3>3. returned # Nothing => answers = {Promised(returned)}
        BY <2>3
      <3>4. ASSUME serves = {},
                   outcome' \in {Answer("GoductError", 400, "bad_request"),
                                 Answer("GoductError", 404, "unknown"),
                                 Answer("SyntaxError", 0, NoText), Answer("ZodError", 0, NoText)}
            PROVE  Call!Refuse
        BY <3>1, <3>4 DEF Call!Refuse, Call!One, Whole
      <3>5. CASE Lost
        <4>1. outcomes' = {Answer("TypeError", 0, NoText)}
          BY <3>1, <3>5 DEF Lost
        <4>. QED  BY <3>1, <4>1 DEF Call!Next, Call!Lose, Whole
      <3>6. CASE ParseThrows
        <4>1. stage = "called" /\ returned = Nothing /\ outcome' = Answer("ZodError", 0, NoText)
          BY <3>6 DEF ParseThrows, CallInv, Silent
        <4>. QED  BY <3>2, <3>4, <4>1 DEF Call!Next
      <3>7. CASE Receive /\ returned # Nothing
        <4>1. outcome' = Promised(returned)
          BY <2>3, <3>7, OutcomePromised DEF Receive, Heard
        <4>. QED  BY <3>1, <3>3, <3>7, <4>1 DEF Call!Next, Call!Return, Whole
      <3>8. CASE Receive /\ returned = Nothing
        <4>1. stage = "written"
          BY <3>8 DEF Receive
        <4>2. outcome' \in {Answer("GoductError", 400, "bad_request"),
                            Answer("GoductError", 404, "unknown"), Answer("SyntaxError", 0, NoText)}
          BY <2>3, <3>8, OutcomeRefused DEF Receive, Heard
        <4>. QED  BY <3>2, <3>4, <3>8, <4>1, <4>2 DEF Call!Next
      <3>. QED  BY <1>13, <3>5, <3>6, <3>7, <3>8
    <2>. QED  BY <1>2, <1>3, <2>1, <2>3
  <1>14. CASE Generate \/ Foreign
    <2>1. ~Heard /\ ~Heard'
      BY <1>14 DEF Generate, Foreign, ForeignCalls, RpcInv, Unasked, Unbuilt, Heard
    <2>. QED  BY <1>2, <2>1
  <1>15. CASE UNCHANGED vars
    BY <1>8, <1>15 DEF vars, Invoked
  <1>. QED  BY <1>7, <1>9, <1>10, <1>11, <1>12, <1>13, <1>14, <1>15 DEF Next

\* A unary call of a generated method is a remote procedure call, unless its path arrives as
\* it was sent: the handler runs at most once, on what was passed; the caller is told what it
\* answered; or that the call was refused, and the handler has not run and never will; or that
\* the connection was lost, and then it may have run, be running or yet run.
THEOREM ImplementsRpc == Spec => RpcSpec
  <1>1. Init => Call!Init /\ RpcInv
    BY DEF Init, Call!Init, RpcInv, Unasked, Refused, Heard
  <1>2. CallInv /\ Faithful /\ Faithful' /\ RpcInv /\ [Next]_vars => [Call!Next]_Call!rpc
    BY StepIsRpc
  <1>3. Spec => []RpcInv
    BY <1>1, CallCorrect, RpcKeeps, PTL DEF Spec
  <1>4. Spec => []Faithful
    BY CallCorrect, ServedPassed, PTL
  <1>. QED  BY <1>1, <1>2, <1>3, <1>4, CallCorrect, PTL DEF Spec, RpcSpec, Call!Spec
=============================================================================
