--------------------------------- MODULE Entry ---------------------------------
(***************************************************************************)
(* The way of a call into the matchmaker: the process starts (cmd/         *)
(* matchmaker), the HTTP gateway (pkg/mpb) makes a request a gRPC call, an *)
(* interceptor looks at the caller's token (pkg/auth) and the handler      *)
(* looks at it again, without asking whether that worked.  What handlers   *)
(* do with the user they find is Matchmaker's business.                    *)
(***************************************************************************)
EXTENDS Integers

CONSTANTS
  Callers,
  AgonesEnabled,  \* matchmaker.agones.enabled
  Horizon         \* bound on the clock

ASSUME EntryAssumption == AgonesEnabled \in BOOLEAN /\ Horizon \in Nat

VARIABLES
  process,        \* main: where it is
  agonesClient,   \* cfg.AgonesClient # nil
  calls,          \* per caller its latest call
  now
entryVars == <<process, agonesClient, calls, now>>

(* A token is missing, cannot be parsed, or carries claims of which only   *)
(* the time of expiry matters here: 0 if the claim is not there.           *)
Tokens == [is : {"missing", "garbled"}, expiresAt : {0}]
            \cup [is : {"claims"}, expiresAt : 0 .. Horizon]
Routes == {"POST", "GET", "DELETE"}    \* Matchmake, CheckMatchmakeStatus, CancelMatchmake
Calls == [at : {"gateway", "server", "handler", "answered"}, route : Routes,
          body : {"well-formed", "malformed"}, headers : {"good", "bad"}, token : Tokens, since : 0 .. Horizon,
          code : {"", "OK", "InvalidArgument", "Unauthenticated", "Unavailable"}]
NoCall == [at |-> "none"]
Answered(c) == calls[c].at \in {"none", "answered"}
Answer(c, code) == [calls EXCEPT ![c].at = "answered", ![c].code = code]

EntryInit ==
  /\ process = "boot" /\ agonesClient = FALSE
  /\ calls = [c \in Callers |-> NoCall] /\ now = 1

-----------------------------------------------------------------------------
(* main.  What fails on the way ends the process, which is started again.  *)
Dies ==
  /\ process' = "fatal"
  /\ calls' = [c \in Callers |->
       IF Answered(c) THEN calls[c]
       ELSE [calls[c] EXCEPT !.at = "answered", !.code = "Unavailable"]]
  /\ UNCHANGED <<agonesClient, now>>

(* The client is built from the cluster's configuration, which may be      *)
(* missing; whether Agones answers nobody asks before a call needs it.     *)
ConnectToAgonesInCluster(ok) == AgonesEnabled => ok

NewGRPCServer ==
  /\ process = "boot"
  /\ \E ok \in BOOLEAN :
       \/ /\ ConnectToAgonesInCluster(ok)
          /\ process' = "listen" /\ agonesClient' = AgonesEnabled
          /\ UNCHANGED <<calls, now>>
       \/ ~ConnectToAgonesInCluster(ok) /\ Dies

ServeExternal ==
  /\ process = "listen"
  /\ \/ process' = "serving" /\ UNCHANGED <<agonesClient, calls, now>>
     \/ Dies
ServeFails == process = "serving" /\ Dies

Reboot ==
  /\ process = "fatal"
  /\ process' = "boot" /\ agonesClient' = FALSE
  /\ UNCHANGED <<calls, now>>

Passes ==
  /\ now < Horizon /\ now' = now + 1
  /\ UNCHANGED <<process, agonesClient, calls>>

-----------------------------------------------------------------------------
(* Callers come over HTTP or, past the gateway, over gRPC.                 *)
Call(c, entrance) ==
  /\ process = "serving" /\ Answered(c)
  /\ \E call \in Calls :
       /\ call.at = entrance /\ call.since = now /\ call.code = ""
       /\ entrance = "server" => call.body = "well-formed" /\ call.headers = "good"
       /\ calls' = [calls EXCEPT ![c] = call]
  /\ UNCHANGED <<process, agonesClient, now>>

(* On every route AnnotateContext refuses a Grpc-Timeout or binary header  *)
(* that does not parse.  Only the route of Matchmake decodes its body, and *)
(* an empty one will do.                                                   *)
AnnotateContext(call) == call.headers = "good"
Decodes(call) == AnnotateContext(call) /\ (call.route = "POST" => call.body = "well-formed")

RegisterMatchmakerHandlerServer(c) ==
  /\ process = "serving" /\ calls[c].at = "gateway"
  /\ calls' = IF Decodes(calls[c]) THEN [calls EXCEPT ![c].at = "handler"]
              ELSE Answer(c, "InvalidArgument")
  /\ UNCHANGED <<process, agonesClient, now>>
RegisterMatchmakerHandlerClient(c) ==
  /\ process = "serving" /\ calls[c].at = "gateway"
  /\ calls' = IF Decodes(calls[c]) THEN [calls EXCEPT ![c].at = "server"]
              ELSE Answer(c, "InvalidArgument")
  /\ UNCHANGED <<process, agonesClient, now>>

(* nil if there is an error.                                               *)
GetAuthorizationData(token) == IF token.is = "claims" THEN {token.expiresAt} ELSE {}

ExpiredToday(claims) == \A t \in claims : t <= now
Expired(claims) == \A t \in claims : t < now

UnaryServerInterceptor(c) ==
  /\ process = "serving" /\ calls[c].at = "server"
  /\ LET claims == GetAuthorizationData(calls[c].token) IN
     calls' = IF claims = {} \/ Expired(claims) THEN Answer(c, "Unauthenticated")
              ELSE [calls EXCEPT ![c].at = "handler"]
  /\ UNCHANGED <<process, agonesClient, now>>

(* claims.UserId of a nil pointer is a panic.                              *)
Handler(c) ==
  /\ process = "serving" /\ calls[c].at = "handler"
  /\ IF GetAuthorizationData(calls[c].token) = {} THEN Dies
     ELSE calls' = Answer(c, "OK") /\ UNCHANGED <<process, agonesClient, now>>

EntryNext ==
  \/ NewGRPCServer \/ ServeExternal \/ ServeFails \/ Reboot \/ Passes
  \/ \E c \in Callers :
       \/ Call(c, "gateway") \/ Call(c, "server")
       \/ RegisterMatchmakerHandlerClient(c) \/ UnaryServerInterceptor(c) \/ Handler(c)
EntrySpec == EntryInit /\ [][EntryNext]_entryVars

-----------------------------------------------------------------------------
(* No call, by whichever way it came, lets its handler look for a user in  *)
(* claims that are not there (matchmaker.go:66, auth.go:37-49).            *)
HandlersKnowTheirCaller ==
  \A c \in Callers :
    calls[c].at = "handler" => GetAuthorizationData(calls[c].token) # {}

(* What a caller is told is true of what it sent: no call made with an     *)
(* expired token is served, no valid token or request is refused.          *)
AnswersToCallers ==
  \A c \in Callers : calls[c].at = "answered" =>
    LET call == calls[c]
        valid == {t \in GetAuthorizationData(call.token) : t >= call.since}
        lasting == {t \in valid : t >= now}
    IN CASE call.code = "OK" -> valid # {}
         [] call.code = "Unauthenticated" -> lasting = {}
         [] call.code = "InvalidArgument" ->
              call.headers = "bad" \/ (call.route = "POST" /\ call.body = "malformed")
         [] OTHER -> TRUE

(* A matchmaker that should allocate game servers takes no call without    *)
(* the client to do so: it would invent addresses (matchmaker.go:186-194). *)
ServesWithAgones == process = "serving" => agonesClient = AgonesEnabled
=============================================================================
