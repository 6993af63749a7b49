---------------------------- MODULE ServiceCalls -----------------------------
(***************************************************************************)
(* One call from the public API of a gateway to a service of gamesvr or    *)
(* farmsvr and back: what the public handler demands, the transport the    *)
(* client picks, what the internal server demands, the admission gate, the *)
(* service, and the answer on its way through both error mappings.         *)
(*                                                                         *)
(* A request is the set of its fields that are present and well formed;    *)
(* the user's id comes from the token.  Answers are classes of error codes *)
(* that differ in what a client may conclude from them.                    *)
(***************************************************************************)
EXTENDS Integers

VARIABLES
    mode,      \* RPC_TRANSPORT of the calling process
    serves,    \* transports on which the called instance knows the method
    call,      \* the method, the fields given, and how far the call has come
    runs,      \* how often the service was entered
    outcome    \* what the service did, NotRun before it is entered

callVars == <<mode, serves, call, runs, outcome>>

NotRun == [effect |-> FALSE, answer |-> "none"]

-----------------------------------------------------------------------------
(* What each layer demands of each method.                                   *)

AccountPublic == [GuestLogin |-> {"device"}, Register |-> {}, PasswordLogin |-> {},
                  RefreshSession |-> {"session", "token"}, Logout |-> {}]
AccountHttp == [GuestLogin |-> {"device"}, Register |-> {}, PasswordLogin |-> {},
                RefreshSession |-> {}, Logout |-> {}, Authenticate |-> {}]
AccountGrpc == [GuestLogin |-> {"device"}, Register |-> {}, PasswordLogin |-> {},
                RefreshSession |-> {}, Logout |-> {}, Authenticate |-> {}]

SocialPublic == [CreateInvite |-> {"user"}, AcceptInvite |-> {"user", "code"},
                 ListFriends |-> {"user"}]
SocialHttp == [CreateInvite |-> {"user"}, AcceptInvite |-> {"user", "code"},
               AreFriends |-> {"user", "other"}, ListFriends |-> {"user"}]
SocialGrpc == [CreateInvite |-> {"user"}, AcceptInvite |-> {"code", "user"},
               AreFriends |-> {"user", "other"}, ListFriends |-> {"user"}]

MailPublic == [ListMails |-> {"user"}, GetSummary |-> {"user"},
               ClaimAttachment |-> {"user", "attachment"},
               MarkRead |-> {"user", "mail"}, MarkAllRead |-> {"user"}]
MailHttp == [SendMail |-> {"user", "title"}, ListMails |-> {"user"}, GetSummary |-> {"user"},
             ClaimAttachment |-> {"attachment", "user"},
             MarkRead |-> {"mail", "user"}, MarkAllRead |-> {"user"}]
MailGrpc == [SendMail |-> {"user", "title"}, ListMails |-> {"user"}, GetSummary |-> {"user"},
             ClaimAttachment |-> {"attachment", "user"}, MarkRead |-> {"mail", "user"}]

TaskPublic == [ListTasks |-> {"user"}, ClaimReward |-> {"user", "task"}]
TaskHttp == [IncrProgress |-> {"user", "task"}, ListTasks |-> {"user"},
             ClaimReward |-> {"user", "task"}]
TaskGrpc == [IncrProgress |-> {"user", "task"}, ListTasks |-> {"user"},
             ClaimReward |-> {"user", "task"}]

PetPublic == [BuyPet |-> {"user"}, HasPet |-> {"user"}, SetAutoHarvest |-> {"user", "enabled"}]
PetHttp == [BuyPet |-> {"user"}, HasPet |-> {"user"}, SetAutoHarvest |-> {"user"}]
PetGrpc == [BuyPet |-> {"user"}, HasPet |-> {"user"}, SetAutoHarvest |-> {"user"}]

SnapshotPublic == [GetSnapshot |-> {"user"}]
ShopPublic == [CommitFarmCommand |-> {"user", "key", "crop", "quantity"}]
FarmHttp == [CommitFarmCommand |-> {}, LoadSnapshot |-> {}, GetSnapshot |-> {},
             AdvanceRouteEpoch |-> {}]
FarmGrpc == [CommitFarmCommand |-> {}, LoadSnapshot |-> {}, GetSnapshot |-> {},
             AdvanceRouteEpoch |-> {}]

SubmitHttp == [SubmitCommand |-> {}]
SubmitGrpc == [SubmitCommand |-> {}]

AssetPublic == [GetPlayerAssets |-> {"user"}]
AssetHttp == [GetPlayerAssets |-> {"user"}]
AssetGrpc == [GetPlayerAssets |-> {"user"}]

CatalogPublic == [ListCatalogUnlocks |-> {"user"}]
CatalogHttp == [ListCatalogUnlocks |-> {"user"}]
CatalogGrpc == [ListCatalogUnlocks |-> {"user"}]

\* The tables of all services as one.
Merged(tables) == [m \in UNION {DOMAIN t : t \in tables} |->
                      (CHOOSE t \in tables : m \in DOMAIN t)[m]]

Public == Merged({AccountPublic, SocialPublic, MailPublic, TaskPublic, PetPublic,
                  SnapshotPublic, ShopPublic, AssetPublic, CatalogPublic})
HttpDemands == Merged({AccountHttp, SocialHttp, MailHttp, TaskHttp, PetHttp,
                       FarmHttp, SubmitHttp, AssetHttp, CatalogHttp})
GrpcDemands == Merged({AccountGrpc, SocialGrpc, MailGrpc, TaskGrpc, PetGrpc,
                       FarmGrpc, SubmitGrpc, AssetGrpc, CatalogGrpc})

Method == DOMAIN HttpDemands
PublicMethod == DOMAIN Public

\* The transports each client method has code for, gRPC first.
AccountClient == [m \in DOMAIN AccountHttp |-> {"grpc", "http"}]
SocialClient == [m \in DOMAIN SocialHttp |-> {"grpc", "http"}]
MailClient == [m \in DOMAIN MailHttp |-> IF m = "MarkAllRead" THEN {"http"} ELSE {"grpc", "http"}]
TaskClient == [m \in DOMAIN TaskHttp |-> {"grpc", "http"}]
PetClient == [m \in DOMAIN PetHttp |-> {"grpc", "http"}]
FarmClient == [m \in DOMAIN FarmHttp |-> {"grpc", "http"}]
SubmitClient == [m \in DOMAIN SubmitHttp |-> {"grpc", "http"}]
AssetClient == [m \in DOMAIN AssetHttp |-> {"grpc", "http"}]
CatalogClient == [m \in DOMAIN CatalogHttp |-> {"grpc", "http"}]

Client == Merged({AccountClient, SocialClient, MailClient, TaskClient, PetClient,
                  FarmClient, SubmitClient, AssetClient, CatalogClient})

Demands(over, m) == IF over = "grpc" THEN GrpcDemands[m] ELSE HttpDemands[m]
AllFields(m) == HttpDemands[m] \cup (IF m \in PublicMethod THEN Public[m] ELSE {})

-----------------------------------------------------------------------------
(* Classes of answers.                                                       *)

\* errcode.Retryable: the caller may try again with the same key.
Retryable == {"exhausted", "routing", "internal"}

\* The code the gateway writes for an error a client returned: a deadline is a
\* capacity problem, anything without a code is internal.
Written(answer) ==
    CASE answer = "deadline" -> "exhausted"
      [] answer = "canceled" -> "internal"
      [] OTHER -> answer

\* rpcgrpc.ToError, a status with the code as a detail, then FromError.  The
\* context's errors travel as bare statuses, the caller's own deadline ("late")
\* among them; a broken connection's status has no detail either.
ThroughGrpc(answer) ==
    CASE answer = "late" -> "deadline"
      [] answer = "broken" -> "internal"
      [] OTHER -> answer

\* toRPCErr puts the code in the body; a context's error has none there, but the
\* caller's own is kept.  A reply that is no JSON, or none at all, has no code.
ThroughHttp(answer) ==
    CASE answer = "late" -> "deadline"
      [] answer \in {"deadline", "canceled", "broken"} -> "internal"
      [] OTHER -> answer

CanFallbackBroken(answer) == answer \in {"unimplemented", "broken"}
CanFallback(answer) == answer = "unimplemented"

-----------------------------------------------------------------------------
CallTypeOK ==
    /\ mode \in {"http", "grpc", "grpc_fallback"}
    /\ serves \subseteq {"grpc", "http"}
    /\ call.method \in Method
    /\ call.fields \subseteq AllFields(call.method)
    /\ call.at \in {"none", "gateway", "client", "sent", "replied", "done"}
    /\ call.over \in {"none", "grpc", "http"}
    /\ runs \in 0 .. 2

NoCall == [method |-> "GetSnapshot", fields |-> {}, at |-> "none", over |-> "none", answer |-> "none"]

CallInit ==
    /\ mode = "http"
    /\ serves = {}
    /\ call = NoCall
    /\ runs = 0
    /\ outcome = NotRun

\* A process, configured for one mode, makes a call; the instance it reaches may
\* be older than the method, or gone.
Issue ==
    /\ call = NoCall
    /\ mode' \in {"http", "grpc", "grpc_fallback"}
    /\ serves' \in SUBSET {"grpc", "http"}
    /\ \E m \in Method : \E fields \in SUBSET AllFields(m) :
          call' = [NoCall EXCEPT !.method = m, !.fields = fields, !.at = "gateway"]
    /\ UNCHANGED <<runs, outcome>>

Answered(a) == call' = [call EXCEPT !.at = "done", !.answer = a]

\* The public handler: token, then body.  Other callers of the internal services
\* fill every field.
Screen ==
    /\ call.at = "gateway"
    /\ LET demanded == IF call.method \in PublicMethod
                       THEN Public[call.method] ELSE AllFields(call.method) IN
       IF "user" \in demanded \ call.fields
       THEN Answered("unauthorized")
       ELSE IF demanded \subseteq call.fields
            THEN call' = [call EXCEPT !.at = "client"]
            ELSE Answered("invalid")
    /\ UNCHANGED <<mode, serves, runs, outcome>>

\* gRPC first, unless the mode is http or the client has no such method.
Send ==
    /\ call.at = "client"
    /\ call' = [call EXCEPT !.at = "sent",
                            !.over = IF mode # "http" /\ "grpc" \in Client[call.method]
                                     THEN "grpc" ELSE "http"]
    /\ UNCHANGED <<mode, serves, runs, outcome>>

Replied(a) == call' = [call EXCEPT !.at = "replied", !.answer = a]

\* The instance is older or gone: the method is not there.
NotServed ==
    /\ call.at = "sent"
    /\ call.over \notin serves
    /\ Replied(IF call.over = "grpc" THEN "unimplemented" ELSE "broken")
    /\ UNCHANGED <<mode, serves, runs, outcome>>

\* The gate has no slot left.
Refused ==
    /\ call.at = "sent"
    /\ call.over \in serves
    /\ Replied("exhausted")
    /\ UNCHANGED <<mode, serves, runs, outcome>>

Rejected ==
    /\ call.at = "sent"
    /\ call.over \in serves
    /\ ~(Demands(call.over, call.method) \subseteq call.fields)
    /\ Replied("invalid")
    /\ UNCHANGED <<mode, serves, runs, outcome>>

\* What a service returns, and whether its transaction took effect: an error
\* after the commit carries no code.
ServiceOutcomes ==
    {[effect |-> TRUE, answer |-> "ok"]}
        \cup {[effect |-> FALSE, answer |-> a] : a \in {"refused", "unauthorized", "exhausted", "routing"}}
        \cup {[effect |-> e, answer |-> a] : e \in BOOLEAN, a \in {"internal", "deadline", "canceled"}}

\* The service runs; its reply arrives, or the connection breaks, or the
\* caller's deadline passes first.
Run ==
    /\ call.at = "sent"
    /\ call.over \in serves
    /\ Demands(call.over, call.method) \subseteq call.fields
    /\ runs' = runs + 1
    /\ \E o \in ServiceOutcomes :
          /\ outcome' = [effect |-> outcome.effect \/ o.effect, answer |-> o.answer]
          /\ \E a \in {o.answer, "broken", "late"} : Replied(a)
    /\ UNCHANGED <<mode, serves>>

Through(answer) == IF call.over = "grpc" THEN ThroughGrpc(answer) ELSE ThroughHttp(answer)

\* The client takes the reply, or falls back to HTTP.
Return ==
    /\ call.at = "replied"
    /\ IF call.over = "grpc" /\ mode = "grpc_fallback" /\ CanFallback(call.answer)
       THEN call' = [call EXCEPT !.at = "sent", !.over = "http"]
       ELSE Answered(Written(Through(IF call.answer = "unimplemented" THEN "broken" ELSE call.answer)))
    /\ UNCHANGED <<mode, serves, runs, outcome>>

CallNext == Issue \/ Screen \/ Send \/ NotServed \/ Refused \/ Rejected \/ Run \/ Return

-----------------------------------------------------------------------------
(* Properties.                                                               *)

\* However a call is routed, the service is entered at most once for it: the
\* fallback to HTTP never repeats what gRPC may have done.
RunsOnce == runs <= 1

\* A success means the effect took place; an error that tells the client not to
\* try again means that it did not.
AnswerTruthful ==
    call.at = "done" =>
        /\ call.answer = "ok" => outcome.effect
        /\ call.answer \notin Retryable \cup {"ok"} => ~outcome.effect

\* What the public handler lets through no server rejects, on either transport,
\* and both servers demand the same.
ScreenedIsAccepted ==
    /\ call.at = "client" => \A over \in Client[call.method] :
          Demands(over, call.method) \subseteq call.fields
    /\ \A m \in DOMAIN GrpcDemands : GrpcDemands[m] = HttpDemands[m]

CallsTruthful == RunsOnce /\ AnswerTruthful /\ ScreenedIsAccepted
=============================================================================
