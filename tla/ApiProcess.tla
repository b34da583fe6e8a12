----------------------------- MODULE ApiProcess -----------------------------
(***************************************************************************)
(* A process of the API: what it keeps between requests, and what each     *)
(* request goes through in it before and beside its accesses of the table. *)
(*                                                                         *)
(* A process is one of two.  A Lambda starts with an invocation, has one   *)
(* invocation at a time and ends with one that takes too long; a server    *)
(* (main.ts) has as many requests in progress as come and waits for them.  *)
(* Either fetches its configuration once and the public key of the auth    *)
(* service once, and connects the agent's tools once, all of it while      *)
(* requests are in progress; each is then kept as long as the process.     *)
(***************************************************************************)
EXTENDS Integers, SequencesExt

CONSTANTS
    Requests,       \* requests that can be in progress at once, each of a user of its own
    Tools,          \* the functions of LocalMcpService
    fetch_user_data,
    Other,          \* a function that it does not have
    MaxReturns,     \* a bound on how often an answer of the agent returns control
    MaxInputs,      \* a bound on the invocations the agent asks for at once
    MaxChanges,     \* a bound on the changes of keys and configurations
    LambdaTimeout,  \* the 15 seconds an invocation has
    TIMEOUT_MS,     \* the 20 seconds that RevenueCat has, in the same units
    None

\* Of the auth service and of AppConfig, counted from the start of the process; None is
\* one of before, or of somebody else.
Keys == 0 .. MaxChanges
Configs == 0 .. MaxChanges
Functions == Tools \cup {Other}

ASSUME ToolsAreFunctions == fetch_user_data \in Tools /\ Other \notin Tools
ASSUME BoundsAreNumbers ==
    /\ MaxReturns \in Nat \ {0} /\ MaxInputs \in Nat \ {0} /\ MaxChanges \in Nat
    /\ LambdaTimeout \in Nat \ {0} /\ TIMEOUT_MS \in Nat \ {0}
ASSUME NoneIsNothing ==
    /\ None \notin Keys /\ None \notin Configs
    /\ None \notin Requests
    /\ \A tools \in SUBSET Tools : tools # None

VARIABLES
    server,        \* whether this is main.ts
    phase,         \* of the process: "off", "starting" or "up"
    authKey,       \* the key the auth service signs with
    config,        \* the configuration that is deployed
    publicKey,     \* what the process has cached of them
    appConfig,
    prefetch,      \* the fetch that the start begins: "none", "asked", "read"
    prefetched,    \* and the key it has read
    mcpClients,    \* the tools in the map of clients, once there is a map
    req,           \* req[r]: where request r stands
    chat           \* chat[r]: its exchange with the agent

caches == <<publicKey, appConfig, mcpClients>>
outside == <<authKey, config>>
prefetching == <<prefetch, prefetched>>
vars == <<server, phase, outside, caches, prefetching, req, chat>>

-----------------------------------------------------------------------------
Routes == {"invite", "sudoku", "agent", "party"}
Public(route) == route = "invite"
ApiKey(route) == route = "sudoku"
RequirePermissions(route) == route \in {"invite", "party"}

\* A token is signed with a key, and has the permission its route requires or not.  An
\* API key is that of a configuration.
Tokens == [signedWith : Keys \cup {None}, allowed : BOOLEAN]
ApiKeys == [validIn : Configs \cup {None}]
Credentials == Tokens \cup ApiKeys \cup {None}

\* What requests come with: nothing, a token, or an API key where one is looked at.
CredentialsFor(route) ==
    {None}
    \cup {t \in Tokens : /\ t.signedWith \in (0 .. authKey) \cup {None}
                         /\ RequirePermissions(route) \/ t.allowed}
    \cup {k \in ApiKeys : ApiKey(route) /\ k.validIn \in (0 .. config) \cup {None}}

InGuard == {"boot", "guard", "keyAsked", "keyRead"}
InAgent == {"ask", "stream"}
Steps == InGuard \cup InAgent \cup {"handle", "lookup", "clients", "connect"}

\* key: the key a request has read and not stored yet.  age: the time since the
\* invocation, waited: since the call of RevenueCat.
Request ==
    [step : Steps, route : Routes, cred : Credentials, key : Keys \cup {None},
     age : 0 .. LambdaTimeout, waited : 0 .. TIMEOUT_MS]

\* What a tool, or the lack of it, has answered: a text about a user (here, that user),
\* a text, 'Error'.
Bodies == Requests \cup {"text", "Error"}
Result == [function : Functions, body : Bodies]

\* offered: the tools the agent has been told of.  returns: how often its answer has
\* returned control so far; control: whether it has, the last time with these inputs, of
\* which those before next are done; call: the user handed over with the call of a tool
\* that has not been answered; results: what goes back.
Chat ==
    [offered : SUBSET Tools, returns : 0 .. MaxReturns,
     control : BOOLEAN, inputs : Seq(Functions), next : Nat,
     call : Requests \cup {None}, results : Seq(Result)]

NewChat(tools) ==
    [offered |-> tools, returns |-> 0, control |-> FALSE,
     inputs |-> <<>>, next |-> 1, call |-> None, results |-> <<>>]

ASSUME NoneIsNoRequest == None \notin Request
ASSUME NoneIsNoChat == None \notin Chat

At(r, step) == req[r] # None /\ req[r].step = step
InTime(r) == server \/ req[r].age < LambdaTimeout

Init ==
    /\ server \in BOOLEAN
    /\ phase = "off"
    /\ authKey = 0 /\ config = 0
    /\ publicKey = None /\ appConfig = None /\ mcpClients = None
    /\ prefetch = "none" /\ prefetched = None
    /\ req = [r \in Requests |-> None]
    /\ chat = [r \in Requests |-> None]

-----------------------------------------------------------------------------
(***************************************************************************)
(* The process starts and ends.                                            *)
(***************************************************************************)

\* build: the fetch of the public key is begun and not waited for.
Build ==
    /\ phase = "off"
    /\ phase' = "starting"
    /\ prefetch' = "asked"
    /\ UNCHANGED prefetched

New(route, cred, step) ==
    [step |-> step, route |-> route, cred |-> cred, key |-> None, age |-> 0, waited |-> 0]

BootServer ==
    /\ server
    /\ Build
    /\ UNCHANGED <<server, outside, caches, req, chat>>

\* handler: an invocation starts the process if it does not find one.
Invoke(r, route, cred) ==
    /\ ~server
    /\ \A q \in Requests : req[q] = None
    /\ \/ Build /\ req' = [req EXCEPT ![r] = New(route, cred, "boot")]
       \/ phase = "up" /\ req' = [req EXCEPT ![r] = New(route, cred, "guard")]
                       /\ UNCHANGED <<phase, prefetching>>
    /\ UNCHANGED <<server, outside, caches, chat>>

Receive(r, route, cred) ==
    /\ server /\ phase = "up"
    /\ req[r] = None
    /\ req' = [req EXCEPT ![r] = New(route, cred, "guard")]
    /\ UNCHANGED <<server, phase, outside, caches, prefetching, chat>>

\* fetchAppConfig: the configuration that is deployed now, or that was since the start;
\* only then the application listens, or the invocation goes on.
FetchAppConfig ==
    /\ phase = "starting"
    /\ \A r \in Requests : req[r] # None => InTime(r)
    /\ appConfig' \in 0 .. config
    /\ phase' = "up"
    /\ req' = [r \in Requests |->
                 IF req[r] = None THEN None ELSE [req[r] EXCEPT !.step = "guard"]]
    /\ UNCHANGED <<server, outside, publicKey, mcpClients, prefetching, chat>>

\* Nothing a process keeps outlives it, and none of its requests is answered; keys and
\* configurations are counted anew for the next.
Exit ==
    /\ phase' = "off"
    /\ publicKey' = None /\ appConfig' = None /\ mcpClients' = None
    /\ prefetch' = "none" /\ prefetched' = None
    /\ req' = [r \in Requests |-> None]
    /\ chat' = [r \in Requests |-> None]
    /\ authKey' = 0 /\ config' = 0
    /\ UNCHANGED server

\* Without a configuration the application is not created, and the process ends.
FetchAppConfigFails == phase = "starting" /\ Exit

\* A server may be stopped at any time, a Lambda while it has nothing to do.
Stop ==
    /\ phase = "up"
    /\ server \/ \A r \in Requests : req[r] = None
    /\ Exit

\* The invocation has had its time: the process is ended with it.
Timeout(r) ==
    /\ ~server
    /\ req[r] # None
    /\ req[r].age = LambdaTimeout
    /\ Exit

\* Mutant: the time of a call goes on after it has been aborted.
PassOn(r) ==
    /\ req[r] # None
    /\ req' = [req EXCEPT ![r].age = IF server THEN @ ELSE @ + 1, ![r].waited = @ + 1]
    /\ UNCHANGED <<server, phase, outside, caches, prefetching, chat>>

Waited(r) ==
    IF req[r].step = "lookup" /\ req[r].waited < TIMEOUT_MS THEN req[r].waited + 1
                                                          ELSE req[r].waited

\* Time passes.
Pass(r) ==
    /\ req[r] # None
    /\ \/ ~server /\ req[r].age < LambdaTimeout
                  /\ req' = [req EXCEPT ![r] = [req[r] EXCEPT !.age = @ + 1, !.waited = Waited(r)]]
       \/ server /\ req[r].step = "lookup" /\ req[r].waited < TIMEOUT_MS
                 /\ req' = [req EXCEPT ![r] = [req[r] EXCEPT !.waited = Waited(r)]]
    /\ UNCHANGED <<server, phase, outside, caches, prefetching, chat>>

\* The auth service and AppConfig go on to a new key, a new configuration.
Rotate ==
    /\ phase # "off"
    /\ authKey + config < MaxChanges
    /\ \/ authKey' = authKey + 1 /\ UNCHANGED config
       \/ config' = config + 1 /\ UNCHANGED authKey
    /\ UNCHANGED <<server, phase, caches, prefetching, req, chat>>

-----------------------------------------------------------------------------
(***************************************************************************)
(* The guard and the public key.                                           *)
(***************************************************************************)

Go(r, step) == req' = [req EXCEPT ![r] = [req[r] EXCEPT !.step = step]]

End(r) ==
    /\ req' = [req EXCEPT ![r] = None]
    /\ chat' = [chat EXCEPT ![r] = None]

\* The handler of the route takes over; what it does first.  Only the parties of users
\* who are not admins are looked up.
Handlers(route) ==
    CASE route = "agent" -> {"clients"}
      [] route = "party" -> {"lookup", "handle"}
      [] OTHER -> {"handle"}
Admit(r) ==
    /\ \E step \in Handlers(req[r].route) :
         req' = [req EXCEPT ![r] = [req[r] EXCEPT !.step = step, !.cred = None, !.key = None]]
    /\ UNCHANGED chat

\* A Lambda is frozen when its invocation has been answered.
Awake == phase # "off" /\ (server \/ \E r \in Requests : req[r] # None /\ InTime(r))

PrefetchAnswered ==
    /\ Awake
    /\ prefetch = "asked"
    /\ prefetch' = "read" /\ prefetched' = authKey
    /\ UNCHANGED <<server, phase, outside, caches, req, chat>>

PrefetchStored ==
    /\ Awake
    /\ prefetch = "read"
    /\ publicKey' = prefetched
    /\ prefetch' = "none" /\ prefetched' = None
    /\ UNCHANGED <<server, phase, outside, appConfig, mcpClients, req, chat>>

PrefetchFails ==
    /\ Awake
    /\ prefetch = "asked"
    /\ prefetch' = "none"
    /\ UNCHANGED <<server, phase, outside, caches, prefetched, req, chat>>

\* jwtService.verifyAsync with a key, and the permissions the route requires.
Verified(r, key) ==
    /\ req[r].cred.signedWith = key
    /\ RequirePermissions(req[r].route) => req[r].cred.allowed

Verify(r, key) == IF Verified(r, key) THEN Admit(r) ELSE End(r)

\* Mutant: a public route lets everybody in, with whatever token.
AdmitToPublic(r) ==
    /\ At(r, "guard") /\ InTime(r)
    /\ \/ Public(req[r].route)
       \/ /\ req[r].cred \notin Tokens
          /\ ApiKey(req[r].route) /\ req[r].cred \in ApiKeys /\ req[r].cred.validIn = appConfig
    /\ Admit(r)
    /\ UNCHANGED <<server, phase, outside, caches, prefetching>>

\* canActivate, of a request without a token: a public route lets it in, and some
\* let it in with an API key of the configuration of the process.
AdmitWithoutToken(r) ==
    /\ At(r, "guard") /\ InTime(r)
    /\ req[r].cred \notin Tokens
    /\ \/ Public(req[r].route)
       \/ ApiKey(req[r].route) /\ req[r].cred \in ApiKeys /\ req[r].cred.validIn = appConfig
    /\ Admit(r)
    /\ UNCHANGED <<server, phase, outside, caches, prefetching>>

RefuseWithoutToken(r) ==
    /\ At(r, "guard") /\ InTime(r)
    /\ req[r].cred \notin Tokens
    /\ ~Public(req[r].route)
    /\ ~(ApiKey(req[r].route) /\ req[r].cred \in ApiKeys /\ req[r].cred.validIn = appConfig)
    /\ End(r)
    /\ UNCHANGED <<server, phase, outside, caches, prefetching>>

\* A token is verified with the key the process has, if it has one.
CheckToken(r) ==
    /\ At(r, "guard") /\ InTime(r)
    /\ req[r].cred \in Tokens
    /\ publicKey # None
    /\ Verify(r, publicKey)
    /\ UNCHANGED <<server, phase, outside, caches, prefetching>>

\* fetchPublicKey: every request that finds no key fetches it, and stores what it has
\* read over whatever has been stored meanwhile.
FetchPublicKey(r) ==
    /\ At(r, "guard") /\ InTime(r)
    /\ req[r].cred \in Tokens
    /\ publicKey = None
    /\ Go(r, "keyAsked")
    /\ UNCHANGED <<server, phase, outside, caches, prefetching, chat>>

PublicKeyAnswered(r) ==
    /\ At(r, "keyAsked") /\ InTime(r)
    /\ req' = [req EXCEPT ![r] = [req[r] EXCEPT !.step = "keyRead", !.key = authKey]]
    /\ UNCHANGED <<server, phase, outside, caches, prefetching, chat>>

PublicKeyFails(r) ==
    /\ At(r, "keyAsked") /\ InTime(r)
    /\ End(r)
    /\ UNCHANGED <<server, phase, outside, caches, prefetching>>

PublicKeyStored(r) ==
    /\ At(r, "keyRead") /\ InTime(r)
    /\ publicKey' = req[r].key
    /\ Verify(r, req[r].key)
    /\ UNCHANGED <<server, phase, outside, appConfig, mcpClients, prefetching>>

-----------------------------------------------------------------------------
(***************************************************************************)
(* The handlers, but for their accesses of the table.                      *)
(***************************************************************************)

Answer(r) ==
    /\ At(r, "handle") /\ InTime(r)
    /\ End(r)
    /\ UNCHANGED <<server, phase, outside, caches, prefetching>>

\* hasEntitlement: whatever comes back, or no key to ask with, the party is created,
\* in the worst case as that of a user without the entitlement.
LookupAnswered(r) ==
    /\ At(r, "lookup") /\ InTime(r)
    /\ req[r].waited < TIMEOUT_MS
    /\ Go(r, "handle")
    /\ UNCHANGED <<server, phase, outside, caches, prefetching, chat>>

\* Mutant: the call of RevenueCat has no AbortSignal.
LookupNotAborted(r) ==
    /\ FALSE
    /\ UNCHANGED vars

LookupAborted(r) ==
    /\ At(r, "lookup") /\ InTime(r)
    /\ req[r].waited = TIMEOUT_MS
    /\ Go(r, "handle")
    /\ UNCHANGED <<server, phase, outside, caches, prefetching, chat>>

-----------------------------------------------------------------------------
\* The agent.  What it is asked with is what the map of clients has at that time.
AskWith(r, tools) ==
    /\ Go(r, "ask")
    /\ chat' = [chat EXCEPT ![r] = NewChat(tools)]

\* Mutant: the connection is begun and not waited for.
GetClientsAtOnce(r) ==
    /\ At(r, "clients") /\ InTime(r)
    /\ mcpClients' = IF mcpClients = None THEN {} ELSE Tools
    /\ AskWith(r, mcpClients')
    /\ UNCHANGED <<server, phase, outside, publicKey, appConfig, prefetching>>

\* getMcpClients: the map is there before the client in it is.
GetClients(r) ==
    /\ At(r, "clients") /\ InTime(r)
    /\ IF mcpClients = None
       THEN mcpClients' = {} /\ Go(r, "connect") /\ UNCHANGED chat
       ELSE AskWith(r, mcpClients) /\ UNCHANGED mcpClients
    /\ UNCHANGED <<server, phase, outside, publicKey, appConfig, prefetching>>

\* connectLocalMcpService: within the process, so that it does not fail.
ConnectClient(r) ==
    /\ At(r, "connect") /\ InTime(r)
    /\ mcpClients' = Tools
    /\ AskWith(r, Tools)
    /\ UNCHANGED <<server, phase, outside, publicKey, appConfig, prefetching>>

\* The agent is asked, or handed the results it has asked for, and begins to answer.
InvokeAgent(r) ==
    /\ At(r, "ask") /\ InTime(r)
    /\ Go(r, "stream")
    /\ chat' = [chat EXCEPT ![r] = NewChat(chat[r].offered)]
    /\ UNCHANGED <<server, phase, outside, caches, prefetching>>

\* It is throttled (429) or fails (500), before or within its answer, but for the time
\* that its answer is not listened to.
AgentFails(r) ==
    /\ req[r] # None /\ req[r].step \in InAgent /\ InTime(r)
    /\ chat[r].next > Len(chat[r].inputs)
    /\ End(r)
    /\ UNCHANGED <<server, phase, outside, caches, prefetching>>

\* processAgentResponse, one event after the other; all but those that return control
\* only add to the completion.
Listening(r) ==
    /\ At(r, "stream") /\ InTime(r)
    /\ chat[r].next > Len(chat[r].inputs)

\* Mutant: the results of an earlier return of control are kept.
ReturnControlAgain(r, inputs) ==
    /\ Listening(r) /\ chat[r].returns < MaxReturns
    /\ \A i \in 1 .. Len(inputs) : inputs[i] \in chat[r].offered \cup {Other}
    /\ chat' = [chat EXCEPT ![r] = [chat[r] EXCEPT !.returns = @ + 1, !.control = TRUE,
                                       !.inputs = inputs, !.next = 1]]
    /\ UNCHANGED <<server, phase, outside, caches, prefetching, req>>

ReturnControl(r, inputs) ==
    /\ Listening(r) /\ chat[r].returns < MaxReturns
    /\ \A i \in 1 .. Len(inputs) : inputs[i] \in chat[r].offered \cup {Other}
    /\ chat' = [chat EXCEPT ![r] = [chat[r] EXCEPT !.returns = @ + 1, !.control = TRUE,
                                       !.inputs = inputs, !.next = 1, !.results = <<>>]]
    /\ UNCHANGED <<server, phase, outside, caches, prefetching, req>>

\* Mutant: what the agent gives as the user wins over who has asked.
ArgumentsOfAgent(named, user) == IF named = None THEN user ELSE named

\* The user a tool is told: the agent may name one too.
Arguments(named, user) == user

Done(r, body) ==
    [chat[r] EXCEPT !.next = @ + 1, !.call = None,
        !.results = Append(@, [function |-> chat[r].inputs[chat[r].next], body |-> body])]

\* handleReturnControl: a tool is called through the client all requests share, and its
\* answer waited for; 'Error' without a client that has it.
HandleInvocation(r, named) ==
    /\ At(r, "stream") /\ InTime(r)
    /\ chat[r].next <= Len(chat[r].inputs)
    /\ chat[r].call = None
    /\ chat' = [chat EXCEPT ![r] =
                  IF chat[r].inputs[chat[r].next] \in mcpClients
                  THEN [chat[r] EXCEPT !.call = Arguments(named, r)]
                  ELSE Done(r, "Error")]
    /\ UNCHANGED <<server, phase, outside, caches, prefetching, req>>

\* What the one service in the process makes of the call it has been given.
Text(r) ==
    IF chat[r].inputs[chat[r].next] = fetch_user_data THEN chat[r].call ELSE "text"

\* Mutant: the service keeps the user it is asked about in a field of its own, which
\* the next call overwrites before the first is answered.
ToolAnswersAboutLast(r) ==
    /\ At(r, "stream") /\ InTime(r)
    /\ chat[r].call # None
    /\ \E q \in Requests :
         /\ chat[q] # None /\ chat[q].call # None
         /\ chat' = [chat EXCEPT ![r] = Done(r, chat[q].call)]
    /\ UNCHANGED <<server, phase, outside, caches, prefetching, req>>

\* The tool answers, in whatever order the calls in flight were made.
ToolAnswers(r) ==
    /\ At(r, "stream") /\ InTime(r)
    /\ chat[r].call # None
    /\ chat' = [chat EXCEPT ![r] = Done(r, Text(r))]
    /\ UNCHANGED <<server, phase, outside, caches, prefetching, req>>

\* The answer is over: the results go back, or the request ends with the completion,
\* or, if there is none, with an error.
AnswerEnds(r) ==
    /\ Listening(r)
    /\ IF chat[r].control
       THEN Go(r, "ask") /\ chat' = [chat EXCEPT ![r] = [chat[r] EXCEPT !.returns = 0]]
       ELSE End(r)
    /\ UNCHANGED <<server, phase, outside, caches, prefetching>>

-----------------------------------------------------------------------------
Clock(r) == Pass(r) \/ Timeout(r)

canActivate(r) ==
    \/ AdmitWithoutToken(r) \/ RefuseWithoutToken(r) \/ CheckToken(r) \/ FetchPublicKey(r)
    \/ PublicKeyAnswered(r) \/ PublicKeyFails(r) \/ PublicKeyStored(r)

Agent(r) ==
    \/ GetClients(r) \/ ConnectClient(r) \/ InvokeAgent(r) \/ AgentFails(r)
    \/ ToolAnswers(r) \/ AnswerEnds(r)
    \/ \E inputs \in BoundedSeq(Functions, MaxInputs) : ReturnControl(r, inputs)
    \/ \E named \in Requests \cup {None} : HandleInvocation(r, named)

Next ==
    \/ BootServer \/ FetchAppConfig \/ FetchAppConfigFails \/ Stop \/ Rotate
    \/ PrefetchAnswered \/ PrefetchStored \/ PrefetchFails
    \/ \E r \in Requests :
         \/ \E route \in Routes : \E cred \in CredentialsFor(route) :
              Invoke(r, route, cred) \/ Receive(r, route, cred)
         \/ Clock(r)
         \/ canActivate(r)
         \/ LookupAnswered(r) \/ LookupAborted(r) \/ Answer(r)
         \/ Agent(r)

\* Time passes and the timers go off; the process does what it can; a fetch of the key
\* comes back, be it as the error that Node makes of one that does not.  RevenueCat
\* need not answer, and the agent may go on asking for tools.
Fairness ==
    \A r \in Requests :
        /\ WF_vars(Clock(r))
        /\ WF_vars(canActivate(r) \/ LookupAborted(r) \/ Answer(r))

Spec == Init /\ [][Next]_vars
FairSpec == Spec /\ Fairness

-----------------------------------------------------------------------------
(***************************************************************************)
(* Properties.                                                             *)
(***************************************************************************)

\* Every variable stays within its type.
TypeOK ==
    /\ server \in BOOLEAN
    /\ phase \in {"off", "starting", "up"}
    /\ authKey \in Keys /\ config \in Configs
    /\ publicKey \in Keys \cup {None}
    /\ appConfig \in Configs \cup {None}
    /\ mcpClients \in {None, {}, Tools}
    /\ prefetch \in {"none", "asked", "read"}
    /\ prefetched \in Keys \cup {None}
    /\ req \in [Requests -> Request \cup {None}]
    /\ chat \in [Requests -> Chat \cup {None}]

Admitted(r) == req[r] # None /\ req[r].step \notin InGuard

\* What a request must show: nothing where that is public, an API key that has been
\* deployed, or a token with the permission and of the auth service, both of the time
\* of this process.
Entitled(route, cred) ==
    \/ Public(route) /\ cred \notin Tokens
    \/ ApiKey(route) /\ cred \in ApiKeys /\ cred.validIn \in 0 .. config
    \/ /\ cred \in Tokens
       /\ cred.signedWith \in 0 .. authKey
       /\ RequirePermissions(route) => cred.allowed

\* Whoever is let in was entitled to it at some time of the life of the process,
\* although the key and the configuration it goes by are those it happened to fetch,
\* and the answers of several fetches may be stored in any order: keys of the time
\* before are refused, and a change takes effect when the process ends at the latest.
AdmitsEntitled ==
    [][\A r \in Requests :
         ~Admitted(r) /\ Admitted(r)' => Entitled(req[r].route, req[r].cred)]_vars

\* A tool works for the user who has sent the request, though calls of several requests
\* are with the one service at once and the agent may name another user: no call is
\* about anybody else, and no text about anybody else comes back.
ToolsRunAsCaller ==
    \A r \in Requests : chat[r] # None =>
        /\ chat[r].call \in {r, None}
        /\ \A i \in 1 .. Len(chat[r].results) : chat[r].results[i].body \in {r, "text", "Error"}

\* The agent gets back one result for each function that it has asked for last, in that
\* order, however often it has returned control before.
ResultsMatchInvocations ==
    \A r \in Requests : At(r, "ask") /\ chat[r].control =>
        /\ Len(chat[r].results) = Len(chat[r].inputs)
        /\ \A i \in 1 .. Len(chat[r].inputs) : chat[r].results[i].function = chat[r].inputs[i]

\* A Lambda always offers its tools; what the agent was offered is there to be called;
\* and a map without them, which other requests of a server take for what there is,
\* lasts only as long as somebody is connecting.
ToolsAreOffered ==
    /\ ~server => \A r \in Requests : chat[r] # None => chat[r].offered = Tools
    /\ \A r \in Requests : chat[r] # None => mcpClients # None /\ chat[r].offered \subseteq mcpClients
    /\ mcpClients = {} => \E r \in Requests : At(r, "connect")

\* An invocation of a Lambda ends, even if the agent goes on asking for tools; a server
\* answers whatever is not asked of the agent, even if RevenueCat hangs.
RequestsEnd ==
    \A r \in Requests :
        req[r] # None /\ (server => req[r].route # "agent") ~> req[r] = None

=============================================================================
