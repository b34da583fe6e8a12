-------------------------- MODULE ApiProcessProofs --------------------------
(***************************************************************************)
(* That whoever is let in was entitled to it, that tools work for whoever  *)
(* has asked and are there when offered, that the agent gets back what it  *)
(* has asked for, and that a request counts down to its end: for any       *)
(* number of requests, tools and changes.                                  *)
(***************************************************************************)
EXTENDS ApiProcess, TLAPS

\* What a process has cached, or is about to, is of its own time, and no request is
\* past the start of the process before that is.
KeysInv ==
    /\ phase = "up" <=> appConfig # None
    /\ appConfig # None => appConfig \in 0 .. config
    /\ publicKey # None => publicKey \in 0 .. authKey
    /\ prefetch = "read" => prefetched \in 0 .. authKey
    /\ \A r \in Requests : req[r] # None =>
         /\ req[r].step # "boot" => phase = "up"
         /\ req[r].step = "keyRead" => req[r].key \in 0 .. authKey

\* A result for each function that is done, in their order; a call, about whoever has
\* asked, only for one that is not; and when the agent is asked, all of them are done.
ResultsInv(r) ==
    /\ chat[r].next \in 1 .. Len(chat[r].inputs) + 1
    /\ Len(chat[r].results) = chat[r].next - 1
    /\ \A i \in 1 .. Len(chat[r].results) :
          /\ chat[r].results[i].function = chat[r].inputs[i]
          /\ chat[r].results[i].body \in {r, "text", "Error"}
    /\ chat[r].call \in {r, None}
    /\ chat[r].call # None => chat[r].next <= Len(chat[r].inputs)
    /\ At(r, "ask") => chat[r].next = Len(chat[r].inputs) + 1

AgentInv ==
    /\ ~server => \A q, r \in Requests : req[q] # None /\ req[r] # None => q = r
    /\ \A r \in Requests : chat[r] # None <=> req[r] # None /\ req[r].step \in InAgent
    /\ ToolsAreOffered
    /\ \A r \in Requests : chat[r] # None => ResultsInv(r)

Inv == TypeOK /\ KeysInv /\ AgentInv

USE DEF At

-----------------------------------------------------------------------------
(***************************************************************************)
(* Types.                                                                  *)
(***************************************************************************)

\* A request that changes, and the rest that does not.
LEMMA RequestType ==
    ASSUME TypeOK, NEW r \in Requests, NEW q \in Request \cup {None},
           req' = [req EXCEPT ![r] = q]
    PROVE  /\ req' \in [Requests -> Request \cup {None}]
           /\ req'[r] = q
           /\ \A o \in Requests : o # r => req'[o] = req[o]
  BY DEF TypeOK

LEMMA ChatType ==
    ASSUME TypeOK, NEW r \in Requests, NEW c \in Chat \cup {None},
           chat' = [chat EXCEPT ![r] = c]
    PROVE  /\ chat' \in [Requests -> Chat \cup {None}]
           /\ chat'[r] = c
           /\ \A o \in Requests : o # r => chat'[o] = chat[o]
  BY DEF TypeOK

LEMMA EndType ==
    ASSUME TypeOK, NEW r \in Requests, End(r)
    PROVE  /\ req' \in [Requests -> Request \cup {None}] /\ chat' \in [Requests -> Chat \cup {None}]
           /\ req'[r] = None /\ chat'[r] = None
           /\ \A o \in Requests : o # r => req'[o] = req[o] /\ chat'[o] = chat[o]
  BY RequestType, ChatType DEF End

\* A request that goes to another step stays what it is.
LEMMA GoType ==
    ASSUME TypeOK, NEW r \in Requests, req[r] # None, NEW step \in Steps, Go(r, step)
    PROVE  /\ req' \in [Requests -> Request \cup {None}]
           /\ req'[r] \in Request /\ req'[r] # None
           /\ req'[r].step = step /\ req'[r].route = req[r].route
           /\ \A o \in Requests : o # r => req'[o] = req[o]
<1> DEFINE q == [req[r] EXCEPT !.step = step]
<1>1. req[r] \in Request
  BY DEF TypeOK
<1>2. q \in Request /\ q.step = step /\ q.route = req[r].route
  BY <1>1 DEF Request
<1>3. req' = [req EXCEPT ![r] = q]
  BY DEF Go
<1> HIDE DEF q
<1> QED BY <1>2, <1>3, RequestType, NoneIsNoRequest

LEMMA AdmitType ==
    ASSUME TypeOK, NEW r \in Requests, req[r] # None, Admit(r)
    PROVE  /\ req' \in [Requests -> Request \cup {None}]
           /\ req'[r] # None /\ req'[r].step \in {"clients", "lookup", "handle"}
           /\ \A o \in Requests : o # r => req'[o] = req[o]
           /\ chat' = chat
<1>1. PICK step \in Handlers(req[r].route) :
        req' = [req EXCEPT ![r] = [req[r] EXCEPT !.step = step, !.cred = None, !.key = None]]
  BY DEF Admit
<1> DEFINE q == [req[r] EXCEPT !.step = step, !.cred = None, !.key = None]
<1>2. req[r] \in Request
  BY DEF TypeOK
<1>3. step \in {"clients", "lookup", "handle"}
  BY <1>1 DEF Handlers
<1>4. q \in Request /\ q.step = step
  BY <1>2, <1>3 DEF Request, Steps, Credentials
<1>5. req' = [req EXCEPT ![r] = q]
  BY <1>1
<1> HIDE DEF q
<1> QED BY <1>3, <1>4, <1>5, RequestType, NoneIsNoRequest DEF Admit

LEMMA NewType ==
    ASSUME NEW route \in Routes, NEW cred \in CredentialsFor(route), NEW step \in Steps
    PROVE  /\ New(route, cred, step) \in Request
           /\ New(route, cred, step).step = step
           /\ New(route, cred, step) # None
<1>1. cred \in Credentials
  BY DEF CredentialsFor, Credentials
<1> QED BY <1>1, BoundsAreNumbers, NoneIsNoRequest DEF New, Request

LEMMA NewChatType ==
    ASSUME NEW tools \in SUBSET Tools
    PROVE  NewChat(tools) \in Chat /\ NewChat(tools) # None
<1>1. <<>> \in Seq(Functions) /\ <<>> \in Seq(Result)
  OBVIOUS
<1>2. 0 \in 0 .. MaxReturns /\ 1 \in Nat /\ FALSE \in BOOLEAN
  BY BoundsAreNumbers
<1>3. NewChat(tools) \in Chat
  BY <1>1, <1>2 DEF NewChat, Chat
<1> QED BY <1>3, NoneIsNoChat

\* A process that ends leaves everything as it was at first.
LEMMA ExitInv == ASSUME Inv, Exit PROVE Inv'
<1>1. TypeOK'
  BY BoundsAreNumbers DEF Inv, TypeOK, Exit, Keys, Configs
<1>2. KeysInv'
  BY DEF KeysInv, Exit
<1>3. AgentInv'
  BY NoneIsNothing DEF AgentInv, Exit, ToolsAreOffered
<1> QED BY <1>1, <1>2, <1>3 DEF Inv

LEMMA InitInv == Init => Inv
<1> SUFFICES ASSUME Init PROVE Inv
  OBVIOUS
<1>1. TypeOK
  BY BoundsAreNumbers DEF TypeOK, Init, Keys, Configs
<1>2. KeysInv
  BY DEF KeysInv, Init
<1>3. AgentInv
  BY NoneIsNothing DEF AgentInv, Init, ToolsAreOffered
<1> QED BY <1>1, <1>2, <1>3 DEF Inv

-----------------------------------------------------------------------------
(***************************************************************************)
(* Keys and configurations.                                                *)
(***************************************************************************)

\* A request that moves among the steps after the start does not disturb the rest; nor
\* does one that ends.
LEMMA RequestKeys ==
    ASSUME Inv, NEW r \in Requests, UNCHANGED <<phase, outside, appConfig, prefetching>>,
           publicKey' # None => publicKey' \in 0 .. authKey,
           req'[r] # None => /\ req'[r].step # "boot" => phase = "up"
                             /\ req'[r].step = "keyRead" => req'[r].key \in 0 .. authKey,
           \A o \in Requests : o # r => req'[o] = req[o]
    PROVE  KeysInv'
<1>1. KeysInv
  BY DEF Inv
<1>2. /\ phase' = phase /\ appConfig' = appConfig /\ authKey' = authKey /\ config' = config
      /\ prefetch' = prefetch /\ prefetched' = prefetched
  BY DEF outside, prefetching
<1>3. ASSUME NEW o \in Requests, req'[o] # None
      PROVE  /\ req'[o].step # "boot" => phase' = "up"
             /\ req'[o].step = "keyRead" => req'[o].key \in 0 .. authKey'
  BY <1>1, <1>2, <1>3 DEF KeysInv
<1> QED BY <1>1, <1>2, <1>3 DEF KeysInv

-----------------------------------------------------------------------------
(***************************************************************************)
(* The agent.                                                              *)
(***************************************************************************)

\* Steps that do not reach the agent or come from it leave its invariant alone, if a
\* Lambda is not given a second request.
LEMMA QuietAgent ==
    ASSUME AgentInv, UNCHANGED <<server, mcpClients, chat>>,
           ~server => \A q, o \in Requests : req'[q] # None /\ req'[o] # None => q = o,
           \A o \in Requests : (req[o] # None /\ req[o].step \in InAgent \cup {"connect"})
                                 => req'[o] # None /\ req'[o].step = req[o].step,
           \A o \in Requests : (req'[o] # None /\ req'[o].step \in InAgent)
                                 => req[o] # None /\ req[o].step = req'[o].step
    PROVE  AgentInv'
<1>1. server' = server /\ mcpClients' = mcpClients /\ chat' = chat
  OBVIOUS
<1>2. ASSUME NEW o \in Requests
      PROVE  chat'[o] # None <=> req'[o] # None /\ req'[o].step \in InAgent
  BY <1>1 DEF AgentInv, InAgent
<1>3. ToolsAreOffered'
  BY <1>1 DEF AgentInv, ToolsAreOffered
<1>4. ASSUME NEW o \in Requests, chat'[o] # None PROVE ResultsInv(o)'
  <2>1. req[o] # None /\ req[o].step \in InAgent /\ req'[o] # None /\ req'[o].step = req[o].step
    BY <1>1, <1>4 DEF AgentInv
  <2> QED BY <1>1, <1>4, <2>1 DEF AgentInv, ResultsInv
<1> QED BY <1>1, <1>2, <1>3, <1>4 DEF AgentInv

\* A request that is not in the agent goes to a step that is not either.
LEMMA QuietMove ==
    ASSUME AgentInv, NEW r \in Requests, UNCHANGED <<server, mcpClients, chat>>,
           req[r] # None, req[r].step \notin InAgent \cup {"connect"},
           req'[r] # None, req'[r].step \notin InAgent,
           \A o \in Requests : o # r => req'[o] = req[o]
    PROVE  AgentInv'
<1>1. \A o \in Requests : req'[o] # None <=> req[o] # None
  OBVIOUS
<1>2. ~server => \A q, o \in Requests : req'[q] # None /\ req'[o] # None => q = o
  BY <1>1 DEF AgentInv
<1> QED BY <1>1, <1>2, QuietAgent

\* A request that ends, wherever but in the middle of connecting.
LEMMA EndAgent ==
    ASSUME Inv, NEW r \in Requests, End(r), UNCHANGED <<server, mcpClients>>,
           req[r] # None, req[r].step # "connect"
    PROVE  AgentInv'
<1>1. AgentInv /\ TypeOK
  BY DEF Inv
<1>2. /\ req'[r] = None /\ chat'[r] = None
      /\ \A o \in Requests : o # r => req'[o] = req[o] /\ chat'[o] = chat[o]
  BY <1>1, EndType
<1>3. ~server => \A q, o \in Requests : req'[q] # None /\ req'[o] # None => q = o
  BY <1>1, <1>2 DEF AgentInv
<1>4. \A o \in Requests : chat'[o] # None <=> req'[o] # None /\ req'[o].step \in InAgent
  BY <1>1, <1>2 DEF AgentInv
<1>5. ToolsAreOffered'
  <2>1. mcpClients = {} => \E q \in Requests : q # r /\ At(q, "connect")
    BY <1>1 DEF AgentInv, ToolsAreOffered
  <2>2. mcpClients' = {} => \E q \in Requests : At(q, "connect")'
    BY <1>2, <2>1
  <2> QED BY <1>1, <1>2, <2>2 DEF AgentInv, ToolsAreOffered
<1>6. ASSUME NEW o \in Requests, chat'[o] # None PROVE ResultsInv(o)'
  <2>1. o # r /\ chat'[o] = chat[o] /\ req'[o] = req[o]
    BY <1>2, <1>6
  <2> QED BY <1>1, <1>6, <2>1 DEF AgentInv, ResultsInv
<1> QED BY <1>3, <1>4, <1>5, <1>6 DEF AgentInv

-----------------------------------------------------------------------------
(***************************************************************************)
(* Steps of a request outside the agent.                                   *)
(***************************************************************************)

LEMMA MoveInv ==
    ASSUME Inv, NEW r \in Requests,
           UNCHANGED <<server, phase, outside, appConfig, mcpClients, prefetching, chat>>,
           publicKey' = publicKey \/ publicKey' \in 0 .. authKey,
           req' \in [Requests -> Request \cup {None}],
           req[r] # None, req[r].step \notin InAgent \cup {"connect"},
           req'[r] # None, req'[r].step \notin InAgent,
           req'[r].step # "boot" => phase = "up",
           req'[r].step = "keyRead" => req'[r].key \in 0 .. authKey,
           \A o \in Requests : o # r => req'[o] = req[o]
    PROVE  Inv'
<1>1. TypeOK /\ KeysInv /\ AgentInv
  BY DEF Inv
<1>2. publicKey' \in Keys \cup {None}
  BY <1>1, BoundsAreNumbers DEF TypeOK, Keys
<1>3. TypeOK'
  BY <1>1, <1>2 DEF TypeOK, outside, prefetching
<1>4. publicKey' # None => publicKey' \in 0 .. authKey
  BY <1>1 DEF KeysInv
<1>5. KeysInv'
  BY <1>4, RequestKeys
<1>6. AgentInv'
  BY <1>1, QuietMove
<1> QED BY <1>3, <1>5, <1>6 DEF Inv

LEMMA EndInv ==
    ASSUME Inv, NEW r \in Requests, End(r),
           UNCHANGED <<server, phase, outside, appConfig, mcpClients, prefetching>>,
           publicKey' = publicKey \/ publicKey' \in 0 .. authKey,
           req[r] # None, req[r].step # "connect"
    PROVE  Inv'
<1>1. TypeOK /\ KeysInv /\ AgentInv
  BY DEF Inv
<1>2. publicKey' \in Keys \cup {None}
  BY <1>1, BoundsAreNumbers DEF TypeOK, Keys
<1>3. /\ req' \in [Requests -> Request \cup {None}] /\ chat' \in [Requests -> Chat \cup {None}]
      /\ req'[r] = None
      /\ \A o \in Requests : o # r => req'[o] = req[o]
  BY <1>1, EndType
<1>4. TypeOK'
  BY <1>1, <1>2, <1>3 DEF TypeOK, outside, prefetching
<1>5. publicKey' # None => publicKey' \in 0 .. authKey
  BY <1>1 DEF KeysInv
<1>6. KeysInv'
  BY <1>3, <1>5, RequestKeys
<1>7. AgentInv'
  BY EndAgent
<1> QED BY <1>4, <1>6, <1>7 DEF Inv

LEMMA AdmitInv ==
    ASSUME Inv, NEW r \in Requests, Admit(r), req[r] # None, req[r].step \in {"guard", "keyRead"},
           UNCHANGED <<server, phase, outside, appConfig, mcpClients, prefetching>>,
           publicKey' = publicKey \/ publicKey' \in 0 .. authKey
    PROVE  Inv'
<1>1. TypeOK /\ KeysInv
  BY DEF Inv
<1>2. /\ req' \in [Requests -> Request \cup {None}]
      /\ req'[r] # None /\ req'[r].step \in {"clients", "lookup", "handle"}
      /\ \A o \in Requests : o # r => req'[o] = req[o]
      /\ chat' = chat
  BY <1>1, AdmitType
<1>3. phase = "up"
  BY <1>1 DEF KeysInv
<1> QED BY <1>2, <1>3, MoveInv DEF InAgent

LEMMA VerifyInv ==
    ASSUME Inv, NEW r \in Requests, NEW key, Verify(r, key),
           req[r] # None, req[r].step \in {"guard", "keyRead"},
           UNCHANGED <<server, phase, outside, appConfig, mcpClients, prefetching>>,
           publicKey' = publicKey \/ publicKey' \in 0 .. authKey
    PROVE  Inv'
<1>1. CASE Admit(r)
  BY <1>1, AdmitInv
<1>2. CASE End(r)
  BY <1>2, EndInv
<1> QED BY <1>1, <1>2 DEF Verify

LEMMA GoInv ==
    ASSUME Inv, NEW r \in Requests, NEW step \in Steps, Go(r, step), req[r] # None,
           req[r].step \notin InAgent \cup {"connect", "boot"},
           step \notin InAgent \cup {"keyRead"},
           UNCHANGED <<server, phase, outside, caches, prefetching, chat>>
    PROVE  Inv'
<1>1. TypeOK /\ KeysInv
  BY DEF Inv
<1>2. /\ req' \in [Requests -> Request \cup {None}]
      /\ req'[r] # None /\ req'[r].step = step
      /\ \A o \in Requests : o # r => req'[o] = req[o]
  BY <1>1, GoType
<1>3. phase = "up"
  BY <1>1 DEF KeysInv
<1> QED BY <1>2, <1>3, MoveInv DEF caches

LEMMA GuardInv == ASSUME Inv, NEW r \in Requests, canActivate(r) PROVE Inv'
<1>1. TypeOK /\ KeysInv
  BY DEF Inv
<1>2. CASE AdmitWithoutToken(r)
  BY <1>2, AdmitInv DEF AdmitWithoutToken, caches
<1>3. CASE RefuseWithoutToken(r)
  BY <1>3, EndInv DEF RefuseWithoutToken, caches
<1>4. CASE CheckToken(r)
  BY <1>4, VerifyInv DEF CheckToken, caches
<1>5. CASE FetchPublicKey(r)
  BY <1>5, GoInv DEF FetchPublicKey, Steps, InGuard, InAgent
<1>6. CASE PublicKeyAnswered(r)
  <2> DEFINE q == [req[r] EXCEPT !.step = "keyRead", !.key = authKey]
  <2>1. req[r] \in Request /\ authKey \in Keys /\ authKey \in 0 .. authKey /\ phase = "up"
    BY <1>1, <1>6, BoundsAreNumbers DEF TypeOK, KeysInv, PublicKeyAnswered, Keys
  <2>2. q \in Request /\ q.step = "keyRead" /\ q.key = authKey /\ q # None
    BY <2>1, NoneIsNoRequest DEF Request, Steps, InGuard
  <2>3. req' = [req EXCEPT ![r] = q]
    BY <1>6 DEF PublicKeyAnswered
  <2> HIDE DEF q
  <2>4. /\ req' \in [Requests -> Request \cup {None}]
        /\ req'[r] = q
        /\ \A o \in Requests : o # r => req'[o] = req[o]
    BY <1>1, <2>2, <2>3, RequestType
  <2> QED BY <1>6, <2>1, <2>2, <2>4, MoveInv DEF PublicKeyAnswered, caches, InAgent
<1>7. CASE PublicKeyFails(r)
  BY <1>7, EndInv DEF PublicKeyFails, caches
<1>8. CASE PublicKeyStored(r)
  <2>1. publicKey' \in 0 .. authKey
    BY <1>1, <1>8 DEF PublicKeyStored, KeysInv
  <2> QED BY <1>8, <2>1, VerifyInv DEF PublicKeyStored
<1> QED BY <1>2, <1>3, <1>4, <1>5, <1>6, <1>7, <1>8 DEF canActivate

LEMMA HandlerInv ==
    ASSUME Inv, NEW r \in Requests, LookupAnswered(r) \/ LookupAborted(r) \/ Answer(r)
    PROVE  Inv'
<1>1. CASE LookupAnswered(r) \/ LookupAborted(r)
  BY <1>1, GoInv DEF LookupAnswered, LookupAborted, Steps, InGuard, InAgent
<1>2. CASE Answer(r)
  BY <1>2, EndInv DEF Answer, caches
<1> QED BY <1>1, <1>2

LEMMA ClockInv == ASSUME Inv, NEW r \in Requests, Clock(r) PROVE Inv'
<1>1. TypeOK /\ KeysInv /\ AgentInv
  BY DEF Inv
<1>2. CASE Timeout(r)
  BY <1>2, ExitInv DEF Timeout
<1>3. CASE Pass(r)
  <2>1. PICK q \in Request : /\ req' = [req EXCEPT ![r] = q]
                             /\ q.step = req[r].step /\ q.key = req[r].key
    <3> DEFINE a == [req[r] EXCEPT !.age = @ + 1, !.waited = Waited(r)]
               b == [req[r] EXCEPT !.waited = Waited(r)]
    <3>1. req[r] \in Request
      BY <1>1, <1>3 DEF TypeOK, Pass
    <3>2. Waited(r) \in 0 .. TIMEOUT_MS
      BY <3>1, BoundsAreNumbers DEF Waited, Request
    <3>3. b \in Request /\ b.step = req[r].step /\ b.key = req[r].key
      BY <3>1, <3>2 DEF Request
    <3>4. CASE ~server
      <4>1. req[r].age + 1 \in 0 .. LambdaTimeout
        BY <1>3, <3>1, <3>4, BoundsAreNumbers DEF Pass, Request
      <4>2. a \in Request /\ a.step = req[r].step /\ a.key = req[r].key
        BY <3>1, <3>2, <4>1 DEF Request
      <4>3. req' = [req EXCEPT ![r] = a]
        BY <1>3, <3>4 DEF Pass
      <4> QED BY <4>2, <4>3
    <3>5. CASE server
      <4>1. req' = [req EXCEPT ![r] = b]
        BY <1>3, <3>5 DEF Pass
      <4> QED BY <3>3, <4>1
    <3> QED BY <3>4, <3>5
  <2>2. /\ req' \in [Requests -> Request \cup {None}]
        /\ req'[r] = q /\ req[r] # None /\ q # None
        /\ \A o \in Requests : o # r => req'[o] = req[o]
    BY <1>1, <1>3, <2>1, RequestType, NoneIsNoRequest DEF Pass
  <2>3. UNCHANGED <<server, phase, outside, caches, prefetching, chat>>
    BY <1>3 DEF Pass
  <2>4. TypeOK'
    BY <1>1, <2>2, <2>3 DEF TypeOK, outside, caches, prefetching
  <2>5. publicKey' # None => publicKey' \in 0 .. authKey
    BY <1>1, <2>3 DEF KeysInv, caches
  <2>6. KeysInv'
    BY <1>1, <2>1, <2>2, <2>3, <2>5, RequestKeys DEF KeysInv, caches
  <2>7. ~server => \A p, o \in Requests : req'[p] # None /\ req'[o] # None => p = o
    BY <1>1, <2>2 DEF AgentInv
  <2>8. \A o \in Requests : /\ req'[o] # None <=> req[o] # None
                            /\ req[o] # None => req'[o].step = req[o].step
    BY <2>1, <2>2
  <2>9. AgentInv'
    BY <1>1, <2>3, <2>7, <2>8, QuietAgent DEF caches
  <2> QED BY <2>4, <2>6, <2>9 DEF Inv
<1> QED BY <1>2, <1>3 DEF Clock

-----------------------------------------------------------------------------
(***************************************************************************)
(* Steps of a request in the agent.                                        *)
(***************************************************************************)

\* The exchange goes on with the tools that it began with.
LEMMA TalkInv ==
    ASSUME Inv, NEW r \in Requests, NEW c \in Chat,
           UNCHANGED <<server, phase, outside, caches, prefetching>>,
           req[r] # None, req[r].step \in InAgent,
           req' \in [Requests -> Request \cup {None}],
           req'[r] # None, req'[r].step \in InAgent,
           \A o \in Requests : o # r => req'[o] = req[o],
           chat' = [chat EXCEPT ![r] = c],
           c.offered = chat[r].offered,
           ResultsInv(r)'
    PROVE  Inv'
<1>1. TypeOK /\ KeysInv /\ AgentInv
  BY DEF Inv
<1>2. /\ server' = server /\ phase' = phase /\ mcpClients' = mcpClients
      /\ publicKey' = publicKey /\ appConfig' = appConfig
      /\ authKey' = authKey /\ config' = config
  BY DEF caches, outside
<1>3. /\ chat' \in [Requests -> Chat \cup {None}]
      /\ chat'[r] = c /\ c # None
      /\ \A o \in Requests : o # r => chat'[o] = chat[o]
  BY <1>1, ChatType, NoneIsNoChat
<1>4. TypeOK'
  BY <1>1, <1>2, <1>3 DEF TypeOK, prefetching
<1>5. phase = "up"
  BY <1>1 DEF KeysInv, InAgent
<1>6. publicKey' # None => publicKey' \in 0 .. authKey
  BY <1>1, <1>2 DEF KeysInv
<1>7. KeysInv'
  BY <1>5, <1>6, RequestKeys DEF caches, InAgent
<1>8. chat[r] # None
  BY <1>1 DEF AgentInv
<1>9. \A o \in Requests : /\ req'[o] # None <=> req[o] # None
                          /\ chat'[o] # None <=> chat[o] # None
                          /\ chat'[o] # None => chat'[o].offered = chat[o].offered
                          /\ At(o, "connect") => At(o, "connect")'
  BY <1>3, <1>8 DEF InAgent
<1>10. ~server' => \A q, o \in Requests : req'[q] # None /\ req'[o] # None => q = o
  BY <1>1, <1>2, <1>9 DEF AgentInv
<1>11. \A o \in Requests : chat'[o] # None <=> req'[o] # None /\ req'[o].step \in InAgent
  BY <1>1, <1>3 DEF AgentInv
<1>12. ToolsAreOffered'
  BY <1>1, <1>2, <1>9 DEF AgentInv, ToolsAreOffered
<1>13. ASSUME NEW o \in Requests, chat'[o] # None PROVE ResultsInv(o)'
  <2>1. CASE o = r
    BY <2>1
  <2>2. CASE o # r
    BY <1>1, <1>3, <1>13, <2>2 DEF AgentInv, ResultsInv
  <2> QED BY <2>1, <2>2
<1>14. AgentInv'
  BY <1>10, <1>11, <1>12, <1>13 DEF AgentInv
<1> QED BY <1>4, <1>7, <1>14 DEF Inv

\* What is known of a request that the agent is answering.
LEMMA Streaming ==
    ASSUME Inv, NEW r \in Requests, At(r, "stream") \/ At(r, "ask")
    PROVE  /\ req[r] # None /\ req[r].step \in InAgent /\ req \in [Requests -> Request \cup {None}]
           /\ chat[r] \in Chat /\ chat[r] # None /\ ResultsInv(r)
           /\ chat[r].inputs \in Seq(Functions) /\ chat[r].results \in Seq(Result)
           /\ chat[r].next \in Nat /\ chat[r].returns \in 0 .. MaxReturns
           /\ chat[r].offered \in SUBSET Tools
           /\ mcpClients # None
           /\ Len(chat[r].inputs) \in Nat
           /\ chat[r].next > Len(chat[r].inputs) =>
                chat[r].next = Len(chat[r].inputs) + 1 /\ chat[r].call = None
<1>1. chat[r] # None /\ ResultsInv(r) /\ mcpClients # None
  BY DEF Inv, AgentInv, InAgent, ToolsAreOffered
<1>2. chat[r] \in Chat /\ req \in [Requests -> Request \cup {None}]
  BY <1>1 DEF Inv, TypeOK
<1>3. /\ chat[r].inputs \in Seq(Functions) /\ chat[r].results \in Seq(Result)
      /\ chat[r].next \in Nat /\ chat[r].returns \in 0 .. MaxReturns
      /\ chat[r].offered \in SUBSET Tools
  BY <1>1, <1>2 DEF Chat
<1>4. Len(chat[r].inputs) \in Nat
  BY <1>3
<1>5. /\ chat[r].next \in 1 .. Len(chat[r].inputs) + 1
      /\ chat[r].call # None => chat[r].next <= Len(chat[r].inputs)
  BY <1>1 DEF ResultsInv
<1>6. chat[r].next > Len(chat[r].inputs) =>
        chat[r].next = Len(chat[r].inputs) + 1 /\ chat[r].call = None
  BY <1>3, <1>4, <1>5
<1>7. req[r] # None /\ req[r].step \in InAgent
  BY DEF InAgent
<1> QED BY <1>1, <1>2, <1>3, <1>4, <1>6, <1>7

\* The first question: the tools it offers are those that there are.
LEMMA AskInv ==
    ASSUME Inv, NEW r \in Requests, NEW tools \in SUBSET Tools, AskWith(r, tools),
           UNCHANGED <<server, phase, outside, publicKey, appConfig, prefetching>>,
           req[r] # None, req[r].step \in {"clients", "connect"},
           mcpClients' \in {{}, Tools}, tools = mcpClients',
           mcpClients # None => mcpClients \subseteq mcpClients',
           ~server => tools = Tools,
           mcpClients' = {} => \E o \in Requests : o # r /\ At(o, "connect")
    PROVE  Inv'
<1>1. TypeOK /\ KeysInv /\ AgentInv
  BY DEF Inv
<1>2. /\ req' \in [Requests -> Request \cup {None}]
      /\ req'[r] # None /\ req'[r].step = "ask"
      /\ \A o \in Requests : o # r => req'[o] = req[o]
  BY <1>1, GoType DEF AskWith, Steps, InAgent
<1>3. NewChat(tools) \in Chat /\ NewChat(tools) # None
  BY NewChatType
<1>4. /\ chat' \in [Requests -> Chat \cup {None}]
      /\ chat'[r] = NewChat(tools)
      /\ \A o \in Requests : o # r => chat'[o] = chat[o]
  BY <1>1, <1>3, ChatType DEF AskWith
<1>5. TypeOK'
  BY <1>1, <1>2, <1>4 DEF TypeOK, outside, prefetching
<1>6. phase = "up" /\ (publicKey' # None => publicKey' \in 0 .. authKey)
  BY <1>1 DEF KeysInv
<1>7. KeysInv'
  BY <1>2, <1>6, RequestKeys
<1>8. \A o \in Requests : req'[o] # None <=> req[o] # None
  BY <1>2
<1>9. ~server' => \A q, o \in Requests : req'[q] # None /\ req'[o] # None => q = o
  BY <1>1, <1>8 DEF AgentInv
<1>10. \A o \in Requests : chat'[o] # None <=> req'[o] # None /\ req'[o].step \in InAgent
  BY <1>1, <1>2, <1>3, <1>4 DEF AgentInv, InAgent
<1>11. ToolsAreOffered'
  <2>1. chat'[r].offered = tools
    BY <1>4 DEF NewChat
  <2>2. mcpClients' # None
    BY NoneIsNothing
  <2>3. ASSUME NEW o \in Requests, chat'[o] # None
        PROVE  chat'[o].offered \subseteq mcpClients' /\ (~server' => chat'[o].offered = Tools)
    <3>1. CASE o = r
      BY <2>1, <3>1
    <3>2. CASE o # r
      BY <1>1, <1>4, <2>3, <3>2 DEF AgentInv, ToolsAreOffered
    <3> QED BY <3>1, <3>2
  <2>4. mcpClients' = {} => \E o \in Requests : At(o, "connect")'
    BY <1>2
  <2> QED BY <2>2, <2>3, <2>4 DEF ToolsAreOffered
<1>12. ASSUME NEW o \in Requests, chat'[o] # None PROVE ResultsInv(o)'
  <2>1. CASE o = r
    <3>1. /\ chat'[r].next = 1 /\ Len(chat'[r].inputs) = 0 /\ Len(chat'[r].results) = 0
          /\ chat'[r].call = None
      BY <1>4 DEF NewChat
    <3> QED BY <2>1, <3>1 DEF ResultsInv
  <2>2. CASE o # r
    <3>1. chat'[o] = chat[o] /\ req'[o] = req[o] /\ ResultsInv(o)
      BY <1>1, <1>2, <1>4, <1>12, <2>2 DEF AgentInv
    <3> QED BY <3>1 DEF ResultsInv
  <2> QED BY <2>1, <2>2
<1>13. AgentInv'
  BY <1>9, <1>10, <1>11, <1>12 DEF AgentInv
<1> QED BY <1>5, <1>7, <1>13 DEF Inv

LEMMA ConnectInv == ASSUME Inv, NEW r \in Requests, GetClients(r) \/ ConnectClient(r) PROVE Inv'
<1>1. TypeOK /\ KeysInv /\ AgentInv
  BY DEF Inv
<1>2. CASE GetClients(r) /\ mcpClients = None
  <2>1. /\ req[r] # None /\ req[r].step = "clients" /\ Go(r, "connect") /\ mcpClients' = {}
        /\ UNCHANGED <<server, phase, outside, publicKey, appConfig, prefetching, chat>>
    BY <1>2 DEF GetClients
  <2>2. /\ req' \in [Requests -> Request \cup {None}]
        /\ req'[r] # None /\ req'[r].step = "connect"
        /\ \A o \in Requests : o # r => req'[o] = req[o]
    BY <1>1, <2>1, GoType DEF Steps
  <2>3. TypeOK'
    BY <1>1, <2>1, <2>2 DEF TypeOK, outside, prefetching
  <2>4. phase = "up" /\ (publicKey' # None => publicKey' \in 0 .. authKey)
    BY <1>1, <2>1 DEF KeysInv
  <2>5. KeysInv'
    BY <2>1, <2>2, <2>4, RequestKeys
  <2>6. \A o \in Requests : chat[o] = None /\ chat'[o] = None
    BY <1>1, <1>2, <2>1 DEF AgentInv, ToolsAreOffered
  <2>7. \A o \in Requests : req'[o] # None <=> req[o] # None
    BY <2>1, <2>2
  <2>8. ~server' => \A q, o \in Requests : req'[q] # None /\ req'[o] # None => q = o
    BY <1>1, <2>1, <2>7 DEF AgentInv
  <2>9. \A o \in Requests : ~(req'[o] # None /\ req'[o].step \in InAgent)
    BY <1>1, <2>2, <2>6 DEF AgentInv, InAgent
  <2>10. AgentInv'
    BY <2>2, <2>6, <2>8, <2>9 DEF AgentInv, ToolsAreOffered
  <2> QED BY <2>3, <2>5, <2>10 DEF Inv
<1>3. CASE GetClients(r) /\ mcpClients # None
  <2>1. /\ req[r] # None /\ req[r].step = "clients" /\ AskWith(r, mcpClients)
        /\ mcpClients' = mcpClients /\ mcpClients \in {{}, Tools}
        /\ UNCHANGED <<server, phase, outside, publicKey, appConfig, prefetching>>
    BY <1>1, <1>3 DEF GetClients, TypeOK
  <2>2. mcpClients = {} => \E o \in Requests : o # r /\ At(o, "connect")
    BY <1>1, <2>1 DEF AgentInv, ToolsAreOffered
  <2>3. ~server => mcpClients = Tools
    BY <1>1, <2>1, <2>2 DEF AgentInv
  <2>4. mcpClients \in SUBSET Tools
    BY <2>1
  <2> QED BY <2>1, <2>2, <2>3, <2>4, AskInv
<1>4. CASE ConnectClient(r)
  <2>1. /\ req[r] # None /\ req[r].step = "connect" /\ AskWith(r, Tools) /\ mcpClients' = Tools
        /\ UNCHANGED <<server, phase, outside, publicKey, appConfig, prefetching>>
    BY <1>4 DEF ConnectClient
  <2>2. Tools # {} /\ Tools \in SUBSET Tools
    BY ToolsAreFunctions
  <2>3. mcpClients # None => mcpClients \subseteq Tools
    BY <1>1 DEF TypeOK
  <2> QED BY <2>1, <2>2, <2>3, AskInv
<1> QED BY <1>2, <1>3, <1>4

LEMMA ReturnControlInv ==
    ASSUME Inv, NEW r \in Requests, NEW inputs \in BoundedSeq(Functions, MaxInputs),
           ReturnControl(r, inputs)
    PROVE  Inv'
<1>1. /\ At(r, "stream") /\ chat[r].returns < MaxReturns /\ req' = req
      /\ UNCHANGED <<server, phase, outside, caches, prefetching>>
  BY DEF ReturnControl, Listening
<1>2. /\ req[r] # None /\ req[r].step \in InAgent /\ req \in [Requests -> Request \cup {None}]
      /\ chat[r] \in Chat /\ chat[r].returns \in 0 .. MaxReturns
  BY <1>1, Streaming
<1>3. chat[r].returns + 1 \in 0 .. MaxReturns
  BY <1>1, <1>2, BoundsAreNumbers
<1> DEFINE c == [chat[r] EXCEPT !.returns = @ + 1, !.control = TRUE,
                                !.inputs = inputs, !.next = 1, !.results = <<>>]
<1>4. inputs \in Seq(Functions) /\ <<>> \in Seq(Result)
  BY BoundsAreNumbers DEF BoundedSeq, SeqOf
<1>a. c \in Chat
  BY <1>2, <1>3, <1>4 DEF Chat
<1>b. c.offered = chat[r].offered /\ c.inputs = inputs /\ c.next = 1
  BY <1>2 DEF Chat
<1>c. c.results = <<>> /\ c.call = chat[r].call
  BY <1>2 DEF Chat
<1>5. /\ c \in Chat /\ c.offered = chat[r].offered
      /\ c.inputs = inputs /\ c.next = 1 /\ c.results = <<>> /\ c.call = chat[r].call
  BY <1>a, <1>b, <1>c
<1>6. chat' = [chat EXCEPT ![r] = c]
  BY DEF ReturnControl
<1> HIDE DEF c
<1>7. chat'[r] = c /\ Len(inputs) \in Nat /\ Len(<<>>) = 0
  BY <1>4, <1>6 DEF Inv, TypeOK
<1>8. chat[r].call = None
  BY <1>1, Streaming DEF ReturnControl, Listening
<1>9. ResultsInv(r)'
  BY <1>1, <1>5, <1>7, <1>8 DEF ResultsInv
<1> QED BY <1>1, <1>2, <1>5, <1>6, <1>9, TalkInv

\* A chat that keeps its functions and results, whatever becomes of its call.
LEMMA ResultsKept ==
    ASSUME NEW r \in Requests, ResultsInv(r),
           chat'[r].inputs = chat[r].inputs, chat'[r].next = chat[r].next,
           chat'[r].results = chat[r].results,
           chat'[r].call \in {r, None},
           chat'[r].call # None => chat[r].next <= Len(chat[r].inputs),
           At(r, "ask")' => chat[r].next = Len(chat[r].inputs) + 1
    PROVE  ResultsInv(r)'
<1>1. /\ chat[r].next \in 1 .. Len(chat[r].inputs) + 1
      /\ Len(chat[r].results) = chat[r].next - 1
      /\ \A i \in 1 .. Len(chat[r].results) :
            /\ chat[r].results[i].function = chat[r].inputs[i]
            /\ chat[r].results[i].body \in {r, "text", "Error"}
  BY DEF ResultsInv
<1>2. /\ chat'[r].next \in 1 .. Len(chat'[r].inputs) + 1
      /\ Len(chat'[r].results) = chat'[r].next - 1
  BY <1>1
<1>3. \A i \in 1 .. Len(chat'[r].results) :
            /\ chat'[r].results[i].function = chat'[r].inputs[i]
            /\ chat'[r].results[i].body \in {r, "text", "Error"}
  BY <1>1
<1>4. /\ chat'[r].call \in {r, None}
      /\ chat'[r].call # None => chat'[r].next <= Len(chat'[r].inputs)
      /\ At(r, "ask")' => chat'[r].next = Len(chat'[r].inputs) + 1
  OBVIOUS
<1> QED BY <1>2, <1>3, <1>4 DEF ResultsInv

\* A function that is done: its result is the next one.
LEMMA DoneInv ==
    ASSUME Inv, NEW r \in Requests, NEW body \in {r, "text", "Error"},
           At(r, "stream"), chat[r].next <= Len(chat[r].inputs), req' = req,
           UNCHANGED <<server, phase, outside, caches, prefetching>>,
           chat' = [chat EXCEPT ![r] = Done(r, body)]
    PROVE  Inv'
<1> DEFINE function == chat[r].inputs[chat[r].next]
           result == [function |-> function, body |-> body]
           rs == Append(chat[r].results, result)
           n == chat[r].next + 1
           c == [chat[r] EXCEPT !.next = n, !.call = None, !.results = rs]
<1>1. chat' = [chat EXCEPT ![r] = c]
  BY DEF Done
<1>2. /\ req[r] # None /\ req[r].step \in InAgent /\ req \in [Requests -> Request \cup {None}]
      /\ chat[r] \in Chat /\ chat[r] # None /\ ResultsInv(r)
      /\ chat[r].inputs \in Seq(Functions) /\ chat[r].results \in Seq(Result)
      /\ chat[r].next \in Nat /\ Len(chat[r].inputs) \in Nat
  BY Streaming
<1>3. chat[r].next \in 1 .. Len(chat[r].inputs)
  BY <1>2 DEF ResultsInv
<1>4. function \in Functions
  BY <1>2, <1>3
<1>5. result \in Result /\ result.function = function /\ result.body = body
  BY <1>4 DEF Result, Bodies
<1> HIDE DEF result, function
<1>6. /\ rs \in Seq(Result)
      /\ Len(rs) = Len(chat[r].results) + 1
      /\ \A i \in 1 .. Len(chat[r].results) : rs[i] = chat[r].results[i]
      /\ rs[Len(chat[r].results) + 1] = result
  BY <1>2, <1>5
<1>7. n \in Nat
  BY <1>2
<1> HIDE DEF rs
<1> HIDE DEF n
<1>a. c \in Chat
  BY <1>2, <1>6, <1>7 DEF Chat
<1>b. c.offered = chat[r].offered /\ c.inputs = chat[r].inputs /\ c.next = n
  BY <1>2 DEF Chat
<1>c. c.call = None /\ c.results = rs
  BY <1>2 DEF Chat
<1>8. /\ c \in Chat /\ c.offered = chat[r].offered
      /\ c.inputs = chat[r].inputs /\ c.next = n /\ c.call = None /\ c.results = rs
  BY <1>a, <1>b, <1>c
<1> HIDE DEF c
<1>9. chat'[r] = c
  BY <1>1 DEF Inv, TypeOK
<1>10. ResultsInv(r)'
  <2>1. /\ chat'[r].inputs = chat[r].inputs /\ chat'[r].next = chat[r].next + 1
        /\ chat'[r].call = None /\ chat'[r].results = rs
    BY <1>8, <1>9 DEF n
  <2>2. chat[r].next = Len(chat[r].results) + 1 /\ Len(chat[r].results) \in Nat
    BY <1>2 DEF ResultsInv
  <2>3. chat'[r].next \in 1 .. Len(chat'[r].inputs) + 1
    BY <1>2, <1>3, <2>1
  <2>4. Len(chat'[r].results) = chat'[r].next - 1
    BY <1>6, <2>1, <2>2
  <2>5. ASSUME NEW i \in 1 .. Len(chat'[r].results)
        PROVE  /\ chat'[r].results[i].function = chat'[r].inputs[i]
               /\ chat'[r].results[i].body \in {r, "text", "Error"}
    <3>1. CASE i = Len(chat[r].results) + 1
      BY <1>5, <1>6, <2>1, <2>2, <3>1 DEF function
    <3>2. CASE i # Len(chat[r].results) + 1
      <4>1. i \in 1 .. Len(chat[r].results)
        BY <1>6, <2>1, <2>2, <3>2
      <4> QED BY <1>2, <1>6, <2>1, <4>1 DEF ResultsInv
    <3> QED BY <3>1, <3>2
  <2> QED BY <2>1, <2>3, <2>4, <2>5 DEF ResultsInv
<1> QED BY <1>1, <1>2, <1>8, <1>10, TalkInv

LEMMA HandleInv ==
    ASSUME Inv, NEW r \in Requests, NEW named, HandleInvocation(r, named)
    PROVE  Inv'
<1>1. /\ At(r, "stream") /\ chat[r].next <= Len(chat[r].inputs) /\ req' = req
      /\ UNCHANGED <<server, phase, outside, caches, prefetching>>
  BY DEF HandleInvocation
<1>2. CASE chat[r].inputs[chat[r].next] \notin mcpClients
  <2>1. chat' = [chat EXCEPT ![r] = Done(r, "Error")]
    BY <1>2 DEF HandleInvocation
  <2> QED BY <1>1, <2>1, DoneInv
<1>3. CASE chat[r].inputs[chat[r].next] \in mcpClients
  <2> DEFINE c == [chat[r] EXCEPT !.call = r]
  <2>1. chat' = [chat EXCEPT ![r] = c]
    BY <1>3 DEF HandleInvocation, Arguments
  <2>2. /\ req[r] # None /\ req[r].step \in InAgent /\ req \in [Requests -> Request \cup {None}]
        /\ chat[r] \in Chat /\ ResultsInv(r)
    BY <1>1, Streaming
  <2>a. c \in Chat
    BY <2>2 DEF Chat
  <2>b. c.offered = chat[r].offered /\ c.call = r /\ c.inputs = chat[r].inputs
    BY <2>2 DEF Chat
  <2>c. c.next = chat[r].next /\ c.results = chat[r].results
    BY <2>2 DEF Chat
  <2>3. /\ c \in Chat /\ c.offered = chat[r].offered /\ c.call = r
        /\ c.inputs = chat[r].inputs /\ c.next = chat[r].next /\ c.results = chat[r].results
    BY <2>a, <2>b, <2>c
  <2> HIDE DEF c
  <2>4. chat'[r] = c
    BY <2>1 DEF Inv, TypeOK
  <2>5. ~At(r, "ask")'
    BY <1>1
  <2>6. ResultsInv(r)'
    BY <1>1, <2>2, <2>3, <2>4, <2>5, ResultsKept
  <2> QED BY <1>1, <2>1, <2>2, <2>3, <2>6, TalkInv
<1> QED BY <1>2, <1>3

LEMMA ToolInv == ASSUME Inv, NEW r \in Requests, ToolAnswers(r) PROVE Inv'
<1>1. /\ At(r, "stream") /\ chat[r].call # None /\ req' = req
      /\ UNCHANGED <<server, phase, outside, caches, prefetching>>
      /\ chat' = [chat EXCEPT ![r] = Done(r, Text(r))]
  BY DEF ToolAnswers
<1>2. ResultsInv(r)
  BY <1>1, Streaming
<1>3. chat[r].next <= Len(chat[r].inputs) /\ Text(r) \in {r, "text", "Error"}
  BY <1>1, <1>2 DEF ResultsInv, Text
<1> QED BY <1>1, <1>3, DoneInv

LEMMA AnswerEndsInv == ASSUME Inv, NEW r \in Requests, AnswerEnds(r) PROVE Inv'
<1>1. /\ At(r, "stream") /\ chat[r].next > Len(chat[r].inputs)
      /\ UNCHANGED <<server, phase, outside, caches, prefetching>>
  BY DEF AnswerEnds, Listening
<1>2. /\ req[r] # None /\ req[r].step \in InAgent
      /\ chat[r] \in Chat /\ chat[r] # None /\ ResultsInv(r)
      /\ chat[r].inputs \in Seq(Functions) /\ chat[r].next \in Nat
  BY <1>1, Streaming
<1>3. CASE chat[r].control
  <2> DEFINE c == [chat[r] EXCEPT !.returns = 0]
  <2>1. Go(r, "ask") /\ chat' = [chat EXCEPT ![r] = c]
    BY <1>3 DEF AnswerEnds
  <2>a. 0 \in 0 .. MaxReturns
    BY BoundsAreNumbers
  <2>b. c \in Chat
    BY <1>2, <2>a DEF Chat
  <2>c. c.offered = chat[r].offered /\ c.inputs = chat[r].inputs
    BY <1>2 DEF Chat
  <2>d. c.next = chat[r].next /\ c.results = chat[r].results /\ c.call = chat[r].call
    BY <1>2 DEF Chat
  <2>2. /\ c \in Chat /\ c.offered = chat[r].offered
        /\ c.inputs = chat[r].inputs /\ c.next = chat[r].next /\ c.results = chat[r].results
        /\ c.call = chat[r].call
    BY <2>b, <2>c, <2>d
  <2> HIDE DEF c
  <2>3. /\ req' \in [Requests -> Request \cup {None}]
        /\ req'[r] # None /\ req'[r].step = "ask"
        /\ \A o \in Requests : o # r => req'[o] = req[o]
    BY <1>2, <2>1, GoType DEF Inv, Steps, InAgent
  <2>4. chat'[r] = c
    BY <2>1 DEF Inv, TypeOK
  <2>5. chat[r].next = Len(chat[r].inputs) + 1 /\ chat[r].call = None
    BY <1>1, Streaming
  <2>6. ResultsInv(r)'
    BY <1>2, <2>2, <2>4, <2>5, ResultsKept
  <2> QED BY <1>1, <1>2, <2>1, <2>2, <2>3, <2>6, TalkInv DEF InAgent
<1>4. CASE ~chat[r].control
  BY <1>1, <1>4, EndInv DEF AnswerEnds, caches
<1> QED BY <1>3, <1>4

LEMMA TalkingInv == ASSUME Inv, NEW r \in Requests, Agent(r) PROVE Inv'
<1>1. CASE GetClients(r) \/ ConnectClient(r)
  BY <1>1, ConnectInv
<1>2. CASE InvokeAgent(r)
  <2> DEFINE c == NewChat(chat[r].offered)
  <2>1. /\ At(r, "ask") /\ Go(r, "stream") /\ chat' = [chat EXCEPT ![r] = c]
        /\ UNCHANGED <<server, phase, outside, caches, prefetching>>
    BY <1>2 DEF InvokeAgent
  <2>2. req[r] # None /\ req[r].step \in InAgent /\ chat[r].offered \in SUBSET Tools
    BY <2>1, Streaming
  <2>3. c \in Chat
    BY <2>2, NewChatType
  <2>4. /\ c.offered = chat[r].offered /\ c.next = 1
        /\ Len(c.inputs) = 0 /\ Len(c.results) = 0 /\ c.call = None
    BY DEF NewChat
  <2> HIDE DEF c
  <2>5. /\ req' \in [Requests -> Request \cup {None}]
        /\ req'[r] # None /\ req'[r].step = "stream"
        /\ \A o \in Requests : o # r => req'[o] = req[o]
    BY <2>1, <2>2, GoType DEF Inv, Steps, InAgent
  <2>6. chat'[r] = c
    BY <2>1 DEF Inv, TypeOK
  <2>7. ResultsInv(r)'
    BY <2>4, <2>6 DEF ResultsInv
  <2> QED BY <2>1, <2>2, <2>3, <2>4, <2>5, <2>7, TalkInv DEF InAgent
<1>3. CASE AgentFails(r)
  BY <1>3, EndInv DEF AgentFails, caches, InAgent
<1>4. CASE \E inputs \in BoundedSeq(Functions, MaxInputs) : ReturnControl(r, inputs)
  BY <1>4, ReturnControlInv
<1>5. CASE \E named \in Requests \cup {None} : HandleInvocation(r, named)
  BY <1>5, HandleInv
<1>6. CASE AnswerEnds(r)
  BY <1>6, AnswerEndsInv
<1>7. CASE ToolAnswers(r)
  BY <1>7, ToolInv
<1> QED BY <1>1, <1>2, <1>3, <1>4, <1>5, <1>6, <1>7 DEF Agent

-----------------------------------------------------------------------------
(***************************************************************************)
(* Steps of the process, and requests that come.                           *)
(***************************************************************************)

\* The fetch that the start begins, and the changes outside.
LEMMA BackgroundInv ==
    ASSUME Inv, BootServer \/ Rotate \/ PrefetchAnswered \/ PrefetchStored \/ PrefetchFails
    PROVE  Inv'
<1>1. TypeOK /\ KeysInv /\ AgentInv
  BY DEF Inv
<1>2. UNCHANGED <<server, appConfig, mcpClients, req, chat>>
  BY DEF BootServer, Rotate, PrefetchAnswered, PrefetchStored, PrefetchFails, caches
<1>3. AgentInv'
  BY <1>1, <1>2, QuietAgent DEF AgentInv
<1>4. CASE BootServer
  <2>1. /\ phase = "off" /\ phase' = "starting" /\ prefetch' = "asked" /\ prefetched' = prefetched
        /\ authKey' = authKey /\ config' = config /\ publicKey' = publicKey
    BY <1>4 DEF BootServer, Build, outside, caches
  <2>2. TypeOK' /\ KeysInv'
    BY <1>1, <1>2, <2>1 DEF TypeOK, KeysInv
  <2> QED BY <1>3, <2>2 DEF Inv
<1>5. CASE Rotate
  <2>1. /\ phase' = phase /\ prefetch' = prefetch /\ prefetched' = prefetched
        /\ publicKey' = publicKey
        /\ authKey + config < MaxChanges
        /\ \/ authKey' = authKey + 1 /\ config' = config
           \/ config' = config + 1 /\ authKey' = authKey
    BY <1>5 DEF Rotate, prefetching, caches
  <2>2. authKey \in 0 .. MaxChanges /\ config \in 0 .. MaxChanges
    BY <1>1 DEF TypeOK, Keys, Configs
  <2>3. authKey' \in Keys /\ config' \in Configs
    BY <2>1, <2>2, BoundsAreNumbers DEF Keys, Configs
  <2>4. \A k : (k \in 0 .. authKey => k \in 0 .. authKey') /\ (k \in 0 .. config => k \in 0 .. config')
    BY <2>1, <2>2
  <2>5. TypeOK'
    BY <1>1, <1>2, <2>1, <2>3 DEF TypeOK
  <2>6. KeysInv'
    BY <1>1, <1>2, <2>1, <2>4 DEF KeysInv
  <2> QED BY <1>3, <2>5, <2>6 DEF Inv
<1>6. CASE PrefetchAnswered \/ PrefetchStored \/ PrefetchFails
  <2>1. phase' = phase /\ authKey' = authKey /\ config' = config
    BY <1>6 DEF PrefetchAnswered, PrefetchStored, PrefetchFails, outside
  <2>2. /\ prefetch' \in {"none", "read"}
        /\ publicKey' = publicKey \/ (prefetch = "read" /\ publicKey' = prefetched)
        /\ prefetched' = prefetched \/ prefetched' = authKey \/ prefetched' = None
        /\ prefetch' = "read" => prefetched' = authKey
    BY <1>6 DEF PrefetchAnswered, PrefetchStored, PrefetchFails, caches
  <2>3. authKey \in 0 .. authKey
    BY <1>1, BoundsAreNumbers DEF TypeOK, Keys
  <2>4. TypeOK'
    BY <1>1, <1>2, <2>1, <2>2 DEF TypeOK
  <2>5. KeysInv'
    BY <1>1, <1>2, <2>1, <2>2, <2>3 DEF KeysInv
  <2> QED BY <1>3, <2>4, <2>5 DEF Inv
<1> QED BY <1>4, <1>5, <1>6

LEMMA FetchAppConfigInv == ASSUME Inv, FetchAppConfig PROVE Inv'
<1>1. TypeOK /\ KeysInv /\ AgentInv
  BY DEF Inv
<1>2. /\ phase = "starting" /\ phase' = "up" /\ appConfig' \in 0 .. config
      /\ server' = server /\ authKey' = authKey /\ config' = config
      /\ publicKey' = publicKey /\ mcpClients' = mcpClients
      /\ prefetch' = prefetch /\ prefetched' = prefetched /\ chat' = chat
      /\ req' = [r \in Requests |->
                   IF req[r] = None THEN None ELSE [req[r] EXCEPT !.step = "guard"]]
  BY DEF FetchAppConfig, outside, prefetching
<1>3. ASSUME NEW r \in Requests
      PROVE  /\ req'[r] \in Request \cup {None}
             /\ req'[r] # None <=> req[r] # None
             /\ req'[r] # None => req'[r].step = "guard"
  <2>1. CASE req[r] = None
    BY <1>2, <2>1
  <2>2. CASE req[r] # None
    <3> DEFINE q == [req[r] EXCEPT !.step = "guard"]
    <3>1. req[r] \in Request
      BY <1>1, <2>2 DEF TypeOK
    <3>2. q \in Request /\ q.step = "guard"
      BY <3>1 DEF Request, Steps, InGuard
    <3>3. req'[r] = q
      BY <1>2, <2>2
    <3> QED BY <2>2, <3>2, <3>3, NoneIsNoRequest
  <2> QED BY <2>1, <2>2
<1>4. TypeOK'
  <2>1. appConfig' \in Configs \cup {None}
    BY <1>1, <1>2, BoundsAreNumbers DEF TypeOK, Configs
  <2>2. req' \in [Requests -> Request \cup {None}]
    <3>1. \A r \in Requests : req'[r] \in Request \cup {None}
      BY <1>3
    <3>2. req' = [r \in Requests |-> req'[r]]
      BY <1>2
    <3> QED BY <3>1, <3>2
  <2> QED BY <1>1, <1>2, <2>1, <2>2 DEF TypeOK
<1>5. KeysInv'
  <2>1. appConfig' # None
    BY <1>1, <1>2, NoneIsNothing, BoundsAreNumbers DEF TypeOK, Configs
  <2> QED BY <1>1, <1>2, <1>3, <2>1 DEF KeysInv
<1>6. \A r \in Requests : req[r] # None => req[r].step = "boot"
  BY <1>1, <1>2 DEF KeysInv
<1>7. ~server => \A q, o \in Requests : req'[q] # None /\ req'[o] # None => q = o
  BY <1>1, <1>3 DEF AgentInv
<1>8. AgentInv'
  BY <1>1, <1>2, <1>3, <1>6, <1>7, QuietAgent DEF InAgent
<1> QED BY <1>4, <1>5, <1>8 DEF Inv

LEMMA ArrivalInv ==
    ASSUME Inv, NEW r \in Requests, NEW route \in Routes, NEW cred \in CredentialsFor(route),
           Invoke(r, route, cred) \/ Receive(r, route, cred)
    PROVE  Inv'
<1>1. TypeOK /\ KeysInv /\ AgentInv
  BY DEF Inv
<1>2. PICK step \in {"boot", "guard"} :
        /\ req' = [req EXCEPT ![r] = New(route, cred, step)]
        /\ \/ Build /\ step = "boot"
           \/ step = "guard" /\ phase = "up" /\ UNCHANGED <<phase, prefetching>>
  BY DEF Invoke, Receive
<1>3. UNCHANGED <<server, authKey, config, publicKey, appConfig, mcpClients, chat>> /\ req[r] = None
  BY DEF Invoke, Receive, outside, caches
<1>4. New(route, cred, step) \in Request /\ New(route, cred, step).step = step
  BY NewType DEF Steps, InGuard
<1>5. /\ req' \in [Requests -> Request \cup {None}]
      /\ req'[r] = New(route, cred, step)
      /\ \A o \in Requests : o # r => req'[o] = req[o]
  BY <1>1, <1>2, <1>4, RequestType
<1>6. ~server => \A o \in Requests : o # r => req'[o] = None
  BY <1>5 DEF Invoke, Receive
<1>7. AgentInv'
  BY <1>1, <1>3, <1>4, <1>5, <1>6, QuietAgent DEF InAgent, AgentInv
<1>8. CASE Build /\ step = "boot"
  <2>1. phase = "off" /\ phase' = "starting" /\ prefetch' = "asked" /\ prefetched' = prefetched
    BY <1>8 DEF Build
  <2>2. TypeOK'
    BY <1>1, <1>3, <1>5, <2>1 DEF TypeOK
  <2>3. KeysInv'
    BY <1>1, <1>3, <1>4, <1>5, <1>8, <2>1 DEF KeysInv
  <2> QED BY <1>7, <2>2, <2>3 DEF Inv
<1>9. CASE step = "guard" /\ phase = "up" /\ UNCHANGED <<phase, prefetching>>
  <2>1. phase' = phase /\ prefetch' = prefetch /\ prefetched' = prefetched
    BY <1>9 DEF prefetching
  <2>2. TypeOK'
    BY <1>1, <1>3, <1>5, <2>1 DEF TypeOK
  <2>3. KeysInv'
    BY <1>1, <1>3, <1>4, <1>5, <1>9, <2>1 DEF KeysInv
  <2> QED BY <1>7, <2>2, <2>3 DEF Inv
<1> QED BY <1>2, <1>8, <1>9

LEMMA StepInv == Inv /\ [Next]_vars => Inv'
<1> SUFFICES ASSUME Inv, [Next]_vars PROVE Inv'
  OBVIOUS
<1>1. CASE BootServer \/ Rotate \/ PrefetchAnswered \/ PrefetchStored \/ PrefetchFails
  BY <1>1, BackgroundInv
<1>2. CASE FetchAppConfig
  BY <1>2, FetchAppConfigInv
<1>3. CASE FetchAppConfigFails \/ Stop
  BY <1>3, ExitInv DEF FetchAppConfigFails, Stop
<1>4. ASSUME NEW r \in Requests,
             \E route \in Routes : \E cred \in CredentialsFor(route) :
               Invoke(r, route, cred) \/ Receive(r, route, cred)
      PROVE  Inv'
  BY <1>4, ArrivalInv
<1>5. ASSUME NEW r \in Requests, Clock(r) PROVE Inv'
  BY <1>5, ClockInv
<1>6. ASSUME NEW r \in Requests, canActivate(r) PROVE Inv'
  BY <1>6, GuardInv
<1>7. ASSUME NEW r \in Requests, LookupAnswered(r) \/ LookupAborted(r) \/ Answer(r) PROVE Inv'
  BY <1>7, HandlerInv
<1>8. ASSUME NEW r \in Requests, Agent(r) PROVE Inv'
  BY <1>8, TalkingInv
<1>9. CASE UNCHANGED vars
  <2>1. /\ server' = server /\ phase' = phase /\ authKey' = authKey /\ config' = config
        /\ publicKey' = publicKey /\ appConfig' = appConfig /\ mcpClients' = mcpClients
        /\ prefetch' = prefetch /\ prefetched' = prefetched /\ req' = req /\ chat' = chat
    BY <1>9 DEF vars, outside, caches, prefetching
  <2>2. TypeOK' /\ KeysInv'
    BY <2>1 DEF Inv, TypeOK, KeysInv
  <2>3. AgentInv'
    BY <2>1, QuietAgent DEF Inv, AgentInv
  <2> QED BY <2>2, <2>3 DEF Inv
<1> QED BY <1>1, <1>2, <1>3, <1>4, <1>5, <1>6, <1>7, <1>8, <1>9 DEF Next

\* The invariant all of the theorems below rest on.
THEOREM Invariance == Spec => []Inv
  BY InitInv, StepInv, PTL DEF Spec

\* Every variable stays within its type.
THEOREM TypeCorrect == Spec => []TypeOK
<1>1. Inv => TypeOK
  BY DEF Inv
<1> QED BY <1>1, Invariance, PTL

\* However many users' requests share the client, a tool's text is about the user who
\* has sent the request, whomever the agent names.
THEOREM ToolsWorkForTheCaller == Spec => []ToolsRunAsCaller
<1>1. Inv => ToolsRunAsCaller
  BY DEF Inv, AgentInv, ResultsInv, ToolsRunAsCaller
<1> QED BY <1>1, Invariance, PTL

\* The agent gets back a result for each function of its last return of control, in
\* their order, after any number of returns of control.
THEOREM ResultsGoBackInOrder == Spec => []ResultsMatchInvocations
<1>1. ASSUME Inv, NEW r \in Requests, At(r, "ask")
      PROVE  /\ Len(chat[r].results) = Len(chat[r].inputs)
             /\ \A i \in 1 .. Len(chat[r].inputs) : chat[r].results[i].function = chat[r].inputs[i]
  <2>1. ResultsInv(r) /\ chat[r].inputs \in Seq(Functions)
    BY <1>1, Streaming
  <2> QED BY <1>1, <2>1 DEF ResultsInv
<1>2. Inv => ResultsMatchInvocations
  BY <1>1 DEF ResultsMatchInvocations
<1> QED BY <1>2, Invariance, PTL

\* A Lambda always offers its tools, whatever is offered is there to be called, and a
\* map without tools lasts only while somebody is connecting.
THEOREM OfferedToolsAreThere == Spec => []ToolsAreOffered
<1>1. Inv => ToolsAreOffered
  BY DEF Inv, AgentInv
<1> QED BY <1>1, Invariance, PTL

-----------------------------------------------------------------------------
(***************************************************************************)
(* Who is let in.                                                          *)
(***************************************************************************)

\* The key is fetched for tokens.
TokenInv ==
    \A r \in Requests : req[r] # None /\ req[r].step \in {"keyAsked", "keyRead"}
                          => req[r].cred \in Tokens

\* A step that is not of its guard leaves a request in the guard where it is, ends it,
\* or takes it back to the beginning.
Elsewhere(r) ==
    \/ req'[r] = None
    \/ req'[r].step \in {"boot", "guard"}
    \/ req[r] # None /\ req'[r].step = req[r].step /\ req'[r].cred = req[r].cred
    \/ req[r] # None /\ req[r].step \notin InGuard /\ req'[r].step \notin InGuard

LEMMA OwnSteps ==
    ASSUME TypeOK, NEW r \in Requests,
           \/ Pass(r) \/ LookupAnswered(r) \/ LookupAborted(r) \/ Answer(r) \/ Agent(r)
    PROVE  Elsewhere(r)
<1>1. CASE Pass(r)
  <2> DEFINE a == [req[r] EXCEPT !.age = @ + 1, !.waited = Waited(r)]
             b == [req[r] EXCEPT !.waited = Waited(r)]
  <2>1. req[r] # None /\ req[r] \in Request /\ (req'[r] = a \/ req'[r] = b)
    BY <1>1 DEF Pass, TypeOK
  <2>2. a.step = req[r].step /\ a.cred = req[r].cred /\ b.step = req[r].step /\ b.cred = req[r].cred
    BY <2>1 DEF Request
  <2> QED BY <2>1, <2>2 DEF Elsewhere
<1>2. CASE End(r)
  BY <1>2 DEF End, TypeOK, Elsewhere
<1>3. ASSUME NEW step \in Steps \ InGuard, Go(r, step), req[r] # None, req[r].step \notin InGuard
      PROVE  Elsewhere(r)
  BY <1>3, GoType DEF Elsewhere
<1>4. CASE req' = req
  BY <1>4 DEF Elsewhere
<1>5. CASE LookupAnswered(r) \/ LookupAborted(r) \/ Answer(r)
  BY Zenon, <1>2, <1>3, <1>5 DEF LookupAnswered, LookupAborted, Answer, Steps, InGuard, InAgent
<1>6. CASE Agent(r)
  BY Zenon, <1>2, <1>3, <1>4, <1>6
     DEF Agent, GetClients, ConnectClient, AskWith, InvokeAgent, AgentFails, AnswerEnds,
         ReturnControl, HandleInvocation, ToolAnswers, Listening, Steps, InGuard, InAgent
<1> QED BY <1>1, <1>5, <1>6

LEMMA OthersStay ==
    ASSUME TypeOK, NEW r \in Requests, NEW q \in Requests, q # r,
           \/ Pass(q) \/ canActivate(q)
           \/ LookupAnswered(q) \/ LookupAborted(q) \/ Answer(q) \/ Agent(q)
    PROVE  req'[r] = req[r]
<1>1. CASE \E x : req' = [req EXCEPT ![q] = x]
  BY <1>1 DEF TypeOK
<1>2. CASE End(q) \/ Admit(q) \/ \E step : Go(q, step)
  BY <1>1, <1>2 DEF End, Admit, Go
<1>3. CASE Pass(q)
  BY <1>1, <1>3 DEF Pass
<1>4. CASE canActivate(q)
  BY <1>1, <1>2, <1>4
     DEF canActivate, AdmitWithoutToken, RefuseWithoutToken, CheckToken, FetchPublicKey,
         PublicKeyAnswered, PublicKeyFails, PublicKeyStored, Verify
<1>5. CASE LookupAnswered(q) \/ LookupAborted(q) \/ Answer(q)
  BY Zenon, <1>2, <1>5 DEF LookupAnswered, LookupAborted, Answer
<1>6. CASE Agent(q)
  BY Zenon, <1>2, <1>6
     DEF Agent, GetClients, ConnectClient, AskWith, InvokeAgent, AgentFails, AnswerEnds,
         ReturnControl, HandleInvocation, ToolAnswers
<1> QED BY <1>3, <1>4, <1>5, <1>6

LEMMA OnlyTheGuard ==
    ASSUME TypeOK, [Next]_vars, NEW r \in Requests
    PROVE  canActivate(r) \/ Elsewhere(r)
<1>1. CASE UNCHANGED req
  BY <1>1 DEF Elsewhere
<1>2. CASE Exit
  BY <1>2 DEF Exit, Elsewhere
<1>3. CASE FetchAppConfig
  <2>1. req'[r] = IF req[r] = None THEN None ELSE [req[r] EXCEPT !.step = "guard"]
    BY <1>3 DEF FetchAppConfig
  <2>2. req[r] # None => [req[r] EXCEPT !.step = "guard"].step = "guard"
    BY DEF TypeOK, Request
  <2> QED BY <2>1, <2>2 DEF Elsewhere
<1>4. ASSUME NEW q \in Requests, NEW route \in Routes, NEW cred \in CredentialsFor(route),
             Invoke(q, route, cred) \/ Receive(q, route, cred)
      PROVE  Elsewhere(r)
  <2>1. PICK step \in {"boot", "guard"} : req' = [req EXCEPT ![q] = New(route, cred, step)]
    BY <1>4 DEF Invoke, Receive
  <2>2. New(route, cred, step).step = step
    BY NewType DEF Steps, InGuard
  <2> QED BY <2>1, <2>2 DEF TypeOK, Elsewhere
<1>5. ASSUME NEW q \in Requests,
             \/ Pass(q) \/ canActivate(q)
             \/ LookupAnswered(q) \/ LookupAborted(q) \/ Answer(q) \/ Agent(q)
      PROVE  canActivate(r) \/ Elsewhere(r)
  <2>1. CASE q = r
    BY <1>5, <2>1, OwnSteps
  <2>2. CASE q # r
    BY <1>5, <2>2, OthersStay DEF Elsewhere
  <2> QED BY <2>1, <2>2
<1>6. CASE BootServer \/ Rotate \/ PrefetchAnswered \/ PrefetchStored \/ PrefetchFails
  BY <1>1, <1>6 DEF BootServer, Rotate, PrefetchAnswered, PrefetchStored, PrefetchFails
<1>7. CASE UNCHANGED vars
  BY <1>1, <1>7 DEF vars
<1> QED BY <1>2, <1>3, <1>4, <1>5, <1>6, <1>7
        DEF Next, Clock, FetchAppConfigFails, Stop, Timeout

\* What the guard does with a request that it does not end.
LEMMA GuardSteps ==
    ASSUME TypeOK, NEW r \in Requests, canActivate(r), req'[r] # None
    PROVE  \/ AdmitWithoutToken(r)
           \/ \E key : CheckToken(r) /\ key = publicKey /\ key # None /\ Verified(r, key)
           \/ PublicKeyStored(r) /\ Verified(r, req[r].key)
           \/ /\ FetchPublicKey(r) \/ PublicKeyAnswered(r)
              /\ req'[r].step \in {"keyAsked", "keyRead"} /\ req'[r].cred = req[r].cred
<1>1. ~End(r)
  BY DEF End, TypeOK
<1>2. CASE FetchPublicKey(r) \/ PublicKeyAnswered(r)
  <2> DEFINE a == [req[r] EXCEPT !.step = "keyAsked"]
             b == [req[r] EXCEPT !.step = "keyRead", !.key = authKey]
  <2>1. req[r] \in Request /\ (req'[r] = a \/ req'[r] = b)
    BY <1>2 DEF FetchPublicKey, PublicKeyAnswered, Go, TypeOK
  <2>2. /\ a.step = "keyAsked" /\ a.cred = req[r].cred
        /\ b.step = "keyRead" /\ b.cred = req[r].cred
    BY <2>1 DEF Request
  <2> QED BY <1>2, <2>1, <2>2
<1> QED BY <1>1, <1>2
        DEF canActivate, RefuseWithoutToken, CheckToken, PublicKeyFails, PublicKeyStored, Verify

LEMMA TokenStep == TypeOK /\ TokenInv /\ [Next]_vars => TokenInv'
<1> SUFFICES ASSUME TypeOK, TokenInv, [Next]_vars, NEW r \in Requests, req'[r] # None,
                    req'[r].step \in {"keyAsked", "keyRead"}
             PROVE  req'[r].cred \in Tokens
  BY DEF TokenInv
<1>1. CASE Elsewhere(r)
  BY <1>1 DEF Elsewhere, TokenInv, InGuard
<1>2. CASE canActivate(r)
  <2>1. req[r] # None
    BY <1>2 DEF canActivate, AdmitWithoutToken, RefuseWithoutToken, CheckToken, FetchPublicKey,
                PublicKeyAnswered, PublicKeyFails, PublicKeyStored
  <2>2. ~Admit(r)
    BY <2>1, AdmitType
  <2> QED BY <1>2, <2>2, GuardSteps
          DEF AdmitWithoutToken, CheckToken, PublicKeyStored, Verify, TokenInv,
              FetchPublicKey, PublicKeyAnswered
<1> QED BY <1>1, <1>2, OnlyTheGuard

LEMMA EntitledStep ==
    ASSUME Inv, TokenInv, [Next]_vars, NEW r \in Requests, ~Admitted(r), Admitted(r)'
    PROVE  Entitled(req[r].route, req[r].cred)
<1>1. TypeOK /\ KeysInv
  BY DEF Inv
<1>2. canActivate(r)
  BY <1>1, OnlyTheGuard DEF Elsewhere, Admitted, InGuard
<1>3. req'[r] # None /\ req'[r].step \notin {"keyAsked", "keyRead"}
  BY DEF Admitted, InGuard
<1>4. CASE AdmitWithoutToken(r)
  <2>1. appConfig # None
    BY <1>1, <1>4 DEF KeysInv, AdmitWithoutToken
  <2> QED BY <1>1, <1>4, <2>1 DEF KeysInv, AdmitWithoutToken, Entitled
<1>5. ASSUME CheckToken(r), publicKey # None, Verified(r, publicKey)
      PROVE  Entitled(req[r].route, req[r].cred)
  BY <1>1, <1>5 DEF CheckToken, Verified, KeysInv, Entitled
<1>6. ASSUME PublicKeyStored(r), Verified(r, req[r].key)
      PROVE  Entitled(req[r].route, req[r].cred)
  BY <1>1, <1>6 DEF PublicKeyStored, Verified, KeysInv, TokenInv, Entitled
<1> QED BY <1>1, <1>2, <1>3, <1>4, <1>5, <1>6, GuardSteps

\* Whoever is let in has shown what the route asks for, of the time of this process,
\* with the keys and the configuration it happens to have, in whatever order it got them.
THEOREM OnlyTheEntitledAreAdmitted == Spec => AdmitsEntitled
<1>1. Init => TokenInv
  BY DEF Init, TokenInv
<1>2. Inv => TypeOK
  BY DEF Inv
<1>3. Inv /\ TokenInv /\ [Next]_vars =>
        [\A r \in Requests :
           ~Admitted(r) /\ Admitted(r)' => Entitled(req[r].route, req[r].cred)]_vars
  BY EntitledStep
<1> QED BY <1>1, <1>2, <1>3, Invariance, TokenStep, PTL DEF Spec, AdmitsEntitled

-----------------------------------------------------------------------------
(***************************************************************************)
(* Requests end: what safety has to say of RequestsEnd.                    *)
(***************************************************************************)

\* Requests that are to end.
Promised(r) == req[r] # None /\ (server => req[r].route # "agent")

\* Only a Lambda starts with a request, and only requests for the agent are with it.
WithAgent == InAgent \cup {"clients", "connect"}
WayInv ==
    \A r \in Requests : req[r] # None =>
        /\ server => req[r].step # "boot"
        /\ req[r].step \in WithAgent => req[r].route = "agent"

\* A bound on what is still to come of a request: on a server the steps ahead of it, those
\* of the clock in the call of RevenueCat among them; in a Lambda the time that is left.
Ahead(q) ==
    CASE q.step = "guard" -> TIMEOUT_MS + 5
      [] q.step = "keyAsked" -> TIMEOUT_MS + 4
      [] q.step = "keyRead" -> TIMEOUT_MS + 3
      [] q.step = "lookup" -> TIMEOUT_MS + 2 - q.waited
      [] OTHER -> 1
ToCome(q) == IF server THEN Ahead(q) ELSE LambdaTimeout - q.age

\* The steps of which Fairness asks that they are taken, and the answer of RevenueCat.
OwnStep(r) ==
    \/ Clock(r)
    \/ server /\ (canActivate(r) \/ LookupAnswered(r) \/ LookupAborted(r) \/ Answer(r))

\* Where a request stands, one of these steps is possible: in a Lambda Pass or Timeout; on
\* a server the step of the guard, the answer, or Pass or LookupAborted.
StepIsPossible(r) ==
    IF server
    THEN \/ req[r].step \in {"guard", "keyAsked", "keyRead", "handle"}
         \/ req[r].step = "lookup" /\ (req[r].waited < TIMEOUT_MS \/ req[r].waited = TIMEOUT_MS)
    ELSE req[r].age < LambdaTimeout \/ req[r].age = LambdaTimeout

CountsDown(r) ==
    /\ ToCome(req[r]) \in Nat
    /\ \/ req'[r] = None
       \/ /\ Promised(r)'
          /\ ToCome(req'[r]) <= ToCome(req[r])
          /\ OwnStep(r) => ToCome(req'[r]) < ToCome(req[r])

\* A request that has gone to another step of its way.
Forward(p, q) ==
    /\ q.route = p.route /\ q.age = p.age /\ q.waited = p.waited
    /\ \/ p.step \in WithAgent /\ q.step \in WithAgent
       \/ p.step = "guard" /\ q.step = "keyAsked"
       \/ p.step = "keyAsked" /\ q.step = "keyRead"
       \/ p.step \in {"guard", "keyRead"} /\ q.step \in Handlers(p.route)
       \/ p.step = "lookup" /\ q.step = "handle"

Older(p, q) ==
    /\ q.route = p.route /\ q.step = p.step
    /\ q.age = (IF server THEN p.age ELSE p.age + 1)
    /\ q.waited \in {p.waited, p.waited + 1}
    /\ server => p.step = "lookup" /\ p.waited < TIMEOUT_MS /\ q.waited = p.waited + 1

LEMMA PassIsOlder ==
    ASSUME TypeOK, NEW r \in Requests, Pass(r)
    PROVE  /\ req[r] \in Request /\ req'[r] # None /\ Older(req[r], req'[r])
           /\ ~server => req[r].age < LambdaTimeout
<1> DEFINE a == [req[r] EXCEPT !.age = @ + 1, !.waited = Waited(r)]
           b == [req[r] EXCEPT !.waited = Waited(r)]
<1>1. req[r] \in Request
  BY DEF Pass, TypeOK
<1>2. /\ a.route = req[r].route /\ a.step = req[r].step
      /\ a.age = req[r].age + 1 /\ a.waited = Waited(r)
      /\ b.route = req[r].route /\ b.step = req[r].step
      /\ b.age = req[r].age /\ b.waited = Waited(r)
  BY <1>1 DEF Request
<1>3. Waited(r) \in {req[r].waited, req[r].waited + 1}
  BY DEF Waited
<1>4. CASE ~server /\ req[r].age < LambdaTimeout /\ req'[r] = a
  <2>1. a # None
    <3>1. a.age \in 0 .. LambdaTimeout /\ a.waited \in 0 .. TIMEOUT_MS
      BY <1>1, <1>2, <1>4, BoundsAreNumbers DEF Request, Waited
    <3>2. a \in Request
      BY <1>1, <1>2, <3>1 DEF Request
    <3> QED BY <3>2, NoneIsNoRequest
  <2> QED BY <1>1, <1>2, <1>3, <1>4, <2>1 DEF Older
<1>5. CASE server /\ req[r].step = "lookup" /\ req[r].waited < TIMEOUT_MS /\ req'[r] = b
  <2>1. b # None
    <3>1. b \in Request
      BY <1>1, <1>5, BoundsAreNumbers DEF Request, Waited
    <3> QED BY <3>1, NoneIsNoRequest
  <2>2. Waited(r) = req[r].waited + 1
    BY <1>5 DEF Waited
  <2> QED BY <1>1, <1>2, <1>5, <2>1, <2>2 DEF Older
<1>6. \/ ~server /\ req[r].age < LambdaTimeout /\ req'[r] = a
      \/ server /\ req[r].step = "lookup" /\ req[r].waited < TIMEOUT_MS /\ req'[r] = b
  BY DEF Pass, TypeOK
<1> QED BY <1>4, <1>5, <1>6

LEMMA GoEffect ==
    ASSUME TypeOK, NEW r \in Requests, req[r] # None, NEW step \in Steps, Go(r, step)
    PROVE  /\ req'[r].step = step /\ req'[r].route = req[r].route
           /\ req'[r].age = req[r].age /\ req'[r].waited = req[r].waited
<1> DEFINE q == [req[r] EXCEPT !.step = step]
<1>1. req[r] \in Request
  BY DEF TypeOK
<1>2. q.step = step /\ q.route = req[r].route /\ q.age = req[r].age /\ q.waited = req[r].waited
  BY <1>1 DEF Request
<1>3. req'[r] = q
  BY DEF Go, TypeOK
<1> QED BY <1>2, <1>3

\* Whatever a request does outside the agent takes it forward or ends it.
LEMMA GuardForward ==
    ASSUME TypeOK, NEW r \in Requests,
           canActivate(r) \/ LookupAnswered(r) \/ LookupAborted(r) \/ Answer(r)
    PROVE  /\ req[r] \in Request /\ req[r] # None
           /\ req'[r] = None \/ Forward(req[r], req'[r])
<1>1. req[r] \in Request /\ req[r] # None
  BY DEF TypeOK, canActivate, AdmitWithoutToken, RefuseWithoutToken, CheckToken, FetchPublicKey,
         PublicKeyAnswered, PublicKeyFails, PublicKeyStored, LookupAnswered, LookupAborted, Answer
<1>2. CASE End(r)
  BY <1>1, <1>2, EndType
<1>3. ASSUME NEW step \in Steps, Go(r, step),
             \/ req[r].step = "guard" /\ step = "keyAsked"
             \/ req[r].step = "lookup" /\ step = "handle"
      PROVE  Forward(req[r], req'[r])
  BY <1>1, <1>3, GoEffect DEF Forward
<1>4. ASSUME Admit(r), req[r].step \in {"guard", "keyRead"} PROVE Forward(req[r], req'[r])
  <2>1. PICK step \in Handlers(req[r].route) :
          req' = [req EXCEPT ![r] = [req[r] EXCEPT !.step = step, !.cred = None, !.key = None]]
    BY <1>4 DEF Admit
  <2> DEFINE q == [req[r] EXCEPT !.step = step, !.cred = None, !.key = None]
  <2>2. q.step = step /\ q.route = req[r].route /\ q.age = req[r].age /\ q.waited = req[r].waited
    BY <1>1 DEF Request
  <2>3. req'[r] = q
    BY <2>1 DEF TypeOK
  <2> QED BY <1>4, <2>2, <2>3 DEF Forward
<1>5. CASE PublicKeyAnswered(r)
  <2> DEFINE q == [req[r] EXCEPT !.step = "keyRead", !.key = authKey]
  <2>1. /\ q.step = "keyRead" /\ q.route = req[r].route
        /\ q.age = req[r].age /\ q.waited = req[r].waited
    BY <1>1 DEF Request
  <2>2. req'[r] = q /\ req[r].step = "keyAsked"
    BY <1>5 DEF PublicKeyAnswered, TypeOK
  <2> QED BY <1>1, <2>1, <2>2 DEF Forward
<1>6. CASE FetchPublicKey(r) \/ LookupAnswered(r) \/ LookupAborted(r)
  <2>1. "keyAsked" \in Steps /\ "handle" \in Steps
    BY DEF Steps, InGuard
  <2> QED BY <1>1, <1>3, <1>6, <2>1 DEF FetchPublicKey, LookupAnswered, LookupAborted
<1>7. CASE \/ AdmitWithoutToken(r) \/ RefuseWithoutToken(r) \/ CheckToken(r)
           \/ PublicKeyFails(r) \/ PublicKeyStored(r) \/ Answer(r)
  <2>1. CASE RefuseWithoutToken(r) \/ PublicKeyFails(r) \/ Answer(r)
    BY <1>2, <2>1 DEF RefuseWithoutToken, PublicKeyFails, Answer
  <2>2. CASE AdmitWithoutToken(r)
    BY <1>1, <1>4, <2>2 DEF AdmitWithoutToken
  <2>3. CASE CheckToken(r) \/ PublicKeyStored(r)
    BY Zenon, <1>1, <1>2, <1>4, <2>3 DEF CheckToken, PublicKeyStored, Verify
  <2> QED BY <1>7, <2>1, <2>2, <2>3
<1> QED BY <1>5, <1>6, <1>7 DEF canActivate

\* A request that is with the agent stays with it or ends.
LEMMA AgentForward ==
    ASSUME TypeOK, NEW r \in Requests, Agent(r)
    PROVE  /\ req[r] \in Request /\ req[r] # None
           /\ req'[r] = None \/ req'[r] = req[r] \/ Forward(req[r], req'[r])
<1>1. req[r] \in Request /\ req[r] # None /\ req[r].step \in WithAgent
  BY DEF TypeOK, Agent, GetClients, ConnectClient, InvokeAgent, AgentFails, AnswerEnds,
         ReturnControl, HandleInvocation, ToolAnswers, Listening, WithAgent, InAgent
<1>2. CASE End(r)
  BY <1>1, <1>2, EndType
<1>3. ASSUME NEW step \in WithAgent, Go(r, step) PROVE Forward(req[r], req'[r])
  BY <1>1, <1>3, GoEffect DEF Forward, WithAgent, InAgent, Steps
<1>4. CASE req' = req
  BY <1>1, <1>4
<1> QED BY Zenon, <1>1, <1>2, <1>3, <1>4
        DEF Agent, GetClients, ConnectClient, AskWith, InvokeAgent, AgentFails, AnswerEnds,
            ReturnControl, HandleInvocation, ToolAnswers, WithAgent, InAgent

\* What any step does to a request, be it its own or not.
Course(r) ==
    \/ req'[r] = None \/ req'[r] = req[r]
    \/ req[r] # None /\ (Forward(req[r], req'[r]) \/ Older(req[r], req'[r]))
    \/ req[r] = None /\ (req'[r].step = "guard" \/ (~server /\ req'[r].step = "boot"))
    \/ /\ req[r] # None /\ req[r].step = "boot" /\ req'[r].step = "guard"
       /\ req'[r].route = req[r].route /\ req'[r].age = req[r].age

LEMMA CourseOfRequests ==
    ASSUME TypeOK, KeysInv, [Next]_vars, NEW r \in Requests
    PROVE  server' = server /\ Course(r)
<1>1. server' = server
  <2>1. ASSUME NEW q \in Requests, Clock(q) \/ LookupAnswered(q) \/ LookupAborted(q) \/ Answer(q)
        PROVE  server' = server
    BY <2>1 DEF Clock, Pass, Timeout, Exit, LookupAnswered, LookupAborted, Answer
  <2>2. ASSUME NEW q \in Requests, canActivate(q) PROVE server' = server
    BY Zenon, <2>2 DEF canActivate, AdmitWithoutToken, RefuseWithoutToken, CheckToken, FetchPublicKey,
                PublicKeyAnswered, PublicKeyFails, PublicKeyStored
  <2>3. ASSUME NEW q \in Requests, Agent(q) PROVE server' = server
    BY <2>3 DEF Agent, GetClients, ConnectClient, InvokeAgent, AgentFails, AnswerEnds,
                ReturnControl, HandleInvocation, ToolAnswers
  <2>4. CASE \/ BootServer \/ FetchAppConfig \/ FetchAppConfigFails \/ Stop \/ Rotate
             \/ PrefetchAnswered \/ PrefetchStored \/ PrefetchFails
    BY <2>4 DEF BootServer, FetchAppConfig, FetchAppConfigFails, Stop, Exit, Rotate,
                PrefetchAnswered, PrefetchStored, PrefetchFails
  <2>5. CASE UNCHANGED vars
    BY <2>5 DEF vars
  <2> QED BY <2>1, <2>2, <2>3, <2>4, <2>5 DEF Next, Invoke, Receive
<1> SUFFICES Course(r)
  BY <1>1
<1>2. CASE UNCHANGED req
  BY <1>2 DEF Course
<1>3. CASE Exit
  BY <1>3 DEF Exit, Course
<1>4. CASE FetchAppConfig
  <2>1. req'[r] = IF req[r] = None THEN None ELSE [req[r] EXCEPT !.step = "guard"]
    BY <1>4 DEF FetchAppConfig
  <2>2. req[r] # None => req[r].step = "boot" /\ req[r] \in Request
    BY <1>4 DEF FetchAppConfig, KeysInv, TypeOK
  <2>3. req[r] \in Request =>
          /\ [req[r] EXCEPT !.step = "guard"].step = "guard"
          /\ [req[r] EXCEPT !.step = "guard"].route = req[r].route
          /\ [req[r] EXCEPT !.step = "guard"].age = req[r].age
    BY DEF Request
  <2> QED BY <2>1, <2>2, <2>3 DEF Course
<1>5. ASSUME NEW q \in Requests, NEW route \in Routes, NEW cred \in CredentialsFor(route),
             Invoke(q, route, cred) \/ Receive(q, route, cred)
      PROVE  Course(r)
  <2>1. PICK step \in {"boot", "guard"} :
          /\ req' = [req EXCEPT ![q] = New(route, cred, step)]
          /\ req[q] = None
          /\ server => step = "guard"
    BY <1>5 DEF Invoke, Receive
  <2>2. New(route, cred, step).step = step
    BY NewType DEF Steps, InGuard
  <2>3. CASE q = r
    <3>1. req'[r] = New(route, cred, step) /\ req[r] = None
      BY <2>1, <2>3 DEF TypeOK
    <3> QED BY <2>1, <2>2, <3>1 DEF Course
  <2>4. CASE q # r
    BY <2>1, <2>4 DEF TypeOK, Course
  <2> QED BY <2>3, <2>4
<1>6. ASSUME NEW q \in Requests,
             \/ Pass(q) \/ canActivate(q)
             \/ LookupAnswered(q) \/ LookupAborted(q) \/ Answer(q) \/ Agent(q)
      PROVE  Course(r)
  <2>1. CASE q = r
    <3>1. CASE Pass(q)
      BY <2>1, <3>1, PassIsOlder DEF Pass, Course
    <3>2. CASE canActivate(q) \/ LookupAnswered(q) \/ LookupAborted(q) \/ Answer(q)
      BY <2>1, <3>2, GuardForward DEF Course
    <3>3. CASE Agent(q)
      BY <2>1, <3>3, AgentForward DEF Course
    <3> QED BY <1>6, <3>1, <3>2, <3>3
  <2>2. CASE q # r
    BY <1>6, <2>2, OthersStay DEF Course
  <2> QED BY <2>1, <2>2
<1>7. CASE BootServer \/ Rotate \/ PrefetchAnswered \/ PrefetchStored \/ PrefetchFails
  BY <1>2, <1>7 DEF BootServer, Rotate, PrefetchAnswered, PrefetchStored, PrefetchFails
<1>8. CASE UNCHANGED vars
  BY <1>2, <1>8 DEF vars
<1> QED BY <1>3, <1>4, <1>5, <1>6, <1>7, <1>8
        DEF Next, Clock, FetchAppConfigFails, Stop, Timeout

LEMMA WayStep == TypeOK /\ KeysInv /\ WayInv /\ [Next]_vars => WayInv'
<1> SUFFICES ASSUME TypeOK, KeysInv, WayInv, [Next]_vars, NEW r \in Requests, req'[r] # None
             PROVE  /\ server' => req'[r].step # "boot"
                    /\ req'[r].step \in WithAgent => req'[r].route = "agent"
  BY DEF WayInv
<1>1. server' = server /\ Course(r)
  BY CourseOfRequests
<1>2. CASE req'[r] = req[r]
  BY <1>1, <1>2 DEF WayInv
<1>3. CASE req[r] # None /\ Forward(req[r], req'[r])
  BY <1>1, <1>3 DEF WayInv, Forward, WithAgent, InAgent, Handlers
<1>4. CASE req[r] # None /\ Older(req[r], req'[r])
  BY <1>1, <1>4 DEF WayInv, Older
<1>5. CASE req'[r].step = "guard" \/ (~server /\ req'[r].step = "boot")
  BY <1>1, <1>5 DEF WithAgent, InAgent
<1>6. \/ req'[r] = req[r]
      \/ req[r] # None /\ Forward(req[r], req'[r])
      \/ req[r] # None /\ Older(req[r], req'[r])
      \/ req'[r].step = "guard" \/ (~server /\ req'[r].step = "boot")
  BY <1>1 DEF Course
<1> QED BY <1>2, <1>3, <1>4, <1>5, <1>6

\* Where a request that is to end can be on a server, and the bound is a number.
LEMMA Standing ==
    ASSUME TypeOK, WayInv, NEW r \in Requests, Promised(r)
    PROVE  /\ req[r] \in Request /\ req[r].age \in 0 .. LambdaTimeout
           /\ req[r].waited \in 0 .. TIMEOUT_MS
           /\ server => req[r].step \in {"guard", "keyAsked", "keyRead", "lookup", "handle"}
           /\ ToCome(req[r]) \in Nat
<1>1. /\ req[r] \in Request /\ req[r].age \in 0 .. LambdaTimeout
      /\ req[r].waited \in 0 .. TIMEOUT_MS /\ req[r].step \in Steps
  BY DEF Promised, TypeOK, Request
<1>2. server => req[r].step \in {"guard", "keyAsked", "keyRead", "lookup", "handle"}
  BY <1>1 DEF Promised, WayInv, Steps, InGuard, WithAgent, InAgent
<1>3. ToCome(req[r]) \in Nat
  BY <1>1, BoundsAreNumbers DEF ToCome, Ahead
<1> QED BY <1>1, <1>2, <1>3

LEMMA ForwardIsLess ==
    ASSUME TypeOK, WayInv, NEW r \in Requests, Promised(r), NEW q, Forward(req[r], q)
    PROVE  /\ server => ToCome(q) < ToCome(req[r])
           /\ ~server => ToCome(q) = ToCome(req[r])
<1>1. /\ req[r].waited \in 0 .. TIMEOUT_MS /\ q.waited = req[r].waited
      /\ server => /\ req[r].step \in {"guard", "keyAsked", "keyRead", "lookup", "handle"}
                   /\ req[r].route # "agent"
  BY Standing DEF Forward, Promised
<1>2. CASE ~server
  BY <1>2 DEF Forward, ToCome
<1>3. CASE server
  <2>1. \/ req[r].step = "guard" /\ q.step = "keyAsked"
        \/ req[r].step = "keyAsked" /\ q.step = "keyRead"
        \/ req[r].step \in {"guard", "keyRead"} /\ q.step \in {"lookup", "handle"}
        \/ req[r].step = "lookup" /\ q.step = "handle"
    BY <1>1, <1>3 DEF Forward, Handlers, WithAgent, InAgent
  <2> QED BY <1>1, <1>3, <2>1, BoundsAreNumbers DEF ToCome, Ahead
<1> QED BY <1>2, <1>3

LEMMA OlderIsLess ==
    ASSUME TypeOK, WayInv, NEW r \in Requests, Promised(r), NEW q, Older(req[r], q)
    PROVE  ToCome(q) < ToCome(req[r])
<1>1. req[r].waited \in 0 .. TIMEOUT_MS /\ req[r].age \in 0 .. LambdaTimeout
  BY Standing
<1>2. CASE ~server
  BY <1>1, <1>2, BoundsAreNumbers DEF Older, ToCome
<1>3. CASE server
  BY <1>1, <1>3, BoundsAreNumbers DEF Older, ToCome, Ahead
<1> QED BY <1>2, <1>3

LEMMA CountingDown ==
    ASSUME TypeOK, KeysInv, WayInv, [Next]_vars, NEW r \in Requests, Promised(r)
    PROVE  CountsDown(r)
<1>1. server' = server /\ Course(r) /\ req[r] # None
  BY CourseOfRequests DEF Promised
<1>2. ToCome(req[r]) \in Nat
  BY Standing
<1>3. ASSUME req'[r] # None PROVE Promised(r)' /\ ToCome(req'[r]) <= ToCome(req[r])
  <2>1. CASE req'[r] = req[r]
    BY <1>1, <1>2, <2>1 DEF Promised
  <2>2. CASE Forward(req[r], req'[r])
    <3>1. Promised(r)'
      BY <1>1, <1>3, <2>2 DEF Forward, Promised
    <3>2. server \/ ~server
      OBVIOUS
    <3>3. ToCome(req'[r]) \in Int
      BY <1>2, <2>2, Standing, BoundsAreNumbers DEF ToCome, Ahead, Forward
    <3> QED BY <1>2, <2>2, <3>1, <3>2, <3>3, ForwardIsLess
  <2>3. CASE Older(req[r], req'[r])
    <3>1. Promised(r)'
      BY <1>1, <1>3, <2>3 DEF Older, Promised
    <3>2. ToCome(req'[r]) \in Int
      BY <1>2, <2>3, Standing, BoundsAreNumbers DEF ToCome, Ahead, Older
    <3> QED BY <1>2, <2>3, <3>1, <3>2, OlderIsLess
  <2>4. CASE req[r].step = "boot" /\ req'[r].route = req[r].route /\ req'[r].age = req[r].age
    <3>1. ~server
      BY <1>1, <2>4 DEF WayInv
    <3> QED BY <1>1, <1>2, <1>3, <2>4, <3>1 DEF Promised, ToCome
  <2> QED BY <1>1, <1>3, <2>1, <2>2, <2>3, <2>4 DEF Course
<1>4. ASSUME req'[r] # None, OwnStep(r) PROVE ToCome(req'[r]) < ToCome(req[r])
  <2>1. CASE Pass(r)
    BY <2>1, PassIsOlder, OlderIsLess
  <2>2. CASE Timeout(r)
    BY <1>4, <2>2 DEF Timeout, Exit
  <2>3. CASE server /\ (canActivate(r) \/ LookupAnswered(r) \/ LookupAborted(r) \/ Answer(r))
    BY <1>4, <2>3, GuardForward, ForwardIsLess
  <2> QED BY <1>4, <2>1, <2>2, <2>3 DEF OwnStep, Clock
<1> QED BY <1>2, <1>3, <1>4 DEF CountsDown

LEMMA OnTheirWay == Spec => []WayInv
<1>1. Init => WayInv
  BY DEF Init, WayInv
<1>2. Inv => TypeOK /\ KeysInv
  BY DEF Inv
<1> QED BY <1>1, <1>2, Invariance, WayStep, PTL DEF Spec

\* A request that is to end is never stuck: whatever the others do and wherever it has got
\* to, one of its own steps can be taken, with RevenueCat and the agent silent for ever.
THEOREM RequestsCanGoOn == Spec => [](\A r \in Requests : Promised(r) => StepIsPossible(r))
<1>1. TypeOK /\ WayInv => \A r \in Requests : Promised(r) => StepIsPossible(r)
  <2> SUFFICES ASSUME TypeOK, WayInv, NEW r \in Requests, Promised(r)
               PROVE  StepIsPossible(r)
    OBVIOUS
  <2> QED BY Standing, BoundsAreNumbers DEF StepIsPossible
<1> QED BY <1>1, TypeCorrect, OnTheirWay, PTL

\* Each of its own steps brings a request nearer to its end, and no other step, of its own
\* or of anybody, takes it away from it: what RequestsEnd needs of safety.
THEOREM RequestsCountDown ==
    Spec => [][\A r \in Requests : Promised(r) => CountsDown(r)]_vars
<1>1. TypeOK /\ KeysInv /\ WayInv /\ [Next]_vars =>
        [\A r \in Requests : Promised(r) => CountsDown(r)]_vars
  BY CountingDown
<1>2. Inv => TypeOK /\ KeysInv
  BY DEF Inv
<1> QED BY <1>1, <1>2, Invariance, OnTheirWay, PTL DEF Spec

=============================================================================
