--------------------------------- MODULE Api ----------------------------------
(***************************************************************************)
(* A request to the API from end to end: callers in another process get a  *)
(* token (uaaclient/token_fetcher.go), hand it to the client they share    *)
(* (client.go) and post batches of routes; the server checks the token     *)
(* against the UAA key it caches (uaaclient/token_validator.go), validates *)
(* the batch and saves route after route (handlers/routes_handler.go).     *)
(*                                                                         *)
(* UAA may change its signing key at any time.  A key or a token is known  *)
(* by the number of the signing key.  Answers of UAA and the database may  *)
(* fail, a caller may give up on a request that the server still works on, *)
(* and the server may restart.                                             *)
(***************************************************************************)
EXTENDS Integers, Sequences, FiniteSets

CONSTANTS
  Callers,       \* goroutines that share a token fetcher and a client
  MaxHandlers,   \* bound: requests the server works on at a time
  MaxOthers,     \* bound: those of them that others sent
  Batch,         \* Batch[c]: the routes caller c registers
  Others,        \* requests others send: [kind, tok, batch]
  MaxTTL,        \* maxTTL of the handler
  MaxKey,        \* bound: signing keys UAA uses
  MaxFaults,     \* bound: failed answers, timeouts and restarts
  None

VARIABLES
  uaaKey,        \* the key UAA signs with
  publicKey,     \* uaaPublicKey of the token validator
  mutex,         \* cachedTokenMutex: the caller that holds it
  cachedToken,   \* cachedToken of the token fetcher until its refetchTokenTime
  authToken,     \* authToken of the client
  caller,        \* caller[c]: where caller c is
  handler,       \* handler[h]: the request h works on
  faults,        \* faults so far
  devMode        \* which of "fetcher" and "validator" is the no-op one

uaaVars    == <<uaaKey, faults>>
fetchVars  == <<mutex, cachedToken>>
serverVars == <<publicKey, handler>>
vars == <<uaaVars, publicKey, fetchVars, authToken, caller, handler, devMode>>

-----------------------------------------------------------------------------
\* Request goroutines; a new request gets the lowest number that is free.
Handlers == 1..MaxHandlers

\* A token: the key it is signed with (0 is none of UAA's), what else is wrong
\* with it, its scope claim or None when that is not there.
Token == [key: 0..MaxKey,
          errs: SUBSET {"format", "method", "issuer", "expired", "issuedAt"},
          scopes: SUBSET {"routing.routes.read", "routing.routes.write"} \cup {None}]

\* What UAA issues to the callers.
Issued == [key |-> uaaKey, errs |-> {},
           scopes |-> {"routing.routes.read", "routing.routes.write"}]

\* The empty token of noOpTokenFetcher.
NoOpToken == [key |-> 0, errs |-> {"format"}, scopes |-> {}]

\* Urls: "bad" has a query, a fragment or characters that need escaping.
Route == [route: STRING \cup {None, "bad"}, port: Nat, ip: STRING \cup {None},
          service: {None, "https", "http", "bad"}, ttl: Int \cup {None}]

ASSUME ConstantsAssumption ==
  /\ Batch \in [Callers -> Seq(Route)]
  /\ Others \subseteq [kind: {"list", "upsert", "delete"}, tok: Token, batch: Seq(Route)]
  /\ \A o \in Others : o.kind = "list" => o.batch = <<>>   \* List reads no body
  /\ MaxTTL \in Nat \ {0}
  /\ MaxKey \in Nat \ {0}
  /\ MaxFaults \in Nat
  /\ MaxHandlers \in Nat
  /\ MaxOthers \in Nat

ASSUME NoneAssumption == None \notin {"ok", "signature"}

\* No request; a request that was let in no longer has a token.  "since" records
\* the key UAA used when the request arrived.
Idle == [pc |-> "idle", kind |-> None, batch |-> <<>>, tok |-> None, key |-> None,
         attempt |-> 1, pos |-> 1, since |-> None, answer |-> None]

\* NewTokenValidator fetches UAA's key before the server serves; the no-op
\* validator has none.
NewTokenValidator(mode) == IF "validator" \in mode THEN None ELSE uaaKey

Init ==
  /\ devMode \in SUBSET {"fetcher", "validator"}
  /\ uaaKey = 1
  /\ publicKey = NewTokenValidator(devMode)
  /\ mutex = None
  /\ cachedToken = None
  /\ authToken = None
  /\ caller = [c \in Callers |-> [pc |-> "idle", force |-> FALSE,
                                  tok |-> None, on |-> None]]
  /\ handler = [h \in Handlers |-> Idle]
  /\ faults = 0

Fault ==
  /\ faults < MaxFaults
  /\ faults' = faults + 1
  /\ UNCHANGED uaaKey

-----------------------------------------------------------------------------
(* The token fetcher and the client.  Definitions named ...Faulty are       *)
(* variants with a plausible mistake; no specification uses them.           *)

Goto(c, l) == caller' = [caller EXCEPT ![c].pc = l]

\* FetchToken returns t; on to SetToken.  Forced or not is of no account any more.
GotToken(c, t) ==
  caller' = [caller EXCEPT ![c].pc = "set", ![c].tok = t, ![c].force = FALSE]

canReturnCachedToken(c) == ~caller[c].force /\ cachedToken # None

\* NewTokenFetcher: the no-op one needs neither UAA nor the mutex.
NewTokenFetcher == IF "fetcher" \in devMode THEN "noOpTokenFetcher" ELSE "tokenFetcher"

\* noOpTokenFetcher.FetchToken.
FetchNoOp(c) ==
  /\ NewTokenFetcher = "noOpTokenFetcher"
  /\ caller[c].pc = "idle"
  /\ GotToken(c, NoOpToken)
  /\ UNCHANGED <<uaaVars, serverVars, fetchVars, authToken>>

\* FetchToken with the token in the cache.
FetchCached(c) ==
  /\ NewTokenFetcher = "tokenFetcher"
  /\ caller[c].pc = "idle"
  /\ mutex = None
  /\ canReturnCachedToken(c)
  /\ GotToken(c, cachedToken)
  /\ UNCHANGED <<uaaVars, serverVars, fetchVars, authToken>>

\* FetchToken asks UAA and keeps the mutex meanwhile, its retries included.
FetchToken(c) ==
  /\ NewTokenFetcher = "tokenFetcher"
  /\ caller[c].pc = "idle"
  /\ mutex = None
  /\ ~canReturnCachedToken(c)
  /\ mutex' = c
  /\ Goto(c, "fetch")
  /\ UNCHANGED <<uaaVars, serverVars, cachedToken, authToken>>

\* UAA answers: updateCachedToken.
TokenArrives(c) ==
  /\ caller[c].pc = "fetch"
  /\ cachedToken' = Issued
  /\ mutex' = None
  /\ GotToken(c, Issued)
  /\ UNCHANGED <<uaaVars, serverVars, authToken>>

\* Faulty: the mutex is not released when FetchToken gives up.
TokenFailsKeepsMutexFaulty(c) ==
  /\ caller[c].pc = "fetch"
  /\ Fault
  /\ Goto(c, "idle")
  /\ UNCHANGED <<serverVars, fetchVars, authToken>>

\* UAA fails on every try; a try that fails before one that does not changes
\* nothing, for the mutex is held in between.
TokenFails(c) ==
  /\ caller[c].pc = "fetch"
  /\ Fault
  /\ Goto(c, "idle")
  /\ mutex' = None
  /\ UNCHANGED <<serverVars, cachedToken, authToken>>

SetToken(c) ==
  /\ caller[c].pc = "set"
  /\ authToken' = caller[c].tok
  /\ caller' = [caller EXCEPT ![c].pc = "send", ![c].tok = None]
  /\ UNCHANGED <<uaaVars, serverVars, fetchVars>>

\* A request reaches the server: ValidateToken starts with the cached key.
Arrive(h, kind, t, b) ==
  /\ handler[h].pc = "idle"
  /\ \A g \in 1..(h - 1) : handler[g].pc # "idle"
  /\ handler' = [handler EXCEPT ![h] =
       [Idle EXCEPT !.pc = "parse", !.kind = kind, !.batch = b, !.tok = t,
                    !.key = publicKey, !.since = uaaKey]]

\* createRequest puts in the token the client has now, which another caller may
\* have set.
Send(c, h) ==
  /\ caller[c].pc = "send"
  /\ Arrive(h, "upsert", authToken, Batch[c])
  /\ caller' = [caller EXCEPT ![c].pc = "wait", ![c].on = h]
  /\ UNCHANGED <<uaaVars, publicKey, fetchVars, authToken>>

\* The status the handlers answer with; a handler that panics answers nothing and
\* net/http closes the connection.
Status(a) ==
  CASE a = "panic" -> 0
    [] a \in {"signature", "invalid", "scope", "noKey"} -> 401
    [] a = "badRequest" -> 400
    [] a = "unavailable" -> 503
    [] OTHER -> 200

\* Client.do.  What FetchToken's "force" is for is up to the callers, which are
\* not in this repository: they force a new token after "unauthorized" and after
\* nothing else.
Receive(c) ==
  /\ caller[c].pc = "wait"
  /\ handler[caller[c].on].pc = "done"
  /\ caller' = [caller EXCEPT ![c].pc = "idle", ![c].on = None,
       ![c].force = Status(handler[caller[c].on].answer) = 401]
  /\ handler' = [handler EXCEPT ![caller[c].on] = Idle]
  /\ UNCHANGED <<uaaVars, publicKey, fetchVars, authToken>>

\* The caller's HTTP client gives up; the server does not notice.
Timeout(c) ==
  /\ caller[c].pc = "wait"
  /\ Fault
  /\ caller' = [caller EXCEPT ![c].pc = "idle", ![c].on = None, ![c].force = FALSE]
  /\ UNCHANGED <<serverVars, fetchVars, authToken>>

\* The server works on a request of somebody else.
FromOther(r) == \E o \in Others : r.kind = o.kind /\ r.batch = o.batch

\* A request of somebody else.
OtherRequest(h, o) ==
  /\ o.tok.key <= uaaKey
  /\ Cardinality({g \in Handlers : FromOther(handler[g])}) < MaxOthers
  /\ Arrive(h, o.kind, o.tok, o.batch)
  /\ UNCHANGED <<uaaVars, publicKey, fetchVars, authToken, caller>>

-----------------------------------------------------------------------------
(* The server: which batches the routes handler takes.                      *)

SetDefaults(r) == [r EXCEPT !.ttl = IF @ = None THEN MaxTTL ELSE @]

validateRouteServiceUrl(url) == url \in {None, "https"}

requiredValidation(r) ==
  /\ r.route \notin {None, "bad"}
  /\ validateRouteServiceUrl(r.service)
  /\ r.port > 0
  /\ r.ip # None

\* Faulty: only the first route is looked at.
ValidateFirstFaulty(kind, batch) ==
  batch # <<>> => /\ requiredValidation(batch[1])
                  /\ SetDefaults(batch[1]).ttl \in 1..MaxTTL

\* ValidateCreate and ValidateDelete, of the whole batch.  A body that cannot be
\* decoded is answered like an invalid batch.
Valid(kind, batch) ==
  \A i \in DOMAIN batch :
    /\ requiredValidation(batch[i])
    /\ kind = "upsert" => SetDefaults(batch[i]).ttl \in 1..MaxTTL

-----------------------------------------------------------------------------
(* The server: ValidateToken, then List, Upsert or Delete.                  *)

clientVars == <<fetchVars, authToken, caller>>

\* The handler writes its response.
Answer(h, a) == handler' = [handler EXCEPT ![h].pc = "done", ![h].answer = a]

\* Nobody waits for the response, or nobody does any more.
Finish(h, r) ==
  /\ r.pc = "done"
  /\ \A c \in Callers : caller[c].on # h
  /\ handler' = [handler EXCEPT ![h] = Idle]
  /\ UNCHANGED <<uaaVars, publicKey, clientVars>>

Desired(kind) == IF kind = "list" THEN "routing.routes.read" ELSE "routing.routes.write"

checkTokenFormat(t) == "format" \notin t.errs

isValidSigningMethod(t) == "method" \notin t.errs

isValidIssuer(t) == "issuer" \notin t.errs

\* An error the loop does not pass over: it ignores a token issued in the future,
\* even one that has expired too, for matchesError looks at one bit.
Refusable(t) == "expired" \in t.errs /\ "issuedAt" \notin t.errs

\* noOpTokenValidator.ValidateToken lets every token in.
noOpTokenValidator == "validator" \in devMode

\* What a pass of the loop and the check of the scopes say of r's token.  The
\* function that gives jwt.Parse the key runs before the signature is looked at;
\* extractPermissionsFromToken panics on a token without the scope claim.
Verdict(r) ==
  IF noOpTokenValidator THEN "ok"
  ELSE IF ~(checkTokenFormat(r.tok) /\ isValidSigningMethod(r.tok) /\ isValidIssuer(r.tok))
    THEN "invalid"
  ELSE IF r.key # r.tok.key THEN "signature"
  ELSE IF Refusable(r.tok) THEN "invalid"
  ELSE IF r.tok.scopes = None THEN "panic"
  ELSE IF Desired(r.kind) \notin r.tok.scopes THEN "scope"
  ELSE "ok"

\* One pass of the loop for r, the request of h, with the key that was cached or
\* has just been fetched.  A batch is validated before any of it is written.
Parse(h, r) ==
  /\ r.pc = "parse"
  /\ \/ Verdict(r) = "signature" /\ r.attempt = 1
          /\ handler' = [handler EXCEPT ![h].pc = "fetchKey"]
     \/ Verdict(r) # "ok" /\ (Verdict(r) = "signature" => r.attempt = 2)
          /\ Answer(h, Verdict(r))
     \/ Verdict(r) = "ok" /\ r.kind # "list" /\ ~Valid(r.kind, r.batch)
          /\ Answer(h, "badRequest")
     \/ /\ Verdict(r) = "ok"
        /\ r.kind # "list" => Valid(r.kind, r.batch)
        /\ handler' = [handler EXCEPT ![h] =
             [Idle EXCEPT !.pc = "write", !.kind = r.kind, !.batch = r.batch]]
  /\ UNCHANGED <<uaaVars, publicKey, clientVars>>

\* Faulty: the retry uses the cached key.
FetchKeyCachedFaulty(h, r) ==
  /\ r.pc = "fetchKey"
  /\ handler' = [handler EXCEPT ![h].pc = "storeKey", ![h].key = publicKey]
  /\ UNCHANGED <<uaaVars, publicKey, clientVars>>

\* getUaaTokenKey: UAA answers with its key.
FetchKey(h, r) ==
  /\ r.pc = "fetchKey"
  /\ handler' = [handler EXCEPT ![h].pc = "storeKey", ![h].key = uaaKey]
  /\ UNCHANGED <<uaaVars, publicKey, clientVars>>

FetchKeyFails(h, r) ==
  /\ r.pc = "fetchKey"
  /\ Fault
  /\ Answer(h, "noKey")
  /\ UNCHANGED <<publicKey, clientVars>>

\* Faulty: the key is not kept.
StoreKeyForgetsFaulty(h, r) ==
  /\ r.pc = "storeKey"
  /\ handler' = [handler EXCEPT ![h].pc = "parse", ![h].attempt = 2]
  /\ UNCHANGED <<uaaVars, publicKey, clientVars>>

\* The key is cached, under the lock, over whatever was cached meanwhile.
StoreKey(h, r) ==
  /\ r.pc = "storeKey"
  /\ publicKey' = r.key
  /\ handler' = [handler EXCEPT ![h].pc = "parse", ![h].attempt = 2]
  /\ UNCHANGED <<uaaVars, clientVars>>

\* ReadRoutes of a list, or the next turn of the loop over the batch: SaveRoute,
\* or DeleteRoute with KeyNotFound ignored.  A list counts as an empty batch.
WriteRoute(h, r) ==
  /\ r.pc = "write"
  /\ handler' = [handler EXCEPT
       ![h].pos = IF r.batch = <<>> THEN @ ELSE @ + 1,
       ![h].pc = IF r.pos < Len(r.batch) THEN "write" ELSE "done",
       ![h].answer = IF r.pos < Len(r.batch) THEN None ELSE "ok"]
  /\ UNCHANGED <<uaaVars, publicKey, clientVars>>

\* The database fails: what was written before stays.
WriteFails(h, r) ==
  /\ r.pc = "write"
  /\ r.kind = "list" \/ r.batch # <<>>
  /\ Fault
  /\ Answer(h, "unavailable")
  /\ UNCHANGED <<publicKey, clientVars>>

\* The server restarts.
Restart ==
  /\ Fault
  /\ publicKey' = NewTokenValidator(devMode)
  /\ handler' = [h \in Handlers |-> IF handler[h].pc = "idle" THEN Idle
                      ELSE [Idle EXCEPT !.pc = "done", !.answer = "unavailable"]]
  /\ UNCHANGED clientVars

-----------------------------------------------------------------------------
\* UAA changes its key.
Rotate ==
  /\ uaaKey < MaxKey
  /\ uaaKey' = uaaKey + 1
  /\ UNCHANGED <<faults, serverVars, clientVars>>

\* The refetch time of the cached token passes.
TokenDue ==
  /\ cachedToken # None
  /\ cachedToken' = None
  /\ UNCHANGED <<uaaVars, serverVars, mutex, authToken, caller>>

CallerStep(c) ==
  \/ FetchNoOp(c) \/ FetchCached(c) \/ FetchToken(c) \/ TokenArrives(c)
  \/ SetToken(c)
  \/ (\E h \in Handlers : Send(c, h)) \/ Receive(c)

HandlerStep(h, r) ==
  \/ Parse(h, r) \/ FetchKey(h, r) \/ StoreKey(h, r)
  \/ WriteRoute(h, r) \/ Finish(h, r)

\* A process keeps its mode.
Next ==
  /\ UNCHANGED devMode
  /\ \/ \E c \in Callers : CallerStep(c) \/ TokenFails(c) \/ Timeout(c)
     \/ \E h \in Handlers :
          \/ HandlerStep(h, handler[h])
          \/ FetchKeyFails(h, handler[h]) \/ WriteFails(h, handler[h])
          \/ \E o \in Others : OtherRequest(h, o)
     \/ Rotate \/ TokenDue \/ Restart

Spec == Init /\ [][Next]_vars

\* Go's mutexes and scheduler starve nobody, the server accepts every caller's
\* requests in the end, and time passes.
FairSpec ==
  /\ Spec
  /\ \A c \in Callers : SF_vars(CallerStep(c) /\ UNCHANGED devMode)
  /\ \A h \in Handlers : WF_vars(HandlerStep(h, handler[h]) /\ UNCHANGED devMode)
  /\ WF_vars(TokenDue /\ UNCHANGED devMode)

-----------------------------------------------------------------------------
(* Properties.                                                              *)

\* ValidateToken: a token is refused for its signature only if UAA did not sign
\* it with its key of the moment or changed the key during the request, however
\* stale the cached key was and whatever other requests store meanwhile.
SignatureRefusalJustified ==
  \A h \in Handlers :
    handler[h].answer = "signature" =>
      handler[h].since # uaaKey \/ handler[h].tok.key # uaaKey

\* Upsert, Delete: only a batch the database failed on is written in part; one
\* answered "ok" is written to its end, any other not at all.
AnswerTellsWrites ==
  \A h \in Handlers :
    LET r == handler[h]
    IN /\ r.answer = "ok" /\ r.kind # "list" => r.pos = Len(r.batch) + 1
       /\ r.answer # None /\ Status(r.answer) \in {400, 401} => r.pos = 1
       /\ r.pc = "write" => \A i \in DOMAIN r.batch : Valid(r.kind, <<r.batch[i]>>)

\* getUaaTokenKey: a key that a slow request stored over a newer one is not
\* kept: once UAA no longer changes its key, the cache comes to hold it for good.
\* (Callers with the no-op fetcher never make a request that needs the key.)
CachedKeyHeals == <>[](devMode # {} \/ publicKey = uaaKey)

\* FetchToken, SetToken, ValidateToken and Upsert together: every caller goes on
\* registering its batch, past key changes, failures, timeouts and tokens other
\* callers set, unless only the callers are in devMode.
GetsThrough ==
  \A c \in Callers :
    []<>(\/ devMode = {"fetcher"}
         \/ /\ caller[c].pc = "wait"
            /\ handler[caller[c].on].answer = "ok")

=============================================================================
