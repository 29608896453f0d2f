------------------------------ MODULE ApiProofs -------------------------------
(***************************************************************************)
(* The server refuses a token for its signature only with cause            *)
(* (SignatureRefusalJustified), and its answer tells what it has written   *)
(* (AnswerTellsWrites), for any number of callers and requests and any     *)
(* sequence of key changes, failures and restarts.  For the first the      *)
(* invariant adds that the key of a retry is UAA's unless UAA changed it   *)
(* since the request arrived; for the second, how far a handler can be in  *)
(* its batch at each place.                                                *)
(***************************************************************************)
EXTENDS Api, TLAPS

Fields == DOMAIN Idle

\* The shape of the handlers' records.
Shaped ==
  /\ uaaKey \in Nat
  /\ handler = [h \in Handlers |-> handler[h]]
  /\ \A h \in Handlers : handler[h] = [f \in Fields |-> handler[h][f]]

\* A request whose token is being checked.
Checking(r) == r.pc \in {"parse", "fetchKey", "storeKey"} \/ r.answer = "signature"

\* The key r is checked against was fetched for it.
Retry(r) == r.pc = "storeKey" \/ r.answer = "signature" \/ (r.pc = "parse" /\ r.attempt = 2)

KeyFresh(r) ==
  /\ Checking(r) => r.since \in Nat /\ r.since <= uaaKey
  /\ Retry(r) /\ r.since = uaaKey => r.key = uaaKey
  /\ r.answer = "signature" => r.pc = "done" /\ r.key # r.tok.key

IInv == Shaped /\ \A h \in Handlers : KeyFresh(handler[h])

-----------------------------------------------------------------------------
\* Idle handlers: no token is being checked.
LEMMA IdleFresh ==
  /\ Fields = {"pc", "kind", "batch", "tok", "key", "attempt", "pos", "since", "answer"}
  /\ Idle.pc = "idle" /\ Idle.attempt = 1 /\ Idle.answer # "signature"
BY NoneAssumption DEF Fields, Idle

LEMMA InitFresh == Init => IInv
<1> SUFFICES ASSUME Init PROVE IInv
  OBVIOUS
<1>1. Shaped
  BY DEF Init, Shaped, Idle, Fields
<1>2. ASSUME NEW h \in Handlers PROVE KeyFresh(handler[h])
  BY IdleFresh DEF Init, KeyFresh, Checking, Retry
<1> QED BY <1>1, <1>2 DEF IInv

\* Steps that leave the handlers and UAA's key alone.
LEMMA QuietFresh ==
  ASSUME IInv, UNCHANGED <<uaaKey, handler>>
  PROVE  IInv'
BY DEF IInv, Shaped, KeyFresh, Checking, Retry

\* One handler changes, and the new record is in order.
LEMMA OneHandlerFresh ==
  ASSUME IInv, uaaKey' = uaaKey, NEW h \in Handlers, NEW new,
         handler' = [handler EXCEPT ![h] = new],
         new = [f \in Fields |-> new[f]],
         KeyFresh(new)
  PROVE  IInv'
<1>1. \A g \in Handlers : handler'[g] = IF g = h THEN new ELSE handler[g]
  BY DEF IInv, Shaped
<1>2. handler' = [g \in Handlers |-> handler'[g]]
  BY DEF IInv, Shaped
<1>3. Shaped'
  BY <1>1, <1>2 DEF IInv, Shaped
<1>4. ASSUME NEW g \in Handlers PROVE KeyFresh(handler[g])'
  <2>1. KeyFresh(handler[g])
    BY DEF IInv
  <2> QED BY <1>1, <2>1 DEF KeyFresh, Checking, Retry
<1> QED BY <1>3, <1>4 DEF IInv

\* A response other than a refusal for the signature.
LEMMA AnswerFresh ==
  ASSUME IInv, uaaKey' = uaaKey, NEW h \in Handlers, NEW a, a # "signature", Answer(h, a)
  PROVE  IInv'
<1> DEFINE new == [handler[h] EXCEPT !.pc = "done", !.answer = a]
<1>1. handler' = [handler EXCEPT ![h] = new]
  BY Zenon DEF Answer
<1>2. new = [f \in Fields |-> new[f]] /\ new.pc = "done" /\ new.answer = a
  BY IdleFresh, Zenon DEF IInv, Shaped
<1>3. KeyFresh(new)
  BY <1>2 DEF KeyFresh, Checking, Retry
<1> HIDE DEF new
<1> QED BY <1>1, <1>2, <1>3, OneHandlerFresh

\* A request arrives.
LEMMA ArriveFresh ==
  ASSUME IInv, uaaKey' = uaaKey, NEW h \in Handlers, NEW kind, NEW t, NEW b,
         Arrive(h, kind, t, b)
  PROVE  IInv'
<1> DEFINE new == [Idle EXCEPT !.pc = "parse", !.kind = kind, !.batch = b, !.tok = t,
                               !.key = publicKey, !.since = uaaKey]
<1>1. handler' = [handler EXCEPT ![h] = new]
  BY DEF Arrive
<1>2. /\ new = [f \in Fields |-> new[f]]
      /\ new.pc = "parse" /\ new.attempt = 1 /\ new.answer # "signature"
      /\ new.since = uaaKey
  BY IdleFresh, NoneAssumption, ZenonT(60) DEF Idle
<1>3. KeyFresh(new)
  BY <1>2 DEF KeyFresh, Checking, Retry, IInv, Shaped
<1> HIDE DEF new
<1> QED BY <1>1, <1>2, <1>3, OneHandlerFresh

\* A handler becomes idle.
LEMMA ClearedFresh ==
  ASSUME IInv, uaaKey' = uaaKey, NEW h, handler' = [handler EXCEPT ![h] = Idle]
  PROVE  IInv'
<1>1. CASE h \in Handlers
  <2>1. Idle = [f \in Fields |-> Idle[f]]
    BY DEF Idle, Fields
  <2>2. KeyFresh(Idle)
    BY IdleFresh DEF KeyFresh, Checking, Retry
  <2> QED BY <1>1, <2>1, <2>2, OneHandlerFresh
<1>2. CASE h \notin Handlers
  <2>1. handler' = handler
    BY <1>2 DEF IInv, Shaped
  <2> QED BY <2>1, QuietFresh
<1> QED BY <1>1, <1>2

\* The validator's loop.
LEMMA ParseFresh ==
  ASSUME IInv, NEW h \in Handlers, Parse(h, handler[h])
  PROVE  IInv'
<1> DEFINE r == handler[h]
<1>0. uaaKey' = uaaKey /\ r.pc = "parse" /\ KeyFresh(r)
  BY DEF Parse, uaaVars, IInv
<1>1. CASE handler' = [handler EXCEPT ![h].pc = "fetchKey"]
  <2> DEFINE new == [r EXCEPT !.pc = "fetchKey"]
  <2>1. /\ new = [f \in Fields |-> new[f]]
        /\ new.pc = "fetchKey" /\ new.since = r.since /\ new.answer = r.answer
        /\ new.key = r.key /\ new.tok = r.tok
    BY IdleFresh DEF IInv, Shaped
  <2>2. KeyFresh(new)
    BY <1>0, <2>1 DEF KeyFresh, Checking, Retry
  <2>3. handler' = [handler EXCEPT ![h] = new]
    BY <1>1
  <2> HIDE DEF new
  <2> QED BY <1>0, <2>1, <2>2, <2>3, OneHandlerFresh
<1>2. CASE Verdict(r) = "signature" /\ r.attempt = 2 /\ Answer(h, Verdict(r))
  <2> DEFINE new == [r EXCEPT !.pc = "done", !.answer = "signature"]
  <2>1. /\ new = [f \in Fields |-> new[f]]
        /\ new.pc = "done" /\ new.since = r.since /\ new.answer = "signature"
        /\ new.key = r.key /\ new.tok = r.tok
    BY IdleFresh, ZenonT(60) DEF IInv, Shaped
  <2>2. r.key # r.tok.key
    BY <1>2 DEF Verdict
  <2>3. KeyFresh(new)
    BY <1>0, <1>2, <2>1, <2>2 DEF KeyFresh, Checking, Retry
  <2>4. handler' = [handler EXCEPT ![h] = new]
    BY <1>2, Zenon DEF Answer
  <2> HIDE DEF new
  <2> QED BY <1>0, <2>1, <2>3, <2>4, OneHandlerFresh
<1>3. CASE Verdict(r) # "signature" /\ Answer(h, Verdict(r))
  BY <1>0, <1>3, AnswerFresh
<1>4. CASE Answer(h, "badRequest")
  BY <1>0, <1>4, AnswerFresh
<1>5. CASE handler' = [handler EXCEPT ![h] =
             [Idle EXCEPT !.pc = "write", !.kind = r.kind, !.batch = r.batch]]
  <2> DEFINE new == [Idle EXCEPT !.pc = "write", !.kind = r.kind, !.batch = r.batch]
  <2>1. new = [f \in Fields |-> new[f]] /\ new.pc = "write" /\ new.answer # "signature"
    BY IdleFresh, NoneAssumption, ZenonT(60) DEF Idle
  <2>2. KeyFresh(new)
    BY <2>1 DEF KeyFresh, Checking, Retry
  <2>3. handler' = [handler EXCEPT ![h] = new]
    BY <1>5
  <2> HIDE DEF new
  <2> QED BY <1>0, <2>1, <2>2, <2>3, OneHandlerFresh
<1> QED BY <1>1, <1>2, <1>3, <1>4, <1>5 DEF Parse

\* The key is fetched for the retry, then cached.
LEMMA KeyStepFresh ==
  ASSUME IInv, NEW h \in Handlers,
         FetchKey(h, handler[h]) \/ StoreKey(h, handler[h])
  PROVE  IInv'
<1> DEFINE r == handler[h]
<1>0. uaaKey' = uaaKey /\ KeyFresh(r)
  BY DEF FetchKey, StoreKey, uaaVars, IInv
<1>1. CASE FetchKey(h, r)
  <2> DEFINE new == [r EXCEPT !.pc = "storeKey", !.key = uaaKey]
  <2>1. /\ new = [f \in Fields |-> new[f]]
        /\ new.pc = "storeKey" /\ new.since = r.since /\ new.answer = r.answer
        /\ new.key = uaaKey
    BY IdleFresh, ZenonT(60) DEF IInv, Shaped
  <2>2. r.answer # "signature"
    BY <1>0, <1>1 DEF KeyFresh, FetchKey
  <2>3. KeyFresh(new)
    BY <1>0, <1>1, <2>1, <2>2 DEF KeyFresh, Checking, Retry, FetchKey
  <2>4. handler' = [handler EXCEPT ![h] = new]
    BY <1>1, Zenon DEF FetchKey
  <2> HIDE DEF new
  <2> QED BY <1>0, <2>1, <2>3, <2>4, OneHandlerFresh
<1>2. CASE StoreKey(h, r)
  <2> DEFINE new == [r EXCEPT !.pc = "parse", !.attempt = 2]
  <2>1. /\ new = [f \in Fields |-> new[f]]
        /\ new.pc = "parse" /\ new.since = r.since /\ new.answer = r.answer
        /\ new.key = r.key /\ new.tok = r.tok
    BY IdleFresh, ZenonT(60) DEF IInv, Shaped
  <2>3. KeyFresh(new)
    BY <1>0, <1>2, <2>1 DEF KeyFresh, Checking, Retry, StoreKey
  <2>4. handler' = [handler EXCEPT ![h] = new]
    BY <1>2, Zenon DEF StoreKey
  <2> HIDE DEF new
  <2> QED BY <1>0, <2>1, <2>3, <2>4, OneHandlerFresh
<1> QED BY <1>1, <1>2

\* A route is written, or a list read.
LEMMA WriteFresh ==
  ASSUME IInv, NEW h \in Handlers, WriteRoute(h, handler[h])
  PROVE  IInv'
<1> DEFINE r == handler[h]
           pos == IF r.batch = <<>> THEN r.pos ELSE r.pos + 1
           pc == IF r.pos < Len(r.batch) THEN "write" ELSE "done"
           a == IF r.pos < Len(r.batch) THEN None ELSE "ok"
           new == [r EXCEPT !.pos = pos, !.pc = pc, !.answer = a]
<1>0. uaaKey' = uaaKey /\ handler' = [handler EXCEPT ![h] = new]
  BY Zenon DEF WriteRoute, uaaVars
<1>1. a # "signature" /\ pc \in {"write", "done"}
  BY NoneAssumption
<1> HIDE DEF pos, pc, a
<1>2. new = [f \in Fields |-> new[f]] /\ new.pc = pc /\ new.answer = a
  BY IdleFresh, ZenonT(60) DEF IInv, Shaped
<1>3. KeyFresh(new)
  BY <1>1, <1>2 DEF KeyFresh, Checking, Retry
<1> HIDE DEF new
<1> QED BY <1>0, <1>2, <1>3, OneHandlerFresh

\* The server restarts: no request is left.
LEMMA RestartFresh ==
  ASSUME IInv, Restart
  PROVE  IInv'
<1> DEFINE Left(h) == IF handler[h].pc = "idle" THEN Idle
                      ELSE [Idle EXCEPT !.pc = "done", !.answer = "unavailable"]
<1>1. uaaKey' = uaaKey /\ handler' = [h \in Handlers |-> Left(h)]
  BY DEF Restart, Fault
<1>2. ASSUME NEW h \in Handlers
      PROVE  /\ Left(h) = [f \in Fields |-> Left(h)[f]]
             /\ Left(h).pc \in {"idle", "done"} /\ Left(h).answer # "signature"
  BY IdleFresh, NoneAssumption, ZenonT(60) DEF Idle
<1> HIDE DEF Left
<1>3. Shaped'
  BY <1>1, <1>2 DEF IInv, Shaped
<1>4. ASSUME NEW h \in Handlers PROVE KeyFresh(handler[h])'
  BY <1>1, <1>2 DEF KeyFresh, Checking, Retry
<1> QED BY <1>3, <1>4 DEF IInv

\* UAA changes its key: no request that is being checked began with the new one.
LEMMA RotateFresh ==
  ASSUME IInv, Rotate
  PROVE  IInv'
<1>1. uaaKey \in Nat /\ uaaKey' = uaaKey + 1 /\ handler' = handler
  BY DEF Rotate, serverVars, IInv, Shaped
<1>2. Shaped'
  BY <1>1 DEF IInv, Shaped
<1>3. ASSUME NEW h \in Handlers PROVE KeyFresh(handler[h])'
  <2>1. KeyFresh(handler[h])
    BY DEF IInv
  <2> QED BY <1>1, <2>1 DEF KeyFresh, Checking, Retry
<1> QED BY <1>2, <1>3 DEF IInv

LEMMA NextFresh == IInv /\ [Next]_vars => IInv'
<1> SUFFICES ASSUME IInv, [Next]_vars PROVE IInv'
  OBVIOUS
<1>1. CASE UNCHANGED vars
  BY <1>1, QuietFresh DEF vars, uaaVars
<1>2. ASSUME NEW c \in Callers, CallerStep(c) \/ TokenFails(c) \/ Timeout(c)
      PROVE  IInv'
  <2>1. CASE FetchNoOp(c) \/ FetchCached(c) \/ FetchToken(c) \/ TokenArrives(c) \/ SetToken(c)
    BY <2>1, QuietFresh
       DEF FetchNoOp, FetchCached, FetchToken, TokenArrives, SetToken, uaaVars, serverVars
  <2>2. CASE TokenFails(c) \/ Timeout(c)
    BY <2>2, QuietFresh DEF TokenFails, Timeout, Fault, serverVars
  <2>3. ASSUME NEW h \in Handlers, Send(c, h) PROVE IInv'
    BY <2>3, ArriveFresh DEF Send, uaaVars
  <2>4. CASE Receive(c)
    BY <2>4, ClearedFresh, Zenon DEF Receive, uaaVars
  <2> QED BY <1>2, <2>1, <2>2, <2>3, <2>4 DEF CallerStep
<1>3. ASSUME NEW h \in Handlers,
             \/ HandlerStep(h, handler[h])
             \/ FetchKeyFails(h, handler[h]) \/ WriteFails(h, handler[h])
             \/ \E o \in Others : OtherRequest(h, o)
      PROVE  IInv'
  <2>1. CASE FetchKeyFails(h, handler[h]) \/ WriteFails(h, handler[h])
    BY <2>1, AnswerFresh DEF FetchKeyFails, WriteFails, Fault
  <2>2. ASSUME NEW o \in Others, OtherRequest(h, o) PROVE IInv'
    BY <2>2, ArriveFresh DEF OtherRequest, uaaVars
  <2>3. CASE Finish(h, handler[h])
    BY <2>3, ClearedFresh, Zenon DEF Finish, uaaVars
  <2> QED BY <1>3, <2>1, <2>2, <2>3, ParseFresh, KeyStepFresh, WriteFresh
          DEF HandlerStep
<1>4. CASE Rotate
  BY <1>4, RotateFresh
<1>5. CASE TokenDue
  BY <1>5, QuietFresh DEF TokenDue, uaaVars, serverVars
<1>6. CASE Restart
  BY <1>6, RestartFresh
<1> QED BY <1>1, <1>2, <1>3, <1>4, <1>5, <1>6 DEF Next

-----------------------------------------------------------------------------
\* ValidateToken refuses a token for its signature only if UAA signed it with
\* another key than its current one or changed the key during the request.
THEOREM RefusalsAreJustified == Spec => []SignatureRefusalJustified
<1>1. IInv => SignatureRefusalJustified
  BY DEF IInv, KeyFresh, Retry, SignatureRefusalJustified
<1> QED BY InitFresh, NextFresh, <1>1, PTL DEF Spec

-----------------------------------------------------------------------------
(* What an answer says of the routes written.                               *)

\* The answers given before anything is written.
Refusals == {"signature", "invalid", "scope", "noKey", "badRequest"}

\* A handler writes only a batch that was found valid, and from its start; it
\* says "ok" when it is past the batch's end.
Tells(r) ==
  /\ r.batch \in Seq(Route) /\ r.pos \in Nat \ {0}
  /\ r.kind = "list" => r.batch = <<>>
  /\ r.answer # None => r.pc = "done"
  /\ r.pc \in {"parse", "fetchKey", "storeKey"} => r.pos = 1
  /\ r.pc = "write" =>
       /\ Valid(r.kind, r.batch)
       /\ r.pos = 1 \/ r.pos <= Len(r.batch)
  /\ r.answer = "ok" => r.pos = Len(r.batch) + 1
  /\ r.answer # None /\ r.answer \in Refusals => r.pos = 1

TellInv == \A h \in Handlers : Tells(handler[h])

LEMMA IdleTells ==
  Tells(Idle) /\ Tells([Idle EXCEPT !.pc = "done", !.answer = "unavailable"])
BY NoneAssumption DEF Tells, Idle, Refusals

LEMMA InitTells == Init => TellInv
BY IdleTells DEF Init, TellInv

\* One handler changes, and the new record is in order.
LEMMA OneHandlerTells ==
  ASSUME IInv, TellInv, NEW h \in Handlers, NEW new,
         handler' = [handler EXCEPT ![h] = new], Tells(new)
  PROVE  TellInv'
<1>1. \A g \in Handlers : handler'[g] = IF g = h THEN new ELSE handler[g]
  BY DEF IInv, Shaped
<1> QED BY <1>1 DEF TellInv

\* An answer that is a refusal, or that follows a failed write.
LEMMA AnswerTells ==
  ASSUME IInv, TellInv, NEW h \in Handlers, NEW a, Answer(h, a), a # "ok",
         a \in Refusals => handler[h].pc \in {"parse", "fetchKey"}
  PROVE  TellInv'
<1> DEFINE r == handler[h]
           new == [r EXCEPT !.pc = "done", !.answer = a]
<1>1. handler' = [handler EXCEPT ![h] = new]
  BY Zenon DEF Answer
<1>2. /\ new.pc = "done" /\ new.answer = a
      /\ new.batch = r.batch /\ new.pos = r.pos /\ new.kind = r.kind
  BY IdleFresh, ZenonT(60) DEF IInv, Shaped
<1>3. Tells(r)
  BY DEF TellInv
<1> HIDE DEF new
<1>4. Tells(new)
  BY <1>2, <1>3 DEF Tells
<1> QED BY <1>1, <1>4, OneHandlerTells, Zenon

\* A request arrives with nothing written; a list has no batch.
LEMMA ArriveTells ==
  ASSUME IInv, TellInv, NEW h \in Handlers, NEW kind, NEW t, NEW b \in Seq(Route),
         kind = "list" => b = <<>>, Arrive(h, kind, t, b)
  PROVE  TellInv'
<1> DEFINE new == [Idle EXCEPT !.pc = "parse", !.kind = kind, !.batch = b, !.tok = t,
                               !.key = publicKey, !.since = uaaKey]
<1>1. handler' = [handler EXCEPT ![h] = new]
  BY DEF Arrive
<1>2. /\ new.pc = "parse" /\ new.answer = None /\ new.kind = kind
      /\ new.batch = b /\ new.pos = 1
  BY DEF Idle
<1> HIDE DEF new
<1>3. Tells(new)
  BY <1>2, NoneAssumption DEF Tells
<1> QED BY <1>1, <1>3, OneHandlerTells, Zenon

LEMMA ClearedTells ==
  ASSUME IInv, TellInv, NEW h, handler' = [handler EXCEPT ![h] = Idle]
  PROVE  TellInv'
<1>1. \A g \in Handlers : handler'[g] \in {Idle, handler[g]}
  BY DEF IInv, Shaped
<1> QED BY <1>1, IdleTells DEF TellInv

\* The validator's loop: a batch is let in only when all of it is valid.
LEMMA ParseTells ==
  ASSUME IInv, TellInv, NEW h \in Handlers, Parse(h, handler[h])
  PROVE  TellInv'
<1> DEFINE r == handler[h]
<1>1. r.pc = "parse" /\ Tells(r)
  BY DEF Parse, TellInv
<1>2. CASE handler' = [handler EXCEPT ![h].pc = "fetchKey"]
  <2> DEFINE new == [r EXCEPT !.pc = "fetchKey"]
  <2>1. /\ new.pc = "fetchKey" /\ new.answer = r.answer /\ new.kind = r.kind
        /\ new.batch = r.batch /\ new.pos = r.pos
    BY IdleFresh DEF IInv, Shaped
  <2>2. handler' = [handler EXCEPT ![h] = new]
    BY <1>2
  <2> HIDE DEF new
  <2>3. Tells(new)
    BY <1>1, <2>1 DEF Tells
  <2> QED BY <2>2, <2>3, OneHandlerTells, Zenon
<1>3. CASE Verdict(r) # "ok" /\ Answer(h, Verdict(r))
  BY <1>1, <1>3, AnswerTells
<1>4. CASE Answer(h, "badRequest")
  BY <1>1, <1>4, AnswerTells
<1>5. CASE /\ r.kind # "list" => Valid(r.kind, r.batch)
           /\ handler' = [handler EXCEPT ![h] =
                [Idle EXCEPT !.pc = "write", !.kind = r.kind, !.batch = r.batch]]
  <2> DEFINE new == [Idle EXCEPT !.pc = "write", !.kind = r.kind, !.batch = r.batch]
  <2>1. /\ new.pc = "write" /\ new.answer = None /\ new.kind = r.kind
        /\ new.batch = r.batch /\ new.pos = 1
    BY DEF Idle
  <2>2. Valid(r.kind, r.batch)
    BY <1>1, <1>5 DEF Tells, Valid
  <2> HIDE DEF new
  <2>3. Tells(new)
    BY <1>1, <2>1, <2>2, NoneAssumption DEF Tells
  <2> QED BY <1>5, <2>3, OneHandlerTells, Zenon DEF new
<1> QED BY <1>2, <1>3, <1>4, <1>5 DEF Parse

LEMMA KeyStepTells ==
  ASSUME IInv, TellInv, NEW h \in Handlers,
         FetchKey(h, handler[h]) \/ StoreKey(h, handler[h])
  PROVE  TellInv'
<1> DEFINE r == handler[h]
<1>0. Tells(r) /\ r.pc \in {"fetchKey", "storeKey"}
  BY DEF FetchKey, StoreKey, TellInv
<1>1. CASE FetchKey(h, r)
  <2> DEFINE new == [r EXCEPT !.pc = "storeKey", !.key = uaaKey]
  <2>1. /\ new.pc = "storeKey" /\ new.answer = r.answer /\ new.kind = r.kind
        /\ new.batch = r.batch /\ new.pos = r.pos
    BY IdleFresh, ZenonT(60) DEF IInv, Shaped
  <2>2. handler' = [handler EXCEPT ![h] = new]
    BY <1>1, Zenon DEF FetchKey
  <2> HIDE DEF new
  <2>3. Tells(new)
    BY <1>0, <2>1 DEF Tells
  <2> QED BY <2>2, <2>3, OneHandlerTells, Zenon
<1>2. CASE StoreKey(h, r)
  <2> DEFINE new == [r EXCEPT !.pc = "parse", !.attempt = 2]
  <2>1. /\ new.pc = "parse" /\ new.answer = r.answer /\ new.kind = r.kind
        /\ new.batch = r.batch /\ new.pos = r.pos
    BY IdleFresh, ZenonT(60) DEF IInv, Shaped
  <2>2. handler' = [handler EXCEPT ![h] = new]
    BY <1>2, Zenon DEF StoreKey
  <2> HIDE DEF new
  <2>3. Tells(new)
    BY <1>0, <2>1 DEF Tells
  <2> QED BY <2>2, <2>3, OneHandlerTells, Zenon
<1> QED BY <1>1, <1>2

\* The loop over the batch: "ok" is the answer of its last turn.
LEMMA WriteTells ==
  ASSUME IInv, TellInv, NEW h \in Handlers, WriteRoute(h, handler[h])
  PROVE  TellInv'
<1> DEFINE r == handler[h]
           pos == IF r.batch = <<>> THEN r.pos ELSE r.pos + 1
           pc == IF r.pos < Len(r.batch) THEN "write" ELSE "done"
           a == IF r.pos < Len(r.batch) THEN None ELSE "ok"
           new == [r EXCEPT !.pos = pos, !.pc = pc, !.answer = a]
<1>1. handler' = [handler EXCEPT ![h] = new]
  BY Zenon DEF WriteRoute
<1>2. Tells(r) /\ r.pc = "write"
  BY DEF WriteRoute, TellInv
<1>3. /\ r.batch \in Seq(Route) /\ Len(r.batch) \in Nat /\ r.pos \in Nat \ {0}
      /\ IF r.batch = <<>> THEN Len(r.batch) = 0 ELSE Len(r.batch) > 0
      /\ r.pos = 1 \/ r.pos <= Len(r.batch)
  BY <1>2 DEF Tells
<1>4. \/ /\ r.pos < Len(r.batch) /\ pc = "write" /\ a = None
         /\ pos = r.pos + 1
      \/ /\ pos = Len(r.batch) + 1 /\ pc = "done" /\ a = "ok"
  BY <1>3
<1>5. pos \in Nat \ {0}
  BY <1>3
<1> HIDE DEF pos, pc, a
<1>6. /\ new.pc = pc /\ new.answer = a /\ new.pos = pos
      /\ new.batch = r.batch /\ new.kind = r.kind
  BY IdleFresh, ZenonT(60) DEF IInv, Shaped
<1> HIDE DEF new
<1>7. Tells(new)
  <2>1. CASE r.pos < Len(r.batch) /\ pc = "write" /\ a = None /\ pos = r.pos + 1
    BY <1>2, <1>3, <1>5, <1>6, <2>1, NoneAssumption DEF Tells
  <2>2. CASE pos = Len(r.batch) + 1 /\ pc = "done" /\ a = "ok"
    BY <1>2, <1>3, <1>5, <1>6, <2>2 DEF Tells, Refusals
  <2> QED BY <1>4, <2>1, <2>2
<1> QED BY <1>1, <1>7, OneHandlerTells, Zenon

LEMMA NextTells == IInv /\ TellInv /\ [Next]_vars => TellInv'
<1> SUFFICES ASSUME IInv, TellInv, [Next]_vars PROVE TellInv'
  OBVIOUS
<1>1. CASE UNCHANGED vars \/ Rotate \/ TokenDue
  BY <1>1 DEF vars, TellInv, Rotate, TokenDue, serverVars
<1>2. ASSUME NEW c \in Callers, CallerStep(c) \/ TokenFails(c) \/ Timeout(c)
      PROVE  TellInv'
  <2>1. CASE \/ FetchNoOp(c) \/ FetchCached(c) \/ FetchToken(c) \/ TokenArrives(c)
             \/ SetToken(c) \/ TokenFails(c) \/ Timeout(c)
    BY <2>1 DEF TellInv, FetchNoOp, FetchCached, FetchToken, TokenArrives, SetToken,
                TokenFails, Timeout, serverVars
  <2>2. ASSUME NEW h \in Handlers, Send(c, h) PROVE TellInv'
    <3>1. Batch[c] \in Seq(Route)
      BY ConstantsAssumption
    <3> QED BY <2>2, <3>1, ArriveTells DEF Send
  <2>3. CASE Receive(c)
    BY <2>3, ClearedTells, Zenon DEF Receive
  <2> QED BY <1>2, <2>1, <2>2, <2>3 DEF CallerStep
<1>3. ASSUME NEW h \in Handlers,
             \/ HandlerStep(h, handler[h])
             \/ FetchKeyFails(h, handler[h]) \/ WriteFails(h, handler[h])
             \/ \E o \in Others : OtherRequest(h, o)
      PROVE  TellInv'
  <2>1. CASE FetchKeyFails(h, handler[h])
    BY <2>1, AnswerTells DEF FetchKeyFails
  <2>2. CASE WriteFails(h, handler[h])
    BY <2>2, AnswerTells DEF WriteFails, Refusals
  <2>3. ASSUME NEW o \in Others, OtherRequest(h, o) PROVE TellInv'
    <3>1. o.batch \in Seq(Route) /\ (o.kind = "list" => o.batch = <<>>)
      BY ConstantsAssumption
    <3> QED BY <2>3, <3>1, ArriveTells DEF OtherRequest
  <2>4. CASE Finish(h, handler[h])
    BY <2>4, ClearedTells, Zenon DEF Finish
  <2> QED BY <1>3, <2>1, <2>2, <2>3, <2>4, ParseTells, KeyStepTells, WriteTells
          DEF HandlerStep
<1>4. CASE Restart
  BY <1>4, IdleTells DEF Restart, TellInv
<1> QED BY <1>1, <1>2, <1>3, <1>4 DEF Next

\* Upsert and Delete answer "ok" only past the end of the batch and refuse a
\* request only before its first write, and write only valid routes, for any
\* number of requests in progress, failures and restarts.
THEOREM AnswersTellWrites == Spec => []AnswerTellsWrites
<1>1. TellInv => AnswerTellsWrites
  <2> SUFFICES ASSUME TellInv, NEW h \in Handlers
               PROVE  LET r == handler[h]
                      IN /\ r.answer = "ok" /\ r.kind # "list" => r.pos = Len(r.batch) + 1
                         /\ r.answer # None /\ Status(r.answer) \in {400, 401} => r.pos = 1
                         /\ r.pc = "write" =>
                              \A i \in DOMAIN r.batch : Valid(r.kind, <<r.batch[i]>>)
    BY DEF AnswerTellsWrites
  <2> DEFINE r == handler[h]
  <2>1. Tells(r)
    BY DEF TellInv
  <2>2. Status(r.answer) \in {400, 401} => r.answer \in Refusals
    BY DEF Status, Refusals
  <2>3. ASSUME Valid(r.kind, r.batch), NEW i \in DOMAIN r.batch
        PROVE  Valid(r.kind, <<r.batch[i]>>)
    BY <2>3 DEF Valid
  <2> QED BY <2>1, <2>2, <2>3, ZenonT(60) DEF Tells
<1> QED BY <1>1, InitFresh, NextFresh, InitTells, NextTells, PTL DEF Spec

=============================================================================
