------------------------------ MODULE Gateway ------------------------------
(***************************************************************************)
(* The edge, beside the accounts its keys belong to: the issue and the     *)
(* rotation of a credential (internal/control/keyapi.go, keyissue.go,      *)
(* keystore.go), the authentication of a call by it (internal/edge/auth.go,*)
(* internal/apikey), and the call itself, from the body to the usage       *)
(* record and its cost (internal/edge/proxy.go, stream.go,                 *)
(* internal/openai, module Pricing).                                       *)
(*                                                                         *)
(* Every step of an issue, a rotation and a call may find the tables       *)
(* changed by another, by the reconciler or by the clock.                  *)
(*                                                                         *)
(* Abstracted: a credential is the number of its generation; an answer is  *)
(* what it holds of usage, model and content, frame by frame; a record     *)
(* that is written is given to module UsageWriter. Left out: headers, the  *)
(* time to the first frame, and what KeyLifecycle has of keys: the sweep   *)
(* of pending rows, LiteLLM, and revocation by hand.                       *)
(***************************************************************************)
EXTENDS Accounts, Pricing

CONSTANTS
  Requests,       \* bodies: [readable, stream, options]
  Answers,        \* of the upstream: see Account
  Asked,          \* window_seconds
  Second,         \* the nanoseconds of a second
  DefaultWindow,  \* defaultRotationWindow, in nanoseconds as the next
  MaxWindow,      \* maxRotationWindow
  MaxNow          \* the clock stops there

ASSUME GatewayAssumption ==
  /\ {Second, MaxNow} \subseteq Nat /\ Asked \subseteq Int
  /\ {DefaultWindow, MaxWindow} \subseteq Nat /\ 0 < DefaultWindow /\ DefaultWindow <= MaxWindow /\ Fits(MaxWindow)

\* What a body may say, and what an answer may hold: a plain body is one frame.
ASSUME RequestsAssumption ==
  Requests \subseteq [readable : BOOLEAN, stream : BOOLEAN, options : {"none", "stated", "null", "malformed"}]

Models == STRING \cup {""}
\* What a frame holds for the client: a delta or the reason of the end, nothing, or text
\* in another place, as the frames of /v1/completions do.
Contents == {"delta", "none", "text"}
Frames == [content : Contents, model : Models, usage : Usages \cup {None}]

ASSUME AnswersAssumption ==
  None \notin Answers /\ \A a \in Answers :
    /\ a.kind \in {"none", "refusal", "ok"}
    /\ a.kind = "ok" =>
         /\ a.stream \in BOOLEAN /\ a.ends \in {"eof", "cut", "too_long", "garbled"}
         /\ a.frames \in Seq(Frames)
         /\ a.stream \/ Len(a.frames) = 1

\* A key has been rotated once at most, and not retired since.
ASSUME KeysAssumption ==
  \A s \in Starts :
    /\ s.key \in [People -> [status : {"none", "active", "revoked"}, hash : {1, 2}, prev : {0, 1}, until : Nat, expires : Nat]]
    /\ \A p \in People : s.key[p].hash = s.key[p].prev + 1

VARIABLES
  now,       \* the clock, in nanoseconds
  rotations, \* history: of a person's key, when each generation was superseded, and for how long it was kept
  proxied    \* where a call of the edge stands: see NoProxied. Calls of the edge are numbered with the others

gatewayVars == <<accountVars, now, rotations, proxied>>

NoKey == [status |-> "none", hash |-> 1, prev |-> 0, until |-> 0, expires |-> 0]
NoProxied == [at |-> "idle", who |-> None, gen |-> 0, since |-> 0, request |-> None, answer |-> None, record |-> None]

GatewayInit ==
  /\ AccountsInit
  /\ now = 0
  /\ rotations = [p \in People |-> IF key[p].prev = 0 THEN <<>> ELSE <<[at |-> 0, window |-> key[p].until]>>]
  /\ proxied = [c \in Ids |-> NoProxied]

-----------------------------------------------------------------------------
(* Issue.                                                                   *)

\* HandleIssue, by who may write keys, for whomever has a row in users, disabled or not;
\* or Claim, for oneself: up to CreatePending, since nothing that is read before counts.
HandleIssue(i, s, p) ==
  /\ Unused(i) /\ RequireSession(s) /\ ~expired
  /\ s[2] = p \/ s[2] \in admins
  /\ user[p] # "none" /\ key[p].status = "none"
  /\ key' = [key EXCEPT ![p] = [NoKey EXCEPT !.status = "pending"]]
  /\ rotations' = [rotations EXCEPT ![p] = <<>>]
  /\ call' = [call EXCEPT ![i] = [NoCall EXCEPT !.at = "pending", !.op = "issue", !.who = p]]
  /\ UNCHANGED <<directory, user, admins, session, expired, round, faults, forgotten, now, proxied>>

\* Whose key nobody comes to revoke if it is made active now.
Late(p) == user[p] = "disabled" /\ ~(round.at = "marked" /\ p \in round.todo)

\* GenerateKey, which may fail, and MarkActive, which asks neither for the status of the
\* row nor for its owner, and whose answer may be lost.
MarkActive(i) ==
  /\ At(i, "issue", "pending")
  /\ LET p == call[i].who IN
     \E done \in BOOLEAN, failed \in BOOLEAN :
       /\ done \/ failed
       /\ Fault(failed)
       /\ key' = IF done THEN [key EXCEPT ![p].status = "active"] ELSE key
       /\ forgotten' = IF done /\ Late(p) THEN forgotten \cup {p} ELSE forgotten
       /\ IF failed THEN Goes(i, "failed") ELSE Ends(i)
  /\ UNCHANGED <<directory, user, admins, session, expired, round, now, rotations, proxied>>

\* cleanup deletes the row unless it gives up or fails.
Cleanup(i) ==
  /\ At(i, "issue", "failed")
  /\ LET p == call[i].who IN
     \/ key' = [key EXCEPT ![p] = NoKey] /\ rotations' = [rotations EXCEPT ![p] = <<>>]
     \/ UNCHANGED <<key, rotations>>
  /\ Ends(i)
  /\ UNCHANGED <<directory, user, admins, session, expired, round, faults, forgotten, now, proxied>>

-----------------------------------------------------------------------------
(* Rotation.                                                                *)

\* The product of the seconds and a second is an int64. Nothing asked is the default.
Window(asked) == IF Wrap(asked * Second) = 0 THEN DefaultWindow ELSE Wrap(asked * Second)

\* HandleRotate: the owner, or who may write keys at its node: here the administrators.
HandleRotate(i, s, p, asked) ==
  /\ Unused(i) /\ RequireSession(s) /\ ~expired
  /\ key[p].status # "none" /\ (s[2] = p \/ s[2] \in admins)
  /\ Window(asked) \in 0..MaxWindow
  /\ call' = [call EXCEPT ![i] = [NoCall EXCEPT !.at = "asked", !.op = "rotate", !.who = p, !.asked = asked]]
  /\ UNCHANGED <<directory, accounts, expired, round, faults, forgotten, now, rotations, proxied>>

\* Mutant: the credential before the last is kept on.
RotatedTwice(row, window) == [row EXCEPT !.hash = @ + 1, !.prev = IF @ = 0 THEN row.hash ELSE @, !.until = now + window]

Rotated(row, window) == [row EXCEPT !.hash = @ + 1, !.prev = row.hash, !.until = now + window]

\* The row keeps one generation; a key that is not active is not rotated.
Rotate(i) ==
  /\ At(i, "rotate", "asked")
  /\ LET p == call[i].who
         window == Window(call[i].asked) IN
     IF key[p].status = "active"
     THEN /\ key' = [key EXCEPT ![p] = Rotated(@, window)]
          /\ rotations' = [rotations EXCEPT ![p] = Append(@, [at |-> now, window |-> window])]
          /\ call' = [call EXCEPT ![i].at = "rotated", ![i].gen = key[p].hash + 1]
     ELSE Ends(i) /\ UNCHANGED <<key, rotations>>
  /\ UNCHANGED <<directory, user, admins, session, expired, round, faults, forgotten, now, proxied>>

\* The new credential is told once, after the row is read again; if that fails it is lost.
RotateAnswered(i) ==
  /\ At(i, "rotate", "rotated")
  /\ \E lost \in BOOLEAN : Fault(lost)
  /\ Ends(i)
  /\ UNCHANGED <<directory, accounts, expired, round, forgotten, now, rotations, proxied>>

RetireExpiredPrevKeys ==
  /\ \E p \in People : key[p].prev # 0 /\ key[p].until <= now
  /\ key' = [p \in People |-> IF key[p].prev # 0 /\ key[p].until <= now THEN [key[p] EXCEPT !.prev = 0, !.until = 0] ELSE key[p]]
  /\ UNCHANGED <<directory, user, admins, session, expired, call, round, faults, forgotten, now, rotations, proxied>>

-----------------------------------------------------------------------------
(* Authenticate.                                                            *)

ByHash(row, gen) == row.hash = gen \/ (row.prev = gen /\ row.until > now)
Validate(row) == row.status = "active" /\ (row.expires # 0 => row.expires > now)

Authenticate(c, p, gen, request) ==
  /\ Unused(c) /\ key[p].status # "none" /\ gen \in 1..key[p].hash
  /\ proxied' = [proxied EXCEPT ![c] =
       [at |-> IF ByHash(key[p], gen) /\ Validate(key[p]) THEN "forward" ELSE "refused",
        who |-> p, gen |-> gen, since |-> now, request |-> request, answer |-> None, record |-> None]]
  /\ Ends(c)
  /\ UNCHANGED <<directory, accounts, expired, round, faults, forgotten, now, rotations>>

-----------------------------------------------------------------------------
(* ServeHTTP.                                                               *)

\* ensureIncludeUsage leaves alone what the client has said of it, and writes into a nil
\* map if stream_options is null: the call ends there, without an answer, and the deferred
\* Write finds the record as it was.
Injected(request) == request.stream /\ request.options = "none"
Panics(request) == request.readable /\ request.stream /\ request.options = "null"

Rejection(request) ==
  CASE ~request.readable -> "read_request_body_failed"
    [] request.readable /\ request.stream /\ request.options = "malformed" -> "invalid_request_body"
    [] OTHER -> ""

\* Where in a sequence of frames there is usage, and where a model.
Usable(frames) == {i \in 1..Len(frames) : frames[i].usage # None}
Named(frames) == {i \in 1..Len(frames) : frames[i].model # ""}
\* It looks for content in delta and finish_reason only.
IsUsageOnlyChunk(f) == f.usage # None /\ f.content # "delta"

\* Mutant: every frame with usage is withheld.
SentWithoutUsage(frames, strip) == {i \in 1..Len(frames) : ~(strip /\ frames[i].usage # None)}

\* Which frames of a stream the client gets, in their order.
Sent(frames, strip) == {i \in 1..Len(frames) : ~(strip /\ IsUsageOnlyChunk(frames[i]))}

\* pipeStream: the first usage and the first model count.
Streamed(answer) ==
  LET used == Usable(answer.frames)
      named == Named(answer.frames) IN
  [usage |-> IF used = {} THEN None ELSE answer.frames[First(used)].usage,
   model |-> IF named = {} THEN "" ELSE answer.frames[First(named)].model]

NoUsage == [input |-> 0, cached |-> 0, output |-> 0, reasoning |-> 0]
Record(error, model, usage, cost) == [error |-> error, model |-> model, usage |-> usage, cost |-> cost]
Failed(error, model) == Record(error, model, NoUsage, 0)

\* cost, at the prices of the time the call came in.
Priced(usage, model, since) ==
  IF Effective(model, since) = {} THEN Record("price_not_found", model, usage, 0)
  ELSE LET tiers == Lookup(model, since).tiers IN
       IF ~Priceable(tiers, usage) THEN Record("cost_calc_failed", model, usage, 0)
       ELSE Record("", model, usage, Cost(tiers, usage))

\* What is wrong with a stream without usage.
StreamError(ends) ==
  CASE ends = "eof" -> "usage_missing" [] ends = "cut" -> "stream_read_failed" [] OTHER -> "sse_line_too_long"

\* The record of an answer: of a stream, of a plain body, or of none. A broken stream with
\* usage is paid for; a body without usage counts as one of no tokens.
Account(request, answer, since) ==
  CASE answer.kind = "none" -> Failed("upstream_unreachable", "")
    [] answer.kind = "refusal" -> Failed("upstream_error", "")
    [] answer.kind = "ok" /\ request.stream ->
         LET got == Streamed(answer) IN
         IF got.usage # None THEN Priced(got.usage, got.model, since) ELSE Failed(StreamError(answer.ends), got.model)
    [] answer.kind = "ok" /\ ~request.stream ->
         CASE answer.ends = "cut" -> Failed("read_response_failed", "")
           [] answer.ends = "garbled" -> Failed("usage_parse_failed", "")
           [] OTHER -> LET f == answer.frames[1] IN
                       Priced(IF f.usage = None THEN NoUsage ELSE f.usage, f.model, since)

\* What the upstream may answer, and the record that is written of it as the call ends.
Kinds(request) == {a \in Answers : a.kind = "ok" => a.stream = request.stream}

Answered(row, answer, record) ==
  [at |-> "answered", who |-> None, gen |-> 0, since |-> row.since, request |-> row.request,
   answer |-> answer, record |-> record]

ServeHTTP(c) ==
  /\ proxied[c].at = "forward"
  /\ LET row == proxied[c] IN
     IF Panics(row.request) \/ Rejection(row.request) # ""
     THEN proxied' = [proxied EXCEPT ![c] = Answered(row, None, Failed(Rejection(row.request), ""))]
     ELSE \E a \in Kinds(row.request) :
            proxied' = [proxied EXCEPT ![c] = Answered(row, a, Account(row.request, a, row.since))]
  /\ UNCHANGED <<accountVars, now, rotations>>

\* The deferred Write; a refused call leaves none.
Write(c) ==
  /\ proxied[c].at \in {"answered", "refused"}
  /\ proxied' = [proxied EXCEPT ![c] = NoProxied]
  /\ UNCHANGED <<accountVars, now, rotations>>

RestartEdge(c) ==
  /\ proxied[c].at \in {"forward", "answered"} /\ Fault(TRUE)
  /\ proxied' = [d \in Ids |-> NoProxied]
  /\ UNCHANGED <<directory, accounts, expired, call, round, forgotten, now, rotations>>

Tick ==
  /\ now < MaxNow
  /\ now' = now + 1
  /\ UNCHANGED <<accountVars, rotations, proxied>>

IssueStep(i) ==
  \/ Unused(i) /\ \E s \in session, p \in People : HandleIssue(i, s, p)
  \/ MarkActive(i) \/ Cleanup(i)

RotateStep(i) ==
  \/ Unused(i) /\ \E s \in session, p \in People, asked \in Asked : HandleRotate(i, s, p, asked)
  \/ Rotate(i) \/ RotateAnswered(i)

EdgeStep(c) ==
  \/ Unused(c) /\ \E p \in People, request \in Requests : \E gen \in 1..key[p].hash : Authenticate(c, p, gen, request)
  \/ ServeHTTP(c) \/ Write(c) \/ RestartEdge(c)

GatewayNext ==
  \/ AccountsNext /\ UNCHANGED <<now, rotations, proxied>>
  \/ \E i \in Ids : IssueStep(i) \/ RotateStep(i) \/ EdgeStep(i)
  \/ RetireExpiredPrevKeys \/ Tick

\* The reconciler runs for ever.
GatewaySpec == GatewayInit /\ [][GatewayNext]_gatewayVars /\ WF_gatewayVars(ReconcilerStep /\ UNCHANGED <<now, rotations, proxied>>)

-----------------------------------------------------------------------------
(* What the code promises.                                                  *)

\* What the holder of a credential has been told: the last one is good, the one before it
\* within its window, no other.
Good(p, gen) ==
  LET n == Len(rotations[p]) IN
  gen = n + 1 \/ (gen = n /\ now < rotations[p][n].at + rotations[p][n].window)

\* A call gets through by just the credentials that are good when it comes in, of a key that
\* is neither revoked nor expired, whether or not the expired ones have been retired. A
\* window is positive and within the limit, and the one that was asked for or the default
\* unless what was asked for overflows.
CredentialsFade ==
  [][/\ \A c \in Ids : proxied[c].at = "idle" /\ proxied'[c].at \in {"forward", "refused"} =>
          LET p == proxied'[c].who IN
          proxied'[c].at = "forward" <=>
            /\ Good(p, proxied'[c].gen)
            /\ key[p].status = "active" /\ (key[p].expires = 0 \/ now < key[p].expires)
     /\ \A i \in Ids : call[i].at = "asked" /\ call'[i].at = "rotated" =>
          LET window == rotations'[call[i].who][Len(rotations'[call[i].who])].window IN
          /\ window \in 1..MaxWindow
          /\ Fits(call[i].asked * Second) => window \in {call[i].asked * Second, DefaultWindow}]_gatewayVars

\* The price in effect at a time: the last version that had begun.
InEffect(model, v, at) ==
  LET versions == Prices[model] IN
  v \in 1..Len(versions) /\ versions[v].from <= at /\ (v < Len(versions) => versions[v + 1].from > at)

\* The usage of a frame before which no frame has any, or that of a plain body without.
ReportedFirst(request, frames, usage) ==
  \/ \E i \in Usable(frames) : usage = frames[i].usage /\ \A j \in 1..(i - 1) : frames[j].usage = None
  \/ Usable(frames) = {} /\ ~request.stream /\ usage = NoUsage

\* Every call that was let through leaves one record, which tells what became of it: with an
\* error, no cost; without one, the usage the upstream reported first, at the cost it should
\* have at the price in effect when it came in - or nothing at all of a request that panics:
\* such a call, and no other, is neither answered nor told from one that cost nothing. The
\* client of a stream gets every frame with a delta, and every other one but those of usage
\* that the edge has asked for itself; text in another place that comes with usage is lost.
CallsAreAccounted ==
  \A c \in Ids : proxied[c].at = "answered" =>
    LET record == proxied[c].record
        request == proxied[c].request
        answer == proxied[c].answer IN
    /\ record.error # "" => record.cost = 0
    /\ Panics(request) <=> answer = None /\ record.error = ""
    /\ Panics(request) => record.usage = NoUsage /\ record.cost = 0
    /\ record.error = "" /\ ~Panics(request) =>
         /\ ReportedFirst(request, answer.frames, record.usage)
         /\ \E v \in 1..Len(Prices[record.model]) :
              /\ InEffect(record.model, v, proxied[c].since)
              /\ CostsWhatItShould(Prices[record.model][v].tiers, record.usage, record.cost)
    /\ answer # None /\ answer.kind = "ok" /\ request.stream =>
         LET frames == answer.frames
             withheld == (1..Len(frames)) \ Sent(frames, Injected(request)) IN
         /\ \A i \in withheld : frames[i].content # "delta" /\ frames[i].usage # None
         /\ withheld # {} => request.options = "none" /\ record.error # "usage_missing"
         /\ request.options = "none" =>
              \A i \in 1..Len(frames) : frames[i].content = "none" /\ frames[i].usage # None => i \in withheld

\* Who is gone from the directory is put out in the end: his account is disabled and his key
\* not in use, whether it was issued before, in between or since. His key stays in use in two
\* cases: a round that has disabled him was broken off before it revoked, for the next one
\* lists active accounts only; and MarkActive makes it active after that, since it asks
\* neither whether the owner is disabled nor whether a round has revoked the pending row.
\* Nobody is put out by a directory that lists nobody, nor who is only disabled there.
LeaversStayOut ==
  \A p \in People :
    directory[p] = "deleted" ~>
      \/ Listed = {}
      \/ user[p] # "active" /\ (p \in forgotten \/ key[p].status # "active")
=============================================================================
