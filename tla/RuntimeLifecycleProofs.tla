------------------------ MODULE RuntimeLifecycleProofs ------------------------
(* One authority at a time, for any number of requests, personas, sessions *)
(* and runtimes.                                                            *)
EXTENDS RuntimeLifecycle, TLAPS

TurnStages ==
  {"preparing", "retiring", "stopping", "discarding", "persisting", "recovering"}

Stages ==
  TurnStages \cup {"idle", "storing", "deleting", "queued", "published", "done"}

RuntimeRecord ==
  [status : {"none", "active", "retired"}, persona : Personas \cup {None},
   session : Sessions \cup {None}]

NowRecord ==
  [authority : Runtimes \cup {0}, agent : Runtimes \cup {0},
   persona : Personas, session : Sessions \cup {None}]

\* From its place in the queue to its assignments a request has a kind; unless
\* the settings still wait for their turn, it has a persona.
RequestFormed(r) ==
  /\ r.stage \in TurnStages \cup {"queued", "published"} => r.kind # "none"
  /\ r.stage \in TurnStages \cup {"published"} => r.persona \in Personas
  /\ r.stage = "queued" /\ r.kind # "settings" => r.persona \in Personas
  /\ r.stage = "published" => r.kind # "settings"

TypeInv == TypeOK /\ \A q \in Requests : RequestFormed(request[q])

\* Only the request in its turn is at a stage of a turn.
OneTurn ==
  \A q \in Requests : request[q].stage \in TurnStages <=> holder = q

\* The authority a turn has prepared and not yet published.
Candidate ==
  IF holder # None /\ request[holder].stage \in {"retiring", "persisting"}
    THEN request[holder].next ELSE 0

OnlySelectedOrCandidate ==
  \A r \in Runtimes : Active(r) => r \in {now.authority, Candidate}

\* In its turn a request sees the selected authority be its base or gone, the
\* base retired from "retiring" on, and nothing selected from "persisting" on.
TurnOrder ==
  \A q \in Requests :
    /\ request[q].stage \in {"preparing", "retiring", "stopping"} =>
         now.authority \in {0, request[q].base}
    /\ request[q].stage \in {"retiring", "stopping"} => ~Active(request[q].base)
    /\ request[q].stage \in {"persisting", "recovering"} => now.authority = 0

TurnInv == OneTurn /\ OnlySelectedOrCandidate /\ TurnOrder

Inv == TypeInv /\ TurnInv
-----------------------------------------------------------------------------
(* What the helpers do to one request, to the runtimes and to `now`.       *)

\* Request q changes as given, the others do not.
Becomes(q, kind, stage, p, s, base, next) ==
  /\ request' \in [Requests -> RequestRecord]
  /\ request'[q] = [kind |-> kind, stage |-> stage, persona |-> p, session |-> s,
                    base |-> base, next |-> next]
  /\ \A t \in Requests \ {q} : request'[t] = request[t]

LEMMA RequestUpdate ==
  ASSUME request \in [Requests -> RequestRecord], NEW q \in Requests,
         NEW r \in RequestRecord, request' = [request EXCEPT ![q] = r]
  PROVE  Becomes(q, r.kind, r.stage, r.persona, r.session, r.base, r.next)
<1>1. r = [kind |-> r.kind, stage |-> r.stage, persona |-> r.persona,
           session |-> r.session, base |-> r.base, next |-> r.next]
  BY DEF RequestRecord
<1> QED
  BY <1>1 DEF Becomes

LEMMA StageUpdate ==
  ASSUME TypeOK, NEW q \in Requests, NEW stage \in Stages, Stage(q, stage)
  PROVE  Becomes(q, request[q].kind, stage, request[q].persona,
                 request[q].session, request[q].base, request[q].next)
<1>1. request[q] \in RequestRecord
  BY DEF TypeOK
<1> DEFINE r == [kind |-> request[q].kind, stage |-> stage,
                 persona |-> request[q].persona, session |-> request[q].session,
                 base |-> request[q].base, next |-> request[q].next]
<1>2. r \in RequestRecord
  BY <1>1 DEF RequestRecord, Stages, TurnStages
<1>3. [request[q] EXCEPT !.stage = stage] = r
  BY <1>1, <1>2 DEF RequestRecord
<1>4. request' = [request EXCEPT ![q] = r]
  BY <1>3 DEF Stage
<1>5. Becomes(q, r.kind, r.stage, r.persona, r.session, r.base, r.next)
  <2> HIDE DEF r
  <2> QED
    BY <1>2, <1>4, RequestUpdate DEF TypeOK
<1> QED
  BY <1>5

LEMMA EnqueuedUpdate ==
  ASSUME TypeOK, NEW q \in Requests,
         NEW kind \in {"persona", "new", "select", "delete", "provider", "settings"},
         NEW p \in Personas \cup {None}, NEW s \in Sessions \cup {None},
         Enqueued(q, kind, p, s)
  PROVE  Becomes(q, kind, "queued", p, s, 0, 0)
<1>1. [kind |-> kind, stage |-> "queued", persona |-> p, session |-> s,
       base |-> 0, next |-> 0] \in RequestRecord
  BY DEF RequestRecord
<1> QED
  BY <1>1, RequestUpdate DEF Enqueued, TypeOK, Becomes

\* Updates of several fields, one at a time.
LEMMA StoringUpdate ==
  ASSUME NEW x \in RequestRecord
  PROVE  [x EXCEPT !.kind = "provider", !.stage = "storing"] =
           [kind |-> "provider", stage |-> "storing", persona |-> x.persona,
            session |-> x.session, base |-> x.base, next |-> x.next]
<1> DEFINE y == [kind |-> "provider", stage |-> x.stage, persona |-> x.persona,
                 session |-> x.session, base |-> x.base, next |-> x.next]
<1>1. [x EXCEPT !.kind = "provider"] = y
  BY DEF RequestRecord
<1>2. [y EXCEPT !.stage = "storing"] =
        [kind |-> "provider", stage |-> "storing", persona |-> x.persona,
         session |-> x.session, base |-> x.base, next |-> x.next]
  OBVIOUS
<1> QED
  BY <1>1, <1>2

LEMMA DeletingUpdate ==
  ASSUME NEW x \in RequestRecord, NEW s
  PROVE  [x EXCEPT !.kind = "delete", !.stage = "deleting", !.session = s] =
           [kind |-> "delete", stage |-> "deleting", persona |-> x.persona,
            session |-> s, base |-> x.base, next |-> x.next]
<1> DEFINE y == [kind |-> "delete", stage |-> x.stage, persona |-> x.persona,
                 session |-> x.session, base |-> x.base, next |-> x.next]
           z == [kind |-> "delete", stage |-> "deleting", persona |-> x.persona,
                 session |-> x.session, base |-> x.base, next |-> x.next]
<1>1. [x EXCEPT !.kind = "delete"] = y
  BY DEF RequestRecord
<1>2. [y EXCEPT !.stage = "deleting"] = z
  OBVIOUS
<1>3. [z EXCEPT !.session = s] =
        [kind |-> "delete", stage |-> "deleting", persona |-> x.persona,
         session |-> s, base |-> x.base, next |-> x.next]
  OBVIOUS
<1> QED
  BY <1>1, <1>2, <1>3

LEMMA NextUpdate ==
  ASSUME NEW x \in RequestRecord, NEW stage, NEW r
  PROVE  [x EXCEPT !.stage = stage, !.next = r] =
           [kind |-> x.kind, stage |-> stage, persona |-> x.persona,
            session |-> x.session, base |-> x.base, next |-> r]
<1> DEFINE y == [kind |-> x.kind, stage |-> stage, persona |-> x.persona,
                 session |-> x.session, base |-> x.base, next |-> x.next]
<1>1. [x EXCEPT !.stage = stage] = y
  BY DEF RequestRecord
<1>2. [y EXCEPT !.next = r] =
        [kind |-> x.kind, stage |-> stage, persona |-> x.persona,
         session |-> x.session, base |-> x.base, next |-> r]
  OBVIOUS
<1> QED
  BY <1>1, <1>2

LEMMA AcquiredUpdate ==
  ASSUME NEW x \in RequestRecord, NEW b, NEW p, NEW s
  PROVE  [x EXCEPT !.stage = "preparing", !.base = b, !.persona = p, !.session = s] =
           [kind |-> x.kind, stage |-> "preparing", persona |-> p,
            session |-> s, base |-> b, next |-> x.next]
<1> DEFINE y == [kind |-> x.kind, stage |-> "preparing", persona |-> x.persona,
                 session |-> x.session, base |-> x.base, next |-> x.next]
           z == [kind |-> x.kind, stage |-> "preparing", persona |-> x.persona,
                 session |-> x.session, base |-> b, next |-> x.next]
           w == [kind |-> x.kind, stage |-> "preparing", persona |-> p,
                 session |-> x.session, base |-> b, next |-> x.next]
<1>1. [x EXCEPT !.stage = "preparing"] = y
  BY DEF RequestRecord
<1>2. [y EXCEPT !.base = b] = z
  OBVIOUS
<1>3. [z EXCEPT !.persona = p] = w
  OBVIOUS
<1>4. [w EXCEPT !.session = s] =
        [kind |-> x.kind, stage |-> "preparing", persona |-> p,
         session |-> s, base |-> b, next |-> x.next]
  OBVIOUS
<1> QED
  BY <1>1, <1>2, <1>3, <1>4

LEMMA NowUpdate ==
  ASSUME NEW x \in NowRecord, NEW p, NEW s
  PROVE  [x EXCEPT !.persona = p, !.session = s] =
           [authority |-> x.authority, agent |-> x.agent,
            persona |-> p, session |-> s]
<1> DEFINE y == [authority |-> x.authority, agent |-> x.agent, persona |-> p,
                 session |-> x.session]
<1>1. [x EXCEPT !.persona = p] = y
  BY DEF NowRecord
<1>2. [y EXCEPT !.session = s] = [authority |-> x.authority, agent |-> x.agent,
                                  persona |-> p, session |-> s]
  OBVIOUS
<1> QED
  BY <1>1, <1>2

LEMMA RetiredUpdate ==
  ASSUME TypeOK, NEW r \in Runtimes \cup {0}, runtime' = Retired(r)
  PROVE  /\ runtime' \in [Runtimes -> RuntimeRecord]
         /\ \A t \in Runtimes :
              runtime'[t].status = IF t = r THEN "retired" ELSE runtime[t].status
<1>1. runtime \in [Runtimes -> RuntimeRecord]
  BY DEF TypeOK, RuntimeRecord
<1>2. CASE r = 0
  BY <1>1, <1>2, MaxRuntimesAssumption DEF Retired, Runtimes
<1>3. CASE r \in Runtimes
  <2>1. PICK n \in RuntimeRecord :
          n = [status |-> "retired", persona |-> runtime[r].persona,
               session |-> runtime[r].session]
    BY <1>1, <1>3 DEF RuntimeRecord
  <2>2. runtime' = [runtime EXCEPT ![r] = n]
    <3>1. r # 0
      BY <1>3, MaxRuntimesAssumption DEF Runtimes
    <3>2. [runtime[r] EXCEPT !.status = "retired"] = n
      BY <1>1, <1>3, <2>1 DEF RuntimeRecord
    <3> QED
      BY <3>1, <3>2 DEF Retired
  <2> QED
    BY <1>1, <1>3, <2>1, <2>2
<1> QED
  BY <1>2, <1>3

LEMMA IssuedUpdate ==
  ASSUME TypeOK, NEW r \in Runtimes, NEW p \in Personas \cup {None},
         NEW s \in Sessions \cup {None}, NEW R, Issued(r, p, s, R)
  PROVE  /\ runtime' \in [Runtimes -> RuntimeRecord]
         /\ memory' \in Sessions \cup {None}
         /\ \A t \in Runtimes :
              runtime'[t].status = IF t \in R THEN "retired"
                                   ELSE IF t = r THEN "active"
                                   ELSE runtime[t].status
<1>1. runtime \in [Runtimes -> RuntimeRecord]
  BY DEF TypeOK, RuntimeRecord
<1>2. ASSUME NEW t \in Runtimes
      PROVE  /\ runtime'[t] \in RuntimeRecord
             /\ runtime'[t].status = IF t \in R THEN "retired"
                                     ELSE IF t = r THEN "active"
                                     ELSE runtime[t].status
  <2>1. CASE t = r
    <3>1. runtime'[t] = [status |-> IF r \in R THEN "retired" ELSE "active",
                         persona |-> p, session |-> s]
      BY <2>1 DEF Issued
    <3> QED
      BY <2>1, <3>1 DEF RuntimeRecord
  <2>2. CASE t # r /\ t \in R
    <3>1. runtime'[t] = [runtime[t] EXCEPT !.status = "retired"]
      BY <2>2 DEF Issued
    <3> QED
      BY <1>1, <2>2, <3>1 DEF RuntimeRecord
  <2>3. CASE t # r /\ t \notin R
    <3>1. runtime'[t] = runtime[t]
      BY <2>3 DEF Issued
    <3> QED
      BY <1>1, <2>3, <3>1
  <2> QED
    BY <2>1, <2>2, <2>3
<1>3. runtime' = [t \in Runtimes |-> runtime'[t]]
  BY DEF Issued
<1>4. memory' \in Sessions \cup {None}
  BY DEF Issued, TypeOK
<1> QED
  BY <1>2, <1>3, <1>4

\* `now` becomes the given record.
Selects(authority, agent, p, s) ==
  /\ now' \in NowRecord
  /\ now' = [authority |-> authority, agent |-> agent, persona |-> p, session |-> s]

LEMMA SelectUpdate ==
  ASSUME TypeOK, NEW r \in Runtimes \cup {0}, Select(r)
  PROVE  Selects(r, r, now.persona, now.session)
  BY DEF TypeOK, Select, Selects, NowRecord

-----------------------------------------------------------------------------
(* The type invariant.                                                     *)

\* A step that changes one request and leaves everything typed.
LEMMA TypedStep ==
  ASSUME TypeInv, NEW q \in Requests, NEW k, NEW st, NEW p, NEW s, NEW b, NEW n,
         Becomes(q, k, st, p, s, b, n),
         RequestFormed([kind |-> k, stage |-> st, persona |-> p, session |-> s,
                        base |-> b, next |-> n]),
         accepting' \in BOOLEAN, holder' \in Requests \cup {None},
         runtime' \in [Runtimes -> RuntimeRecord], now' \in NowRecord,
         run' = run, memory' \in Sessions \cup {None},
         stored' \in [Sessions -> Personas \cup {None, "removed"}]
  PROVE  TypeInv'
<1>1. TypeOK'
  BY DEF TypeInv, TypeOK, Becomes, RuntimeRecord, NowRecord
<1>2. ASSUME NEW t \in Requests
      PROVE  RequestFormed(request'[t])
  BY DEF TypeInv, Becomes
<1> QED
  BY <1>1, <1>2 DEF TypeInv

\* What the type invariant says of the parts a step leaves alone.
LEMMA Typed ==
  ASSUME TypeInv
  PROVE  /\ TypeOK
         /\ accepting \in BOOLEAN /\ holder \in Requests \cup {None}
         /\ request \in [Requests -> RequestRecord]
         /\ \A q \in Requests : request[q] \in RequestRecord
         /\ \A q \in Requests : RequestFormed(request[q])
         /\ runtime \in [Runtimes -> RuntimeRecord]
         /\ now \in NowRecord
         /\ memory \in Sessions \cup {None}
         /\ stored \in [Sessions -> Personas \cup {None, "removed"}]
  BY DEF TypeInv, TypeOK, RuntimeRecord, NowRecord

LEMMA RouteTyped ==
  ASSUME TypeInv, NEW q \in Requests, Route(q)
  PROVE  TypeInv'
<1> USE Typed
<1>1. ASSUME NEW p \in Personas, SwitchPersona(q, p)
      PROVE  TypeInv'
  <2>1. Becomes(q, "persona", "queued", p, None, 0, 0)
    BY <1>1, EnqueuedUpdate DEF SwitchPersona
  <2> QED
    BY <1>1, <2>1, TypedStep DEF SwitchPersona, RequestFormed
<1>2. ASSUME NEW s \in Sessions, NewSession(q, s)
      PROVE  TypeInv'
  <2>1. now.persona \in Personas
    BY DEF NowRecord
  <2>2. Becomes(q, "new", "queued", now.persona, s, 0, 0)
    BY <1>2, <2>1, EnqueuedUpdate DEF NewSession
  <2>3. stored' \in [Sessions -> Personas \cup {None, "removed"}]
    BY <1>2, <2>1 DEF NewSession
  <2> QED
    BY <1>2, <2>1, <2>2, <2>3, TypedStep DEF NewSession, RequestFormed
<1>3. ASSUME NEW s \in Sessions, SelectSession(q, s)
      PROVE  TypeInv'
  <2>1. Becomes(q, "select", "queued", stored[s], s, 0, 0)
    BY <1>3, EnqueuedUpdate DEF SelectSession
  <2> QED
    BY <1>3, <2>1, TypedStep DEF SelectSession, RequestFormed
<1>4. ASSUME NEW s \in Sessions, DeleteSession(q, s)
      PROVE  TypeInv'
  <2> DEFINE r == [kind |-> "delete", stage |-> "deleting",
                   persona |-> request[q].persona, session |-> s,
                   base |-> request[q].base, next |-> request[q].next]
  <2>1. r \in RequestRecord
    BY DEF RequestRecord
  <2>2. request' = [request EXCEPT ![q] = r]
    <3>1. [request[q] EXCEPT !.kind = "delete", !.stage = "deleting",
                             !.session = s] = r
      BY DeletingUpdate
    <3> QED
      BY <1>4, <3>1 DEF DeleteSession
  <2>3. Becomes(q, r.kind, r.stage, r.persona, r.session, r.base, r.next)
    <3> HIDE DEF r
    <3> QED
      BY <2>1, <2>2, RequestUpdate
  <2> QED
    BY <1>4, <2>3, TypedStep DEF DeleteSession, RequestFormed, TurnStages
<1>5. CASE UpdateSettings(q)
  <2>1. Becomes(q, "settings", "queued", None, None, 0, 0)
    BY <1>5, EnqueuedUpdate DEF UpdateSettings
  <2> QED
    BY <1>5, <2>1, TypedStep DEF UpdateSettings, RequestFormed, TurnStages
<1>6. CASE UpdateProvider(q)
  <2> DEFINE r == [kind |-> "provider", stage |-> "storing",
                   persona |-> request[q].persona, session |-> request[q].session,
                   base |-> request[q].base, next |-> request[q].next]
  <2>1. r \in RequestRecord
    BY DEF RequestRecord
  <2>2. request' = [request EXCEPT ![q] = r]
    <3>1. [request[q] EXCEPT !.kind = "provider", !.stage = "storing"] = r
      BY StoringUpdate
    <3> QED
      BY <1>6, <3>1 DEF UpdateProvider
  <2>3. Becomes(q, r.kind, r.stage, r.persona, r.session, r.base, r.next)
    <3> HIDE DEF r
    <3> QED
      BY <2>1, <2>2, RequestUpdate
  <2> QED
    BY <1>6, <2>3, TypedStep DEF UpdateProvider, RequestFormed, TurnStages
<1> QED
  BY <1>1, <1>2, <1>3, <1>4, <1>5, <1>6 DEF Route

\* What Acquire makes of the request it lets in.
LEMMA AcquireBecomes ==
  ASSUME TypeInv, NEW q \in Requests, Acquire(q), holder' = q
  PROVE  \E p \in Personas, s \in Sessions \cup {None} :
           Becomes(q, request[q].kind, "preparing", p, s, now.authority,
                   request[q].next)
<1> USE Typed
<1> DEFINE p == IF Settings(q) THEN now.persona ELSE request[q].persona
           s == IF Settings(q) THEN now.session ELSE request[q].session
           r == [kind |-> request[q].kind, stage |-> "preparing", persona |-> p,
                 session |-> s, base |-> now.authority, next |-> request[q].next]
<1>1. request[q] \in RequestRecord /\ now \in NowRecord
  OBVIOUS
<1>2. holder = None /\ request[q].stage = "queued"
  BY DEF Acquire
<1>3. p \in Personas /\ s \in Sessions \cup {None}
  BY <1>1, <1>2 DEF RequestFormed, Settings, NowRecord, RequestRecord
<1>4. request' = [request EXCEPT
        ![q].stage = "preparing", ![q].base = now.authority,
        ![q].persona = IF Settings(q) THEN now.persona ELSE @,
        ![q].session = IF Settings(q) THEN now.session ELSE @]
  BY <1>2, RequestsAssumption DEF Acquire
<1>5. request' = [request EXCEPT ![q] =
        [request[q] EXCEPT !.stage = "preparing", !.base = now.authority,
                           !.persona = p, !.session = s]]
  BY <1>1, <1>4
<1>6. request' = [request EXCEPT ![q] = r]
  <2>1. [request[q] EXCEPT !.stage = "preparing", !.base = now.authority,
                           !.persona = p, !.session = s] = r
    <3> HIDE DEF p, s
    <3> QED
      BY <1>1, AcquiredUpdate
  <2> QED
    BY <1>5, <2>1
<1>7. r \in RequestRecord
  BY <1>1, <1>3 DEF RequestRecord, NowRecord
<1>8. Becomes(q, r.kind, r.stage, r.persona, r.session, r.base, r.next)
  <2> HIDE DEF r
  <2> QED
    BY <1>6, <1>7, RequestUpdate
<1> QED
  BY <1>3, <1>8

LEMMA AcquireTyped ==
  ASSUME TypeInv, NEW q \in Requests, Acquire(q)
  PROVE  TypeInv'
<1> USE Typed
<1>1. CASE holder' = q
  <2>1. PICK p \in Personas, s \in Sessions \cup {None} :
          Becomes(q, request[q].kind, "preparing", p, s, now.authority,
                  request[q].next)
    BY <1>1, AcquireBecomes
  <2>2. request[q].kind # "none"
    BY DEF Acquire, RequestFormed
  <2> QED
    BY <1>1, <2>1, <2>2, TypedStep DEF Acquire, RequestFormed
<1>2. CASE holder' # q
  <2>1. Stage(q, "done") /\ holder' = holder
    BY <1>2 DEF Acquire
  <2>2. Becomes(q, request[q].kind, "done", request[q].persona,
                request[q].session, request[q].base, request[q].next)
    BY <2>1, StageUpdate DEF Stages
  <2> QED
    BY <2>1, <2>2, TypedStep DEF Acquire, RequestFormed, TurnStages
<1> QED
  BY <1>1, <1>2

\* What a prepared candidate makes of its request.
LEMMA PreparedBecomes ==
  ASSUME TypeInv, NEW q \in Requests, NEW r \in Runtimes,
         NEW stage \in {"retiring", "persisting"},
         request' = [request EXCEPT ![q].stage = stage, ![q].next = r]
  PROVE  Becomes(q, request[q].kind, stage, request[q].persona,
                 request[q].session, request[q].base, r)
<1> USE Typed
<1> DEFINE n == [kind |-> request[q].kind, stage |-> stage,
                 persona |-> request[q].persona, session |-> request[q].session,
                 base |-> request[q].base, next |-> r]
<1>1. request[q] \in RequestRecord
  OBVIOUS
<1>2. request' = [request EXCEPT ![q] = n]
  <2>1. request' = [request EXCEPT ![q] =
                      [request[q] EXCEPT !.stage = stage, !.next = r]]
    OBVIOUS
  <2>2. [request[q] EXCEPT !.stage = stage, !.next = r] = n
    BY <1>1, NextUpdate
  <2> QED
    BY <2>1, <2>2
<1>3. n \in RequestRecord
  BY <1>1 DEF RequestRecord
<1>4. Becomes(q, n.kind, n.stage, n.persona, n.session, n.base, n.next)
  <2> HIDE DEF n
  <2> QED
    BY <1>2, <1>3, RequestUpdate
<1> QED
  BY <1>4

LEMMA SettlesTyped ==
  ASSUME TypeInv, NEW q \in Requests, Settles(q)
  PROVE  TypeInv'
<1> USE Typed
<1>0. request[q] \in RequestRecord /\ RequestFormed(request[q]) /\ now \in NowRecord
  OBVIOUS
<1>1. CASE RebuildRuntime(q)
  <2>1. CASE Enqueued(q, "provider", now.persona, now.session)
    <3>1. now.persona \in Personas /\ now.session \in Sessions \cup {None}
      BY <1>0 DEF NowRecord
    <3>2. Becomes(q, "provider", "queued", now.persona, now.session, 0, 0)
      BY <2>1, <3>1, EnqueuedUpdate
    <3> QED
      BY <1>1, <3>1, <3>2, TypedStep DEF RebuildRuntime, RequestFormed, TurnStages
  <2>2. CASE Stage(q, "done")
    <3>1. Becomes(q, request[q].kind, "done", request[q].persona,
                  request[q].session, request[q].base, request[q].next)
      BY <2>2, StageUpdate DEF Stages
    <3> QED
      BY <1>1, <3>1, TypedStep DEF RebuildRuntime, RequestFormed, TurnStages
  <2> QED
    BY <1>1, <2>1, <2>2 DEF RebuildRuntime
<1>2. CASE SessionRemoved(q)
  <2>1. stored' \in [Sessions -> Personas \cup {None, "removed"}]
    BY <1>2 DEF SessionRemoved
  <2>2. CASE Enqueued(q, "delete", now.persona, None)
    <3>1. now.persona \in Personas
      BY <1>0 DEF NowRecord
    <3>2. Becomes(q, "delete", "queued", now.persona, None, 0, 0)
      BY <2>2, <3>1, EnqueuedUpdate
    <3> QED
      BY <1>2, <2>1, <3>1, <3>2, TypedStep DEF SessionRemoved, RequestFormed, TurnStages
  <2>3. CASE Stage(q, "done")
    <3>1. Becomes(q, request[q].kind, "done", request[q].persona,
                  request[q].session, request[q].base, request[q].next)
      BY <2>3, StageUpdate DEF Stages
    <3> QED
      BY <1>2, <2>1, <3>1, TypedStep DEF SessionRemoved, RequestFormed, TurnStages
  <2> QED
    BY <1>2, <2>2, <2>3 DEF SessionRemoved
<1>3. CASE PreparedReplacement(q)
  <2>1. PICK r \in Runtimes :
          /\ Issued(r, request[q].persona, request[q].session, {request[q].base})
          /\ IF request[q].base = 0
               THEN Release(q, "published") /\ Select(r)
               ELSE /\ request' = [request EXCEPT ![q].stage = "retiring", ![q].next = r]
                    /\ UNCHANGED <<holder, now>>
    BY <1>3 DEF PreparedReplacement
  <2>2. runtime' \in [Runtimes -> RuntimeRecord] /\ memory' \in Sessions \cup {None}
    BY <1>0, <2>1, IssuedUpdate DEF RequestRecord
  <2>3. request[q].stage = "preparing" /\ request[q].kind # "settings"
    BY <1>3 DEF PreparedReplacement, InTurn, Settings
  <2>4. CASE request[q].base = 0
    <3>1. Becomes(q, request[q].kind, "published", request[q].persona,
                  request[q].session, request[q].base, request[q].next)
      BY <2>1, <2>4, StageUpdate DEF Release, Stages
    <3>2. now' \in NowRecord
      BY <2>1, <2>4, SelectUpdate DEF Selects
    <3> QED
      BY <1>0, <1>3, <2>1, <2>2, <2>3, <2>4, <3>1, <3>2, TypedStep
      DEF PreparedReplacement, Release, RequestFormed, TurnStages
  <2>5. CASE request[q].base # 0
    <3>1. Becomes(q, request[q].kind, "retiring", request[q].persona,
                  request[q].session, request[q].base, r)
      BY <2>1, <2>5, PreparedBecomes
    <3> QED
      BY <1>0, <1>3, <2>1, <2>2, <2>3, <2>5, <3>1, TypedStep
      DEF PreparedReplacement, RequestFormed, TurnStages
  <2> QED
    BY <2>4, <2>5
<1>4. CASE PreparedSettings(q)
  <2>1. PICK r \in Runtimes, R \in SUBSET (Runtimes \cup {0}) :
          /\ Issued(r, request[q].persona, request[q].session, R)
          /\ \/ \E stage \in {"retiring", "persisting"} :
                  request' = [request EXCEPT ![q].stage = stage, ![q].next = r]
             \/ Stage(q, "discarding")
    BY <1>0, <1>4 DEF PreparedSettings, RequestRecord
  <2>2. runtime' \in [Runtimes -> RuntimeRecord] /\ memory' \in Sessions \cup {None}
    BY <1>0, <2>1, IssuedUpdate DEF RequestRecord
  <2>3. request[q].stage = "preparing"
    BY <1>4 DEF PreparedSettings, InTurn
  <2>4. ASSUME NEW stage \in {"retiring", "persisting"},
               request' = [request EXCEPT ![q].stage = stage, ![q].next = r]
        PROVE  TypeInv'
    <3>1. Becomes(q, request[q].kind, stage, request[q].persona,
                  request[q].session, request[q].base, r)
      BY <2>4, PreparedBecomes
    <3> QED
      BY <1>0, <1>4, <2>2, <2>3, <3>1, TypedStep
      DEF PreparedSettings, RequestFormed, TurnStages
  <2>5. CASE Stage(q, "discarding")
    <3>1. Becomes(q, request[q].kind, "discarding", request[q].persona,
                  request[q].session, request[q].base, request[q].next)
      BY <2>5, StageUpdate DEF Stages, TurnStages
    <3> QED
      BY <1>0, <1>4, <2>2, <2>3, <3>1, TypedStep
      DEF PreparedSettings, RequestFormed, TurnStages
  <2> QED
    BY <2>1, <2>4, <2>5
<1>5. CASE PrepareFails(q)
  <2>1. Becomes(q, request[q].kind, "done", request[q].persona,
                request[q].session, request[q].base, request[q].next)
    BY <1>5, StageUpdate DEF PrepareFails, Release, Stages, TurnStages
  <2> QED
    BY <1>5, <2>1, TypedStep DEF PrepareFails, Release, RequestFormed, TurnStages
<1>6. CASE Discarded(q)
  <2>1. Becomes(q, request[q].kind, "done", request[q].persona,
                request[q].session, request[q].base, request[q].next)
    BY <1>6, StageUpdate DEF Discarded, Release, Stages, TurnStages
  <2> QED
    BY <1>6, <2>1, TypedStep DEF Discarded, Release, RequestFormed, TurnStages
<1>7. CASE BaseRetired(q)
  <2>1. request[q].stage = "retiring"
    BY <1>7 DEF BaseRetired, InTurn
  <2>2. CASE Settings(q)
    <3>1. Becomes(q, request[q].kind, "persisting", request[q].persona,
                  request[q].session, request[q].base, request[q].next)
      BY <1>7, <2>2, StageUpdate DEF BaseRetired, Stages, TurnStages
    <3>2. now' \in NowRecord
      BY <1>7, <2>2, SelectUpdate DEF BaseRetired, Selects
    <3> QED
      BY <1>0, <1>7, <2>1, <2>2, <3>1, <3>2, TypedStep
      DEF BaseRetired, RequestFormed, TurnStages
  <2>3. CASE ~Settings(q)
    <3>1. Becomes(q, request[q].kind, "published", request[q].persona,
                  request[q].session, request[q].base, request[q].next)
      BY <1>7, <2>3, StageUpdate DEF BaseRetired, Release, Stages
    <3>2. now' \in NowRecord
      BY <1>0, <1>7, <2>3, SelectUpdate DEF BaseRetired, Selects, RequestRecord
    <3> QED
      BY <1>0, <1>7, <2>1, <2>3, <3>1, <3>2, TypedStep
      DEF BaseRetired, Release, RequestFormed, TurnStages, Settings
  <2> QED
    BY <2>2, <2>3
<1>8. CASE BaseRetirementFails(q)
  <2>1. Becomes(q, request[q].kind, "stopping", request[q].persona,
                request[q].session, request[q].base, request[q].next)
    BY <1>8, StageUpdate DEF BaseRetirementFails, Release, Stages, TurnStages
  <2>2. runtime' \in [Runtimes -> RuntimeRecord]
    BY <1>0, <1>8, RetiredUpdate DEF BaseRetirementFails, RequestRecord
  <2>3. request[q].stage = "retiring"
    BY <1>8 DEF BaseRetirementFails, InTurn
  <2> QED
    BY <1>0, <1>8, <2>1, <2>2, <2>3, TypedStep
    DEF BaseRetirementFails, RequestFormed, TurnStages
<1>9. CASE PersistFails(q)
  <2>1. Becomes(q, request[q].kind, "recovering", request[q].persona,
                request[q].session, request[q].base, request[q].next)
    BY <1>9, StageUpdate DEF PersistFails, Release, Stages, TurnStages
  <2>2. runtime' \in [Runtimes -> RuntimeRecord]
    BY <1>0, <1>9, RetiredUpdate DEF PersistFails, RequestRecord
  <2>3. request[q].stage = "persisting"
    BY <1>9 DEF PersistFails, InTurn
  <2> QED
    BY <1>0, <1>9, <2>1, <2>2, <2>3, TypedStep DEF PersistFails, RequestFormed, TurnStages
<1>10. CASE Stopped(q)
  <2>1. Becomes(q, request[q].kind, "done", request[q].persona,
                request[q].session, request[q].base, request[q].next)
    BY <1>10, StageUpdate DEF Stopped, Release, Stages, TurnStages
  <2>2. now' \in NowRecord
    BY <1>10, SelectUpdate DEF Stopped, Selects
  <2> QED
    BY <1>10, <2>1, <2>2, TypedStep DEF Stopped, Release, RequestFormed, TurnStages
<1>11. CASE RecoveryFails(q)
  <2>1. Becomes(q, request[q].kind, "done", request[q].persona,
                request[q].session, request[q].base, request[q].next)
    BY <1>11, StageUpdate DEF RecoveryFails, Release, Stages, TurnStages
  <2>2. now' \in NowRecord
    BY <1>11, SelectUpdate DEF RecoveryFails, Selects
  <2> QED
    BY <1>11, <2>1, <2>2, TypedStep DEF RecoveryFails, Release, RequestFormed, TurnStages
<1>12. CASE Persisted(q)
  <2>1. Becomes(q, request[q].kind, "done", request[q].persona,
                request[q].session, request[q].base, request[q].next)
    BY <1>12, StageUpdate DEF Persisted, Release, Stages, TurnStages
  <2>2. request[q].persona \in Personas
    BY <1>0, <1>12 DEF Persisted, InTurn, RequestFormed, TurnStages
  <2>3. now' \in NowRecord
    BY <1>0, <1>12, <2>2 DEF Persisted, PublishSettings, NowRecord, RequestRecord
  <2> QED
    BY <1>12, <2>1, <2>3, TypedStep DEF Persisted, Release, RequestFormed, TurnStages
<1>13. CASE Recovered(q)
  <2>1. Becomes(q, request[q].kind, "done", request[q].persona,
                request[q].session, request[q].base, request[q].next)
    BY <1>13, StageUpdate DEF Recovered, Release, Stages, TurnStages
  <2>2. request[q].persona \in Personas
    BY <1>0, <1>13 DEF Recovered, InTurn, RequestFormed, TurnStages
  <2>3. PICK r \in Runtimes :
          /\ Issued(r, request[q].persona, request[q].session, {})
          /\ PublishSettings(q, r)
    BY <1>13 DEF Recovered
  <2>4. now' \in NowRecord
    BY <1>0, <2>2, <2>3 DEF PublishSettings, NowRecord
  <2>5. runtime' \in [Runtimes -> RuntimeRecord] /\ memory' \in Sessions \cup {None}
    BY <1>0, <2>3, IssuedUpdate DEF RequestRecord
  <2> QED
    BY <1>13, <2>1, <2>4, <2>5, TypedStep DEF Recovered, Release, RequestFormed, TurnStages
<1> QED
  BY <1>1, <1>2, <1>3, <1>4, <1>5, <1>6, <1>7, <1>8, <1>9, <1>10, <1>11, <1>12, <1>13
  DEF Settles

LEMMA AssignKeeps ==
  ASSUME TypeInv, NEW q \in Requests, Assign(q)
  PROVE  /\ now' \in NowRecord
         /\ now'.authority = now.authority /\ now'.agent = now.agent
<1> USE Typed
<1>2. /\ request[q].kind \in {"persona", "select", "new", "delete", "provider"}
      /\ request[q].persona \in Personas
      /\ request[q].session \in Sessions \cup {None}
  <2>1. request[q].stage = "published"
    BY DEF Assign
  <2>2. request[q] \in RequestRecord /\ RequestFormed(request[q])
    OBVIOUS
  <2> QED
    BY <2>1, <2>2 DEF RequestFormed, RequestRecord
<1>3. PICK p \in Personas, s \in Sessions \cup {None} :
        now' = [authority |-> now.authority, agent |-> now.agent,
                persona |-> p, session |-> s]
  <2>1. now \in NowRecord
    OBVIOUS
  <2>2. now.persona \in Personas /\ now.session \in Sessions \cup {None}
    BY <2>1 DEF NowRecord
  <2>3. CASE request[q].kind = "persona"
    <3>1. now' = [now EXCEPT !.persona = request[q].persona, !.session = None]
      BY <2>3 DEF Assign
    <3>2. [now EXCEPT !.persona = request[q].persona, !.session = None] =
            [authority |-> now.authority, agent |-> now.agent,
             persona |-> request[q].persona, session |-> None]
      BY <2>1, NowUpdate
    <3> QED
      BY <1>2, <3>1, <3>2
  <2>4. CASE request[q].kind = "select"
    <3>1. now' = [now EXCEPT !.persona = request[q].persona,
                             !.session = request[q].session]
      BY <2>4 DEF Assign
    <3>2. [now EXCEPT !.persona = request[q].persona, !.session = request[q].session] =
            [authority |-> now.authority, agent |-> now.agent,
             persona |-> request[q].persona, session |-> request[q].session]
      BY <2>1, NowUpdate
    <3> QED
      BY <1>2, <3>1, <3>2
  <2>5. CASE request[q].kind \in {"new", "delete"}
    <3>1. now' = [now EXCEPT !.session = request[q].session]
      BY <2>5 DEF Assign
    <3>2. now' = [authority |-> now.authority, agent |-> now.agent,
                  persona |-> now.persona, session |-> request[q].session]
      BY <2>1, <3>1 DEF NowRecord
    <3> QED
      BY <1>2, <2>2, <3>2
  <2>6. CASE request[q].kind = "provider"
    <3>1. now' = now
      BY <2>6 DEF Assign
    <3>2. now = [authority |-> now.authority, agent |-> now.agent,
                 persona |-> now.persona, session |-> now.session]
      BY <2>1 DEF NowRecord
    <3> QED
      BY <2>2, <3>1, <3>2
  <2> QED
    BY <1>2, <2>3, <2>4, <2>5, <2>6
<1>4. /\ now' \in NowRecord
      /\ now'.authority = now.authority /\ now'.agent = now.agent
  <2>1. now \in NowRecord
    OBVIOUS
  <2> QED
    BY <1>3, <2>1 DEF NowRecord
<1> QED
  BY <1>4

LEMMA AssignTyped ==
  ASSUME TypeInv, NEW q \in Requests, Assign(q)
  PROVE  TypeInv'
<1> USE Typed
<1>1. Becomes(q, request[q].kind, "done", request[q].persona,
              request[q].session, request[q].base, request[q].next)
  BY StageUpdate DEF Assign, Stages
<1>2. now' \in NowRecord
  BY AssignKeeps
<1> QED
  BY <1>1, <1>2, TypedStep DEF Assign, RequestFormed, TurnStages

\* The steps of no request.
LEMMA OthersTyped ==
  ASSUME TypeInv,
         \/ Chat \/ \E r \in Runtimes : RunEnds(r)
         \/ \E s \in Sessions : Rollback(s)
         \/ Shutdown \/ FinalCheck
  PROVE  TypeInv'
<1> USE Typed
<1>0. now \in NowRecord
  OBVIOUS
<1>1. CASE Chat
  <2>1. run' \in [Runtimes -> {"idle", "running"}]
    BY <1>1 DEF Chat, TypeOK
  <2> QED
    BY <1>1, <2>1 DEF Chat, TypeInv, TypeOK
<1>2. ASSUME NEW r \in Runtimes, RunEnds(r)
      PROVE  TypeInv'
  <2>1. run' \in [Runtimes -> {"idle", "running"}]
    BY <1>2 DEF RunEnds, TypeOK
  <2> QED
    BY <1>2, <2>1 DEF RunEnds, TypeInv, TypeOK
<1>3. ASSUME NEW s \in Sessions, Rollback(s)
      PROVE  TypeInv'
  <2>1. now.agent \in Runtimes
    BY <1>0, <1>3 DEF Rollback, NowRecord
  <2>2. [runtime[now.agent] EXCEPT !.session = s] \in RuntimeRecord
    BY <2>1 DEF RuntimeRecord
  <2>3. runtime' \in [Runtimes -> RuntimeRecord]
    BY <1>3, <2>1, <2>2 DEF Rollback
  <2> QED
    BY <1>3, <2>3 DEF Rollback, TypeInv, TypeOK, RuntimeRecord
<1>4. CASE Shutdown
  <2>1. runtime' \in [Runtimes -> RuntimeRecord]
    BY <1>0, <1>4, RetiredUpdate DEF Shutdown, NowRecord
  <2>2. now' \in NowRecord
    BY <1>4, SelectUpdate DEF Shutdown, Selects
  <2> QED
    BY <1>4, <2>1, <2>2 DEF Shutdown, TypeInv, TypeOK, RuntimeRecord, NowRecord
<1>5. CASE FinalCheck
  <2>1. runtime' \in [Runtimes -> RuntimeRecord]
    BY <1>0, <1>5, RetiredUpdate DEF FinalCheck, NowRecord
  <2>2. now' \in NowRecord
    BY <1>0, <1>5 DEF FinalCheck, NowRecord
  <2> QED
    BY <1>5, <2>1, <2>2 DEF FinalCheck, TypeInv, TypeOK, RuntimeRecord, NowRecord
<1> QED
  BY <1>1, <1>2, <1>3, <1>4, <1>5

LEMMA InitTyped == Init => TypeInv
<1> SUFFICES ASSUME Init PROVE TypeInv
  OBVIOUS
<1>1. 1 \in Runtimes
  BY MaxRuntimesAssumption DEF Runtimes
<1>2. request \in [Requests -> RequestRecord]
  BY DEF Init, RequestRecord
<1>3. \A q \in Requests : RequestFormed(request[q])
  BY DEF Init, RequestFormed, TurnStages
<1>4. runtime \in [Runtimes -> RuntimeRecord] /\ now \in NowRecord
  BY <1>1 DEF Init, RuntimeRecord, NowRecord
<1> QED
  BY <1>2, <1>3, <1>4 DEF Init, TypeInv, TypeOK, RuntimeRecord, NowRecord

LEMMA NextTyped == TypeInv /\ [Next]_vars => TypeInv'
<1> SUFFICES ASSUME TypeInv, [Next]_vars PROVE TypeInv'
  OBVIOUS
<1>1. CASE UNCHANGED vars
  BY <1>1 DEF vars, TypeInv, TypeOK
<1>2. ASSUME NEW q \in Requests, Route(q) \/ Acquire(q) \/ Settles(q) \/ Assign(q)
      PROVE  TypeInv'
  BY <1>2, RouteTyped, AcquireTyped, SettlesTyped, AssignTyped
<1> QED
  BY <1>1, <1>2, OthersTyped DEF Next

\* Every state is well typed, and a request always has the kind and the persona
\* its stage needs: settings are never published without a persona, and no
\* route goes on for a request that was never made.
THEOREM TypeCorrect == Spec => []TypeOK
<1>1. TypeInv => TypeOK
  BY DEF TypeInv
<1> QED
  BY <1>1, InitTyped, NextTyped, PTL DEF Spec

-----------------------------------------------------------------------------
(* One authority at a time.                                                *)

\* A step of a request outside its turn.
LEMMA QuietStep ==
  ASSUME Inv, NEW q \in Requests, NEW k, NEW st, NEW p, NEW s, NEW b, NEW n,
         Becomes(q, k, st, p, s, b, n),
         request[q].stage \notin TurnStages, st \notin TurnStages,
         holder' = holder, runtime' = runtime, now'.authority = now.authority
  PROVE  TurnInv'
<1>1. \A t \in Requests : t # q => request'[t] = request[t]
  BY DEF Becomes
<1>2. request'[q].stage = st
  BY DEF Becomes
<1>3. holder # q
  BY DEF Inv, TurnInv, OneTurn
<1>4. OneTurn'
  BY <1>1, <1>2, <1>3 DEF Inv, TurnInv, OneTurn
<1>5. Candidate' = Candidate
  <2>1. holder # None => holder \in Requests
    BY Typed DEF Inv
  <2> QED
    BY <1>1, <1>3, <2>1 DEF Candidate
<1>6. OnlySelectedOrCandidate'
  BY <1>5 DEF Inv, TurnInv, OnlySelectedOrCandidate, Active
<1>7. TurnOrder'
  BY <1>1, <1>2 DEF Inv, TurnInv, TurnOrder, TurnStages, Active
<1> QED
  BY <1>4, <1>6, <1>7 DEF TurnInv

\* A step of the request in its turn, or its first.
LEMMA TurnStep ==
  ASSUME Inv, NEW q \in Requests, NEW k, NEW st, NEW p, NEW s, NEW b, NEW n,
         Becomes(q, k, st, p, s, b, n),
         holder \in {q, None},
         holder' = IF st \in TurnStages THEN q ELSE None,
         \A r \in Runtimes : runtime'[r].status = "active" =>
           r \in {now'.authority, IF st \in {"retiring", "persisting"} THEN n ELSE 0},
         st \in {"preparing", "retiring", "stopping"} => now'.authority \in {0, b},
         st \in {"retiring", "stopping"} => b = 0 \/ runtime'[b].status # "active",
         st \in {"persisting", "recovering"} => now'.authority = 0
  PROVE  TurnInv'
<1>1. \A t \in Requests : t # q => request'[t] = request[t]
  BY DEF Becomes
<1>2. /\ request'[q].stage = st /\ request'[q].next = n /\ request'[q].base = b
  BY DEF Becomes
<1>3. \A t \in Requests : t # q => request[t].stage \notin TurnStages
  BY RequestsAssumption DEF Inv, TurnInv, OneTurn
<1>4. q # None
  BY RequestsAssumption
<1>5. OneTurn'
  BY <1>1, <1>2, <1>3, <1>4, RequestsAssumption DEF OneTurn
<1>6. Candidate' = IF st \in {"retiring", "persisting"} THEN n ELSE 0
  BY <1>2, <1>4 DEF Candidate, TurnStages
<1>7. OnlySelectedOrCandidate'
  BY <1>6 DEF OnlySelectedOrCandidate, Active
<1>8. TurnOrder'
  BY <1>1, <1>2, <1>3 DEF TurnOrder, TurnStages, Active
<1> QED
  BY <1>5, <1>7, <1>8 DEF TurnInv

\* A step that changes no request: nothing becomes active, and the selected
\* authority stays or is retired.
LEMMA OtherStep ==
  ASSUME Inv, UNCHANGED <<holder, request>>,
         \A r \in Runtimes : runtime'[r].status = "active" =>
           runtime[r].status = "active" /\ (r = now.authority => r = now'.authority),
         now'.authority \in {0, now.authority}
  PROVE  TurnInv'
<1>1. OneTurn' /\ Candidate' = Candidate
  BY DEF Inv, TurnInv, OneTurn, Candidate
<1>2. OnlySelectedOrCandidate'
  <2>1. ASSUME NEW r \in Runtimes, runtime'[r].status = "active"
        PROVE  r \in {now'.authority, Candidate}
    <3>1. r \in {now.authority, Candidate}
      BY <2>1, MaxRuntimesAssumption
      DEF Inv, TurnInv, OnlySelectedOrCandidate, Active, Runtimes
    <3> QED
      BY <2>1, <3>1
  <2> QED
    BY <1>1, <2>1 DEF OnlySelectedOrCandidate, Active
<1>3. TurnOrder'
  <2>1. ASSUME NEW q \in Requests
        PROVE  request[q].base \in Runtimes \cup {0}
    <3>1. request[q] \in RequestRecord
      BY Typed DEF Inv
    <3> QED
      BY <3>1 DEF RequestRecord
  <2> QED
    BY <2>1 DEF Inv, TurnInv, TurnOrder, Active
<1> QED
  BY <1>1, <1>2, <1>3 DEF TurnInv

\* What holds of the request in its turn.
LEMMA InItsTurn ==
  ASSUME Inv, NEW q \in Requests, NEW stage \in TurnStages, InTurn(q, stage)
  PROVE  /\ holder = q /\ request[q].stage = stage /\ q # None
         /\ Candidate = IF stage \in {"retiring", "persisting"}
                          THEN request[q].next ELSE 0
         /\ \A r \in Runtimes : runtime[r].status = "active" =>
              r \in {now.authority, Candidate}
         /\ stage \in {"preparing", "retiring", "stopping"} =>
              now.authority \in {0, request[q].base}
         /\ stage \in {"retiring", "stopping"} =>
              request[q].base = 0 \/ runtime[request[q].base].status # "active"
         /\ stage \in {"persisting", "recovering"} => now.authority = 0
<1>1. holder = q /\ request[q].stage = stage /\ q # None
  BY RequestsAssumption DEF InTurn
<1>2. \A r \in Runtimes : runtime[r].status = "active" => r \in {now.authority, Candidate}
  BY MaxRuntimesAssumption DEF Inv, TurnInv, OnlySelectedOrCandidate, Active, Runtimes
<1>3. Candidate = IF stage \in {"retiring", "persisting"} THEN request[q].next ELSE 0
  BY <1>1 DEF Candidate
<1> QED
  BY <1>1, <1>2, <1>3 DEF Inv, TurnInv, TurnOrder, Active

\* What a step of a request outside its turn does.
LEMMA RouteBecomes ==
  ASSUME TypeInv, NEW q \in Requests,
         Route(q) \/ RebuildRuntime(q) \/ SessionRemoved(q) \/ Assign(q)
  PROVE  /\ request[q].stage \notin TurnStages
         /\ request'[q].stage \notin TurnStages \cup {"published"}
         /\ Becomes(q, request'[q].kind, request'[q].stage, request'[q].persona,
                    request'[q].session, request'[q].base, request'[q].next)
         /\ UNCHANGED <<accepting, holder, runtime>>
         /\ now'.authority = now.authority /\ now'.agent = now.agent
         /\ now' = now \/ ~Settled
<1>1. request[q].stage \notin TurnStages
  BY DEF Route, SwitchPersona, NewSession, SelectSession, DeleteSession,
         UpdateSettings, UpdateProvider, Waiting, RebuildRuntime, SessionRemoved,
         Assign, TurnStages
<1>2. TypeInv'
  BY RouteTyped, SettlesTyped, AssignTyped DEF Settles
<1>3. request' \in [Requests -> RequestRecord]
  BY <1>2 DEF TypeInv, TypeOK
<1>4. /\ \A t \in Requests : t # q => request'[t] = request[t]
      /\ request'[q].stage \notin TurnStages \cup {"published"}
  <2>1. request[q] \in RequestRecord /\ request \in [Requests -> RequestRecord]
    BY Typed
  <2>2. ASSUME NEW kind, NEW p, NEW s, Enqueued(q, kind, p, s)
        PROVE  /\ \A t \in Requests : t # q => request'[t] = request[t]
               /\ request'[q].stage \notin TurnStages \cup {"published"}
    BY <2>1, <2>2 DEF Enqueued, TurnStages
  <2>3. CASE Stage(q, "done")
    <3>1. Becomes(q, request[q].kind, "done", request[q].persona,
                  request[q].session, request[q].base, request[q].next)
      BY <2>3, StageUpdate, Typed DEF Stages
    <3> QED
      BY <3>1 DEF Becomes, TurnStages
  <2>4. CASE UpdateProvider(q)
    <3>1. request' = [request EXCEPT ![q] =
                        [request[q] EXCEPT !.kind = "provider", !.stage = "storing"]]
      BY <2>4 DEF UpdateProvider
    <3>2. [request[q] EXCEPT !.kind = "provider", !.stage = "storing"].stage = "storing"
      BY <2>1, StoringUpdate
    <3> QED
      BY <2>1, <3>1, <3>2 DEF TurnStages
  <2>5. ASSUME NEW s \in Sessions, DeleteSession(q, s)
        PROVE  /\ \A t \in Requests : t # q => request'[t] = request[t]
               /\ request'[q].stage \notin TurnStages \cup {"published"}
    <3>1. request' = [request EXCEPT ![q] =
                        [request[q] EXCEPT !.kind = "delete", !.stage = "deleting",
                                           !.session = s]]
      BY <2>5 DEF DeleteSession
    <3>2. [request[q] EXCEPT !.kind = "delete", !.stage = "deleting",
                             !.session = s].stage = "deleting"
      BY <2>1, DeletingUpdate, ZenonT(60)
    <3> QED
      BY <2>1, <3>1, <3>2 DEF TurnStages
  <2> QED
    BY <2>2, <2>3, <2>4, <2>5
    DEF Route, SwitchPersona, NewSession, SelectSession, UpdateSettings,
        RebuildRuntime, SessionRemoved, Assign
<1>5. UNCHANGED <<accepting, holder, runtime>>
  BY DEF Route, SwitchPersona, NewSession, SelectSession, DeleteSession,
         UpdateSettings, UpdateProvider, RebuildRuntime, SessionRemoved, Assign
<1>6. /\ now'.authority = now.authority /\ now'.agent = now.agent
      /\ now' = now \/ ~Settled
  <2>1. CASE Assign(q)
    BY <2>1, AssignKeeps DEF Assign, Settled
  <2>2. CASE ~Assign(q)
    BY <2>2 DEF Route, SwitchPersona, NewSession, SelectSession, DeleteSession,
                UpdateSettings, UpdateProvider, RebuildRuntime, SessionRemoved
  <2> QED
    BY <2>1, <2>2
<1>7. request'[q] \in RequestRecord
  BY <1>3
<1>8. Becomes(q, request'[q].kind, request'[q].stage, request'[q].persona,
              request'[q].session, request'[q].base, request'[q].next)
  BY <1>3, <1>4, <1>7 DEF Becomes, RequestRecord
<1> QED
  BY <1>1, <1>4, <1>5, <1>6, <1>8

LEMMA RouteTurn ==
  ASSUME Inv, NEW q \in Requests,
         Route(q) \/ RebuildRuntime(q) \/ SessionRemoved(q) \/ Assign(q)
  PROVE  TurnInv'
<1>1. TypeInv
  BY DEF Inv
<1> QED
  BY <1>1, RouteBecomes, QuietStep

LEMMA AcquireTurn ==
  ASSUME Inv, NEW q \in Requests, Acquire(q)
  PROVE  TurnInv'
<1>1. holder = None /\ request[q].stage \notin TurnStages
  BY DEF Acquire, TurnStages
<1>2. \A r \in Runtimes : runtime'[r].status = "active" => r \in {now'.authority, 0}
  BY <1>1, MaxRuntimesAssumption
  DEF Acquire, Inv, TurnInv, OnlySelectedOrCandidate, Candidate, Active, Runtimes
<1>3. CASE holder' = q
  <2>1. PICK p, s :
          Becomes(q, request[q].kind, "preparing", p, s, now.authority,
                  request[q].next)
    BY <1>3, AcquireBecomes DEF Inv
  <2> QED
    BY <1>1, <1>2, <1>3, <2>1, TurnStep DEF Acquire, TurnStages
<1>4. CASE holder' # q
  <2>1. Stage(q, "done") /\ holder' = holder
    BY <1>4 DEF Acquire
  <2>2. Becomes(q, request[q].kind, "done", request[q].persona,
                request[q].session, request[q].base, request[q].next)
    BY <2>1, StageUpdate, Typed DEF Stages, Inv
  <2>3. runtime' = runtime /\ now'.authority = now.authority
    BY DEF Acquire
  <2> QED
    BY <1>1, <2>1, <2>2, <2>3, QuietStep DEF TurnStages
<1> QED
  BY <1>3, <1>4

\* What a step of a turn does to the selection: it stays, nothing is selected,
\* or one runtime is and no other is active.
Published ==
  now'.authority \notin {0, now.authority} =>
    \A r \in Runtimes : r # now'.authority => runtime'[r].status # "active"

LEMMA TurnKept ==
  ASSUME Inv, NEW q \in Requests,
         \/ PreparedReplacement(q) \/ PreparedSettings(q) \/ PrepareFails(q)
         \/ Discarded(q)
         \/ BaseRetired(q) \/ BaseRetirementFails(q) \/ Stopped(q)
         \/ Persisted(q) \/ PersistFails(q)
         \/ Recovered(q) \/ RecoveryFails(q)
  PROVE  TurnInv' /\ Published
<1>0. /\ TypeInv /\ TypeOK
      /\ request[q] \in RequestRecord /\ now \in NowRecord
      /\ request[q].base \in Runtimes \cup {0} /\ request[q].next \in Runtimes \cup {0}
      /\ now.authority \in Runtimes \cup {0}
  <2>1. TypeInv /\ TypeOK /\ request[q] \in RequestRecord /\ now \in NowRecord
    BY Typed DEF Inv
  <2> QED
    BY <2>1 DEF RequestRecord, NowRecord
<1> DEFINE base == request[q].base
           next == request[q].next
<1>1. CASE PreparedReplacement(q)
  <2>1. InTurn(q, "preparing")
    BY <1>1 DEF PreparedReplacement
  <2>2. PICK r \in Runtimes :
          /\ Issued(r, request[q].persona, request[q].session, {base})
          /\ Fresh(r)
          /\ IF base = 0
               THEN Release(q, "published") /\ Select(r)
               ELSE /\ request' = [request EXCEPT ![q].stage = "retiring", ![q].next = r]
                    /\ UNCHANGED <<holder, now>>
    BY <1>1 DEF PreparedReplacement
  <2>3. \A t \in Runtimes :
          runtime'[t].status = IF t = base THEN "retired"
                               ELSE IF t = r THEN "active" ELSE runtime[t].status
    BY <1>0, <2>2, IssuedUpdate DEF RequestRecord
  <2>4. /\ holder = q /\ now.authority \in {0, base} /\ Candidate = 0
        /\ \A t \in Runtimes : runtime[t].status = "active" => t = now.authority
    BY <2>1, InItsTurn, MaxRuntimesAssumption DEF TurnStages, Runtimes
  <2>5. \A t \in Runtimes : runtime'[t].status = "active" => t = r
    BY <2>3, <2>4, MaxRuntimesAssumption DEF Runtimes
  <2>6. CASE base = 0
    <3>1. Becomes(q, request[q].kind, "published", request[q].persona,
                  request[q].session, base, next)
      BY <1>0, <2>2, <2>6, StageUpdate DEF Release, Stages
    <3>2. now'.authority = r /\ holder' = None
      BY <1>0, <2>2, <2>6, SelectUpdate DEF Selects, Release
    <3> QED
      BY <2>4, <2>5, <3>1, <3>2, TurnStep DEF TurnStages, Published
  <2>7. CASE base # 0
    <3>1. Becomes(q, request[q].kind, "retiring", request[q].persona,
                  request[q].session, base, r)
      BY <1>0, <2>2, <2>7, PreparedBecomes
    <3>2. now' = now /\ holder' = holder
      BY <2>2, <2>7
    <3>3. runtime'[base].status # "active"
      BY <1>0, <2>3, <2>7
    <3> QED
      BY <2>4, <2>5, <3>1, <3>2, <3>3, TurnStep DEF TurnStages, Published
  <2> QED
    BY <2>6, <2>7
<1>2. CASE PreparedSettings(q)
  <2>1. InTurn(q, "preparing") /\ UNCHANGED <<holder, now>>
    BY <1>2 DEF PreparedSettings
  <2>2. /\ holder = q /\ now.authority \in {0, base} /\ Candidate = 0
        /\ \A t \in Runtimes : runtime[t].status = "active" => t = now.authority
    BY <2>1, InItsTurn, MaxRuntimesAssumption DEF TurnStages, Runtimes
  <2>3. PICK r \in Runtimes :
          /\ Fresh(r)
          /\ IF IsBaseCurrent(q)
               THEN /\ Issued(r, request[q].persona, request[q].session, {base})
                    /\ request' = [request EXCEPT
                         ![q].stage = IF base = 0 THEN "persisting" ELSE "retiring",
                         ![q].next = r]
               ELSE /\ Issued(r, request[q].persona, request[q].session, {r})
                    /\ Stage(q, "discarding")
    BY <1>2 DEF PreparedSettings
  <2>4. CASE IsBaseCurrent(q)
    <3> DEFINE stage == IF base = 0 THEN "persisting" ELSE "retiring"
    <3>1. \A t \in Runtimes :
            runtime'[t].status = IF t = base THEN "retired"
                                 ELSE IF t = r THEN "active" ELSE runtime[t].status
      BY <1>0, <2>3, <2>4, IssuedUpdate DEF RequestRecord
    <3>2. \A t \in Runtimes : runtime'[t].status = "active" => t = r
      BY <2>2, <3>1, MaxRuntimesAssumption DEF Runtimes
    <3>3. Becomes(q, request[q].kind, stage, request[q].persona,
                  request[q].session, base, r)
      BY <1>0, <2>3, <2>4, PreparedBecomes
    <3>4. base # 0 => runtime'[base].status # "active"
      BY <1>0, <3>1
    <3> QED
      BY <2>1, <2>2, <3>2, <3>3, <3>4, TurnStep DEF TurnStages, Published
  <2>5. CASE ~IsBaseCurrent(q)
    <3>1. \A t \in Runtimes :
            runtime'[t].status = IF t = r THEN "retired" ELSE runtime[t].status
      BY <1>0, <2>3, <2>5, IssuedUpdate DEF RequestRecord
    <3>2. Becomes(q, request[q].kind, "discarding", request[q].persona,
                  request[q].session, base, next)
      BY <1>0, <2>3, <2>5, StageUpdate DEF Stages, TurnStages
    <3> QED
      BY <2>1, <2>2, <3>1, <3>2, TurnStep DEF TurnStages, Published
  <2> QED
    BY <2>4, <2>5
<1>3. CASE PrepareFails(q)
  <2>1. InTurn(q, "preparing") /\ holder' = None /\ UNCHANGED <<runtime, now>>
    BY <1>3 DEF PrepareFails, Release
  <2>2. Becomes(q, request[q].kind, "done", request[q].persona,
                request[q].session, base, next)
    BY <1>0, <1>3, StageUpdate DEF PrepareFails, Release, Stages
  <2>3. /\ holder = q
        /\ \A t \in Runtimes : runtime[t].status = "active" => t \in {now.authority, 0}
    BY <2>1, InItsTurn DEF TurnStages
  <2> QED
    BY <2>1, <2>2, <2>3, TurnStep DEF TurnStages, Published
<1>4. CASE Discarded(q)
  <2>1. InTurn(q, "discarding") /\ holder' = None /\ UNCHANGED <<runtime, now>>
    BY <1>4 DEF Discarded, Release
  <2>2. Becomes(q, request[q].kind, "done", request[q].persona,
                request[q].session, base, next)
    BY <1>0, <1>4, StageUpdate DEF Discarded, Release, Stages
  <2>3. /\ holder = q
        /\ \A t \in Runtimes : runtime[t].status = "active" => t \in {now.authority, 0}
    BY <2>1, InItsTurn DEF TurnStages
  <2> QED
    BY <2>1, <2>2, <2>3, TurnStep DEF TurnStages, Published
<1>5. CASE BaseRetired(q)
  <2>1. InTurn(q, "retiring") /\ UNCHANGED runtime
    BY <1>5 DEF BaseRetired
  <2>2. /\ holder = q /\ now.authority \in {0, base}
        /\ base = 0 \/ runtime[base].status # "active"
        /\ \A t \in Runtimes : runtime[t].status = "active" => t \in {now.authority, next}
    BY <2>1, InItsTurn DEF TurnStages
  <2>3. \A t \in Runtimes : runtime'[t].status = "active" => t = next
    BY <2>1, <2>2, MaxRuntimesAssumption DEF Runtimes
  <2>4. CASE Settings(q)
    <3>1. Becomes(q, request[q].kind, "persisting", request[q].persona,
                  request[q].session, base, next)
      BY <1>0, <1>5, <2>4, StageUpdate DEF BaseRetired, Stages, TurnStages
    <3>2. now'.authority = 0 /\ holder' = holder
      BY <1>0, <1>5, <2>4, SelectUpdate DEF BaseRetired, Selects
    <3> QED
      BY <2>2, <2>3, <3>1, <3>2, TurnStep DEF TurnStages, Published
  <2>5. CASE ~Settings(q)
    <3>1. Becomes(q, request[q].kind, "published", request[q].persona,
                  request[q].session, base, next)
      BY <1>0, <1>5, <2>5, StageUpdate DEF BaseRetired, Release, Stages
    <3>2. now'.authority = next /\ holder' = None
      BY <1>0, <1>5, <2>5, SelectUpdate DEF BaseRetired, Selects, Release
    <3> QED
      BY <2>2, <2>3, <3>1, <3>2, TurnStep DEF TurnStages, Published
  <2> QED
    BY <2>4, <2>5
<1>6. CASE BaseRetirementFails(q)
  <2>1. InTurn(q, "retiring") /\ UNCHANGED <<holder, now>>
    BY <1>6 DEF BaseRetirementFails
  <2>2. /\ holder = q /\ now.authority \in {0, base}
        /\ base = 0 \/ runtime[base].status # "active"
        /\ \A t \in Runtimes : runtime[t].status = "active" => t \in {now.authority, next}
    BY <2>1, InItsTurn DEF TurnStages
  <2>3. \A t \in Runtimes :
          runtime'[t].status = IF t = next THEN "retired" ELSE runtime[t].status
    BY <1>0, <1>6, RetiredUpdate DEF BaseRetirementFails
  <2>4. Becomes(q, request[q].kind, "stopping", request[q].persona,
                request[q].session, base, next)
    BY <1>0, <1>6, StageUpdate DEF BaseRetirementFails, Stages, TurnStages
  <2>5. base = 0 \/ runtime'[base].status # "active"
    BY <1>0, <2>2, <2>3
  <2>6. \A t \in Runtimes : runtime'[t].status = "active" => t \in {now'.authority, 0}
    BY <2>1, <2>2, <2>3
  <2> QED
    BY <2>1, <2>2, <2>4, <2>5, <2>6, TurnStep DEF TurnStages, Published
<1>7. CASE Stopped(q)
  <2>1. InTurn(q, "stopping") /\ UNCHANGED runtime /\ holder' = None
    BY <1>7 DEF Stopped, Release
  <2>2. /\ holder = q /\ now.authority \in {0, base}
        /\ base = 0 \/ runtime[base].status # "active"
        /\ \A t \in Runtimes : runtime[t].status = "active" => t \in {now.authority, 0}
    BY <2>1, InItsTurn DEF TurnStages
  <2>3. Becomes(q, request[q].kind, "done", request[q].persona,
                request[q].session, base, next)
    BY <1>0, <1>7, StageUpdate DEF Stopped, Release, Stages
  <2>4. now'.authority = 0
    BY <1>0, <1>7, SelectUpdate DEF Stopped, Selects
  <2>5. \A t \in Runtimes : runtime'[t].status = "active" => t = 0
    BY <2>1, <2>2
  <2> QED
    BY <2>1, <2>2, <2>3, <2>4, <2>5, TurnStep DEF TurnStages, Published
<1>8. CASE Persisted(q)
  <2>1. InTurn(q, "persisting") /\ UNCHANGED runtime /\ holder' = None
    BY <1>8 DEF Persisted, Release
  <2>2. /\ holder = q /\ now.authority = 0
        /\ \A t \in Runtimes : runtime[t].status = "active" => t \in {now.authority, next}
    BY <2>1, InItsTurn DEF TurnStages
  <2>3. Becomes(q, request[q].kind, "done", request[q].persona,
                request[q].session, base, next)
    BY <1>0, <1>8, StageUpdate DEF Persisted, Release, Stages
  <2>4. now'.authority = next
    BY <1>8 DEF Persisted, PublishSettings
  <2>5. \A t \in Runtimes : runtime'[t].status = "active" => t = next
    BY <2>1, <2>2, MaxRuntimesAssumption DEF Runtimes
  <2> QED
    BY <2>1, <2>2, <2>3, <2>4, <2>5, TurnStep DEF TurnStages, Published
<1>9. CASE PersistFails(q)
  <2>1. InTurn(q, "persisting") /\ UNCHANGED <<holder, now>>
    BY <1>9 DEF PersistFails
  <2>2. /\ holder = q /\ now.authority = 0
        /\ \A t \in Runtimes : runtime[t].status = "active" => t \in {now.authority, next}
    BY <2>1, InItsTurn DEF TurnStages
  <2>3. \A t \in Runtimes :
          runtime'[t].status = IF t = next THEN "retired" ELSE runtime[t].status
    BY <1>0, <1>9, RetiredUpdate DEF PersistFails
  <2>4. Becomes(q, request[q].kind, "recovering", request[q].persona,
                request[q].session, base, next)
    BY <1>0, <1>9, StageUpdate DEF PersistFails, Stages, TurnStages
  <2>5. \A t \in Runtimes : runtime'[t].status = "active" => t \in {now'.authority, 0}
    BY <2>1, <2>2, <2>3
  <2> QED
    BY <2>1, <2>2, <2>4, <2>5, TurnStep DEF TurnStages, Published
<1>10. CASE Recovered(q)
  <2>1. InTurn(q, "recovering") /\ holder' = None
    BY <1>10 DEF Recovered, Release
  <2>2. /\ holder = q /\ now.authority = 0
        /\ \A t \in Runtimes : runtime[t].status = "active" => t \in {now.authority, 0}
    BY <2>1, InItsTurn DEF TurnStages
  <2>3. PICK r \in Runtimes :
          /\ Issued(r, request[q].persona, request[q].session, {})
          /\ PublishSettings(q, r)
    BY <1>10 DEF Recovered
  <2>4. \A t \in Runtimes :
          runtime'[t].status = IF t = r THEN "active" ELSE runtime[t].status
    BY <1>0, <2>3, IssuedUpdate DEF RequestRecord
  <2>5. Becomes(q, request[q].kind, "done", request[q].persona,
                request[q].session, base, next)
    BY <1>0, <1>10, StageUpdate DEF Recovered, Release, Stages
  <2>6. now'.authority = r
    BY <2>3 DEF PublishSettings
  <2>7. \A t \in Runtimes : runtime'[t].status = "active" => t = r
    BY <2>2, <2>4, MaxRuntimesAssumption DEF Runtimes
  <2> QED
    BY <2>1, <2>2, <2>5, <2>6, <2>7, TurnStep DEF TurnStages, Published
<1>11. CASE RecoveryFails(q)
  <2>1. InTurn(q, "recovering") /\ UNCHANGED runtime /\ holder' = None
    BY <1>11 DEF RecoveryFails, Release
  <2>2. /\ holder = q /\ now.authority = 0
        /\ \A t \in Runtimes : runtime[t].status = "active" => t \in {now.authority, 0}
    BY <2>1, InItsTurn DEF TurnStages
  <2>3. Becomes(q, request[q].kind, "done", request[q].persona,
                request[q].session, base, next)
    BY <1>0, <1>11, StageUpdate DEF RecoveryFails, Release, Stages
  <2>4. now'.authority = 0
    BY <1>0, <1>11, SelectUpdate DEF RecoveryFails, Selects
  <2> QED
    BY <2>1, <2>2, <2>3, <2>4, TurnStep DEF TurnStages, Published
<1> QED
  BY <1>1, <1>2, <1>3, <1>4, <1>5, <1>6, <1>7, <1>8, <1>9, <1>10, <1>11

LEMMA OthersTurn ==
  ASSUME Inv,
         \/ Chat \/ \E r \in Runtimes : RunEnds(r)
         \/ \E s \in Sessions : Rollback(s)
         \/ Shutdown \/ FinalCheck
  PROVE  TurnInv'
<1>0. TypeOK /\ now \in NowRecord /\ now.authority \in Runtimes \cup {0}
  <2>1. TypeOK /\ now \in NowRecord
    BY Typed DEF Inv
  <2> QED
    BY <2>1 DEF NowRecord
<1>1. UNCHANGED <<holder, request>>
  BY DEF Chat, RunEnds, Rollback, Shutdown, FinalCheck
<1>2. CASE Chat \/ \E r \in Runtimes : RunEnds(r)
  BY <1>1, <1>2, OtherStep DEF Chat, RunEnds
<1>3. ASSUME NEW s \in Sessions, Rollback(s)
      PROVE  TurnInv'
  <2>1. runtime \in [Runtimes -> RuntimeRecord] /\ now' = now
    BY <1>3, Typed DEF Inv, Rollback
  <2>2. now.agent \in Runtimes
    BY <1>0, <1>3 DEF Rollback, NowRecord
  <2>3. \A r \in Runtimes : runtime'[r].status = runtime[r].status
    BY <1>3, <2>1, <2>2 DEF Rollback, RuntimeRecord
  <2> QED
    BY <1>1, <2>1, <2>3, OtherStep
<1>4. CASE Shutdown \/ FinalCheck
  <2>1. \A t \in Runtimes :
          runtime'[t].status = IF t = now.authority THEN "retired" ELSE runtime[t].status
    BY <1>0, <1>4, RetiredUpdate DEF Shutdown, FinalCheck
  <2>2. now'.authority = 0
    <3>1. CASE Shutdown
      BY <1>0, <3>1, SelectUpdate DEF Shutdown, Selects
    <3>2. CASE FinalCheck
      BY <1>0, <3>2 DEF FinalCheck, NowRecord
    <3> QED
      BY <1>4, <3>1, <3>2
  <2> QED
    BY <1>1, <2>1, <2>2, OtherStep
<1> QED
  BY <1>2, <1>3, <1>4

LEMMA InitInv == Init => Inv
<1> SUFFICES ASSUME Init PROVE Inv
  OBVIOUS
<1>1. now.authority = 1 /\ holder = None
  BY DEF Init
<1>2. \A r \in Runtimes : r # 1 => runtime[r].status # "active"
  BY DEF Init
<1>3. \A q \in Requests : request[q].stage = "idle"
  BY DEF Init
<1>4. TurnInv
  BY <1>1, <1>2, <1>3, RequestsAssumption
  DEF TurnInv, OneTurn, OnlySelectedOrCandidate, TurnOrder, Active, TurnStages
<1> QED
  BY <1>4, InitTyped DEF Inv

LEMMA NextInv == Inv /\ [Next]_vars => Inv'
<1> SUFFICES ASSUME Inv, [Next]_vars PROVE TurnInv'
  BY NextTyped DEF Inv
<1>1. CASE UNCHANGED vars
  BY <1>1 DEF vars, Inv, TurnInv, OneTurn, OnlySelectedOrCandidate, Candidate,
              TurnOrder, Active
<1>2. ASSUME NEW q \in Requests, Route(q) \/ Acquire(q) \/ Settles(q) \/ Assign(q)
      PROVE  TurnInv'
  BY <1>2, RouteTurn, AcquireTurn, TurnKept DEF Settles
<1> QED
  BY <1>1, <1>2, OthersTurn DEF Next

LEMMA Invariance == Spec => []Inv
  BY InitInv, NextInv, PTL DEF Spec

\* However replacements, settings changes and their failures interleave with
\* each other and with the shutdown, an authority that is still active is the
\* selected one or the candidate of the one request in its turn.
THEOREM NoLeak == Spec => []NoAuthorityLeak
<1>1. Inv => NoAuthorityLeak
  <2> SUFFICES ASSUME Inv, NEW r \in Runtimes, Active(r), r # now.authority
               PROVE  holder # None /\ r \in {request[holder].base, request[holder].next}
    BY DEF NoAuthorityLeak
  <2> QED
    BY MaxRuntimesAssumption
    DEF Inv, TurnInv, OnlySelectedOrCandidate, Candidate, Runtimes
<1> QED
  BY <1>1, Invariance, PTL

\* No runtime is ever selected while the authority of another is active: the
\* previous one is always revoked first.
THEOREM RevokedFirst == Spec => RevokeBeforePublish
<1>1. Inv /\ [Next]_vars => [Published]_vars
  <2> SUFFICES ASSUME Inv, Next PROVE Published
    OBVIOUS
  <2>1. now \in NowRecord
    BY Typed DEF Inv
  <2>2. ASSUME NEW q \in Requests,
               Route(q) \/ Acquire(q) \/ RebuildRuntime(q) \/ SessionRemoved(q)
        PROVE  Published
    BY <2>2 DEF Published, Route, SwitchPersona, NewSession, SelectSession,
      DeleteSession, UpdateSettings, UpdateProvider, Acquire, RebuildRuntime,
      SessionRemoved
  <2>3. ASSUME NEW q \in Requests, Assign(q)
        PROVE  Published
    BY <2>3, AssignKeeps DEF Published, Inv
  <2>4. CASE \/ Chat \/ \E r \in Runtimes : RunEnds(r)
             \/ \E s \in Sessions : Rollback(s)
    BY <2>4 DEF Published, Chat, RunEnds, Rollback
  <2>5. CASE Shutdown \/ FinalCheck
    <3>1. now'.authority = 0
      BY <2>1, <2>5 DEF Shutdown, FinalCheck, Select, NowRecord
    <3> QED
      BY <3>1 DEF Published
  <2> QED
    BY <2>2, <2>3, <2>4, <2>5, TurnKept DEF Next, Settles
<1>2. Spec => [][Published]_vars
  BY <1>1, Invariance, PTL DEF Spec
<1> QED
  BY <1>2 DEF RevokeBeforePublish, Published

-----------------------------------------------------------------------------
(* What the service serves, and what the settings are published for.       *)

\* While requests are accepted, the agent is the selected authority's, and the
\* authority is active except while its turn retires it.
AgentSelected == accepting => now.agent = now.authority

SelectedLive ==
  accepting /\ now.authority # 0 =>
    \/ Active(now.authority)
    \/ holder # None /\ request[holder].stage \in {"retiring", "stopping"}

\* Until its base is retired a turn sees it selected: only the shutdown selects
\* another, and then no request is accepted any more.
BaseSelected ==
  accepting =>
    \A q \in Requests :
      request[q].stage \in {"preparing", "retiring", "stopping"} =>
        now.authority = request[q].base

CandidateLive ==
  accepting =>
    \A q \in Requests :
      request[q].stage \in {"retiring", "persisting"} => Active(request[q].next)

ServeInv == AgentSelected /\ SelectedLive /\ BaseSelected /\ CandidateLive

\* Once a turn has prepared its candidate, no earlier route is still to assign
\* the persona and the session.
LateSettled ==
  \A q \in Requests :
    request[q].stage \in TurnStages \ {"preparing"} => Settled

\* So what the settings were captured with stays current to their publication,
\* and their candidate stays bound to the captured session.
CapturedCurrent ==
  \A q \in Requests :
    Settings(q) /\ request[q].stage \in {"retiring", "persisting", "recovering"} =>
      now.persona = request[q].persona /\ now.session = request[q].session

CandidateBound ==
  \A q \in Requests :
    Settings(q) /\ request[q].stage \in {"retiring", "persisting"} =>
      /\ request[q].next \in Runtimes
      /\ runtime[request[q].next].session = request[q].session

StaleInv == LateSettled /\ CapturedCurrent /\ CandidateBound

\* The sessions the runtimes are bound to.
LEMMA RetiredSessions ==
  ASSUME TypeOK, NEW r \in Runtimes \cup {0}, runtime' = Retired(r)
  PROVE  \A t \in Runtimes : runtime'[t].session = runtime[t].session
<1>1. runtime \in [Runtimes -> RuntimeRecord]
  BY DEF TypeOK, RuntimeRecord
<1>2. CASE r = 0
  BY <1>2 DEF Retired
<1>3. CASE r # 0
  <2>1. runtime' = [runtime EXCEPT ![r] = [runtime[r] EXCEPT !.status = "retired"]]
    BY <1>3 DEF Retired
  <2>2. [runtime[r] EXCEPT !.status = "retired"].session = runtime[r].session
    BY <1>1, <1>3 DEF RuntimeRecord
  <2> QED
    BY <1>1, <1>3, <2>1, <2>2
<1> QED
  BY <1>2, <1>3

LEMMA IssuedSession ==
  ASSUME NEW r \in Runtimes, NEW p, NEW s, NEW R, Issued(r, p, s, R)
  PROVE  runtime'[r].session = s
<1>1. runtime'[r] = [status |-> IF r \in R THEN "retired" ELSE "active",
                     persona |-> p, session |-> s]
  BY DEF Issued
<1> QED
  BY <1>1

\* What a step of a turn has to leave for its request, at stage st, base b and
\* candidate n.
ServesWith(st, b, n) ==
  accepting =>
    /\ now'.agent = now'.authority
    /\ \/ now'.authority = 0 \/ runtime'[now'.authority].status = "active"
       \/ st \in {"retiring", "stopping"}
    /\ st \in {"preparing", "retiring", "stopping"} => now'.authority = b
    /\ st \in {"retiring", "persisting"} => n # 0 /\ runtime'[n].status = "active"

PublishesFor(k, st, p, s, n) ==
  /\ st \in TurnStages \ {"preparing"} => Settled
  /\ k = "settings" /\ st \in {"retiring", "persisting", "recovering"} =>
       now'.persona = p /\ now'.session = s
  /\ k = "settings" /\ st \in {"retiring", "persisting"} =>
       n \in Runtimes /\ runtime'[n].session = s

\* A step of the request in its turn, or its first.
LEMMA SelectionStep ==
  ASSUME Inv, NEW q \in Requests, NEW k, NEW st, NEW p, NEW s, NEW b, NEW n,
         Becomes(q, k, st, p, s, b, n),
         holder \in {q, None},
         holder' = IF st \in TurnStages THEN q ELSE None,
         accepting' = accepting,
         ServesWith(st, b, n), PublishesFor(k, st, p, s, n)
  PROVE  ServeInv' /\ StaleInv'
<1>1. \A t \in Requests : t # q => request'[t] = request[t]
  BY DEF Becomes
<1>2. /\ request'[q].kind = k /\ request'[q].stage = st /\ request'[q].persona = p
      /\ request'[q].session = s /\ request'[q].next = n /\ request'[q].base = b
  BY DEF Becomes
<1>3. \A t \in Requests : t # q => request'[t].stage \notin TurnStages
  BY <1>1, RequestsAssumption DEF Inv, TurnInv, OneTurn
<1>4. AgentSelected'
  BY DEF ServesWith, AgentSelected
<1>5. SelectedLive'
  BY <1>2, RequestsAssumption DEF ServesWith, SelectedLive, Active, TurnStages
<1>6. BaseSelected'
  BY <1>2, <1>3 DEF ServesWith, BaseSelected, TurnStages
<1>7. CandidateLive'
  BY <1>2, <1>3 DEF ServesWith, CandidateLive, Active, TurnStages
<1>8. LateSettled'
  <2>1. ASSUME NEW t \in Requests, request'[t].stage \in TurnStages \ {"preparing"}
        PROVE  Settled'
    <3>1. t = q /\ st \in TurnStages /\ Settled
      BY <1>2, <1>3, <2>1 DEF PublishesFor
    <3> QED
      BY <1>1, <1>2, <3>1 DEF Settled, TurnStages
  <2> QED
    BY <2>1 DEF LateSettled
<1>9. CapturedCurrent'
  BY <1>2, <1>3 DEF PublishesFor, CapturedCurrent, Settings, TurnStages
<1>10. CandidateBound'
  BY <1>2, <1>3 DEF PublishesFor, CandidateBound, Settings, TurnStages
<1> QED
  BY <1>4, <1>5, <1>6, <1>7, <1>8, <1>9, <1>10 DEF ServeInv, StaleInv

\* A step of a request outside its turn.
LEMMA OutsideStep ==
  ASSUME Inv, ServeInv, StaleInv, NEW q \in Requests,
         NEW k, NEW st, NEW p, NEW s, NEW b, NEW n,
         Becomes(q, k, st, p, s, b, n),
         request[q].stage \notin TurnStages,
         st \notin TurnStages \cup {"published"},
         UNCHANGED <<accepting, holder, runtime>>,
         now'.authority = now.authority, now'.agent = now.agent,
         now' = now \/ ~Settled
  PROVE  ServeInv' /\ StaleInv'
<1>1. \A t \in Requests : t # q => request'[t] = request[t]
  BY DEF Becomes
<1>2. request'[q].stage = st
  BY DEF Becomes
<1>3. holder # q
  BY DEF Inv, TurnInv, OneTurn
<1>4. holder # None => request'[holder] = request[holder]
  <2>1. holder # None => holder \in Requests
    BY Typed DEF Inv
  <2> QED
    BY <1>1, <1>3, <2>1
<1>5. AgentSelected' /\ SelectedLive'
  BY <1>4 DEF ServeInv, AgentSelected, SelectedLive, Active
<1>6. BaseSelected' /\ CandidateLive'
  BY <1>1, <1>2 DEF ServeInv, BaseSelected, CandidateLive, Active, TurnStages
<1>7. Settled => Settled'
  BY <1>1, <1>2 DEF Settled
<1>8. ASSUME NEW t \in Requests, request'[t].stage \in TurnStages \ {"preparing"}
      PROVE  request'[t] = request[t] /\ Settled' /\ now' = now
  <2>1. t # q
    BY <1>2, <1>8
  <2>2. request'[t] = request[t]
    BY <1>1, <2>1
  <2>3. Settled
    BY <1>8, <2>2 DEF StaleInv, LateSettled
  <2> QED
    BY <1>7, <2>2, <2>3
<1>9. LateSettled' /\ CapturedCurrent' /\ CandidateBound'
  BY <1>8 DEF StaleInv, LateSettled, CapturedCurrent, CandidateBound, Settings, TurnStages
<1> QED
  BY <1>5, <1>6, <1>9 DEF ServeInv, StaleInv

\* Settings are published for what is current (StaleNeverPublished).
PublishedFresh ==
  \A q \in Requests :
    (Settings(q) /\ holder = q /\ now'.authority \notin {0, now.authority}) =>
      /\ now.persona = request[q].persona
      /\ now.session = request[q].session
      /\ runtime'[now'.authority].session = now.session

\* What the request in its turn may rely on.
LEMMA InItsSelection ==
  ASSUME Inv, ServeInv, StaleInv,
         NEW q \in Requests, NEW stage \in TurnStages, InTurn(q, stage)
  PROVE  /\ accepting =>
              /\ now.agent = now.authority
              /\ \/ now.authority = 0 \/ runtime[now.authority].status = "active"
                 \/ stage \in {"retiring", "stopping"}
              /\ stage \in {"preparing", "retiring", "stopping"} =>
                   now.authority = request[q].base
              /\ stage \in {"retiring", "persisting"} =>
                   request[q].next # 0 /\ runtime[request[q].next].status = "active"
         /\ Settings(q) /\ stage \in {"retiring", "persisting", "recovering"} =>
              now.persona = request[q].persona /\ now.session = request[q].session
         /\ Settings(q) /\ stage \in {"retiring", "persisting"} =>
              /\ request[q].next \in Runtimes
              /\ runtime[request[q].next].session = request[q].session
<1>1. holder = q /\ request[q].stage = stage
  BY DEF InTurn
<1> QED
  BY <1>1 DEF ServeInv, AgentSelected, SelectedLive, BaseSelected, CandidateLive,
              StaleInv, CapturedCurrent, CandidateBound, Active

LEMMA ReplacementKept ==
  ASSUME Inv, ServeInv, StaleInv, NEW q \in Requests, PreparedReplacement(q)
  PROVE  ServeInv' /\ StaleInv' /\ PublishedFresh
<1> DEFINE base == request[q].base
           next == request[q].next
<1>0. /\ TypeInv /\ TypeOK /\ request[q] \in RequestRecord /\ now \in NowRecord
      /\ base \in Runtimes \cup {0}
  BY Typed DEF Inv, RequestRecord
<1>1. InTurn(q, "preparing") /\ Settled /\ ~Settings(q) /\ accepting' = accepting
  BY DEF PreparedReplacement
<1>2. PICK r \in Runtimes :
        /\ Issued(r, request[q].persona, request[q].session, {base})
        /\ Fresh(r)
        /\ IF base = 0
             THEN Release(q, "published") /\ Select(r)
             ELSE /\ request' = [request EXCEPT ![q].stage = "retiring", ![q].next = r]
                  /\ UNCHANGED <<holder, now>>
  BY DEF PreparedReplacement
<1>3. \A t \in Runtimes :
        runtime'[t].status = IF t = base THEN "retired"
                             ELSE IF t = r THEN "active" ELSE runtime[t].status
  BY <1>0, <1>2, IssuedUpdate DEF RequestRecord
<1>4. holder = q
  BY <1>1 DEF InTurn
<1>5. accepting => /\ now.agent = now.authority /\ now.authority = base
                   /\ now.authority = 0 \/ runtime[now.authority].status = "active"
  BY <1>1, InItsSelection DEF TurnStages
<1>6. r # 0 /\ runtime[r].status = "none"
  BY <1>2, MaxRuntimesAssumption DEF Fresh, Runtimes
<1>7. accepting => r # base
  BY <1>5, <1>6
<1>8. PublishedFresh
  BY <1>1, <1>4 DEF PublishedFresh
<1>9. CASE base = 0
  <2>1. Becomes(q, request[q].kind, "published", request[q].persona,
                request[q].session, base, next)
    BY <1>0, <1>2, <1>9, StageUpdate DEF Release, Stages
  <2>2. now'.authority = r /\ now'.agent = r /\ holder' = None
    BY <1>0, <1>2, <1>9, SelectUpdate DEF Selects, Release
  <2>3. ServesWith("published", base, next)
    BY <1>3, <1>7, <2>2 DEF ServesWith
  <2>4. PublishesFor(request[q].kind, "published", request[q].persona,
                     request[q].session, next)
    BY DEF PublishesFor, TurnStages
  <2> HIDE DEF base, next
  <2> QED
    BY <1>1, <1>4, <1>8, <2>1, <2>2, <2>3, <2>4, SelectionStep DEF TurnStages
<1>10. CASE base # 0
  <2>1. Becomes(q, request[q].kind, "retiring", request[q].persona,
                request[q].session, base, r)
    BY <1>0, <1>2, <1>10, PreparedBecomes
  <2>2. now' = now /\ holder' = holder
    BY <1>2, <1>10
  <2>3. ServesWith("retiring", base, r)
    BY <1>3, <1>5, <1>6, <1>7, <2>2 DEF ServesWith
  <2>4. PublishesFor(request[q].kind, "retiring", request[q].persona,
                     request[q].session, r)
    BY <1>1 DEF PublishesFor, Settings
  <2> HIDE DEF base
  <2> QED
    BY <1>1, <1>4, <1>8, <2>1, <2>2, <2>3, <2>4, SelectionStep DEF TurnStages
<1> QED
  BY <1>9, <1>10

LEMMA SettingsKept ==
  ASSUME Inv, ServeInv, StaleInv, NEW q \in Requests, PreparedSettings(q)
  PROVE  ServeInv' /\ StaleInv' /\ PublishedFresh
<1> DEFINE base == request[q].base
           next == request[q].next
<1>0. /\ TypeInv /\ TypeOK /\ request[q] \in RequestRecord /\ now \in NowRecord
      /\ base \in Runtimes \cup {0}
  BY Typed DEF Inv, RequestRecord
<1>1. InTurn(q, "preparing") /\ Settled /\ UNCHANGED <<accepting, holder, now>>
  BY DEF PreparedSettings
<1>2. PICK r \in Runtimes :
        /\ Fresh(r)
        /\ IF IsBaseCurrent(q)
             THEN /\ Issued(r, request[q].persona, request[q].session, {base})
                  /\ request' = [request EXCEPT
                       ![q].stage = IF base = 0 THEN "persisting" ELSE "retiring",
                       ![q].next = r]
             ELSE /\ Issued(r, request[q].persona, request[q].session, {r})
                  /\ Stage(q, "discarding")
  BY DEF PreparedSettings
<1>3. holder = q
  BY <1>1 DEF InTurn
<1>4. accepting => /\ now.agent = now.authority /\ now.authority = base
                   /\ now.authority = 0 \/ runtime[now.authority].status = "active"
  BY <1>1, InItsSelection DEF TurnStages
<1>5. r # 0 /\ runtime[r].status = "none"
  BY <1>2, MaxRuntimesAssumption DEF Fresh, Runtimes
<1>6. PublishedFresh
  BY <1>1 DEF PublishedFresh
<1>7. runtime'[r].session = request[q].session
  BY <1>2, IssuedSession
<1>8. CASE IsBaseCurrent(q)
  <2> DEFINE stage == IF base = 0 THEN "persisting" ELSE "retiring"
  <2>1. \A t \in Runtimes :
          runtime'[t].status = IF t = base THEN "retired"
                               ELSE IF t = r THEN "active" ELSE runtime[t].status
    <3>1. Issued(r, request[q].persona, request[q].session, {base})
      BY <1>2, <1>8
    <3> QED
      BY <1>0, <3>1, IssuedUpdate DEF RequestRecord
  <2>2. Becomes(q, request[q].kind, stage, request[q].persona,
                request[q].session, base, r)
    BY <1>0, <1>2, <1>8, PreparedBecomes
  <2>3. accepting => r # base
    BY <1>4, <1>5
  <2>4. ServesWith(stage, base, r)
    BY <1>1, <1>4, <1>5, <2>1, <2>3 DEF ServesWith
  <2>5. PublishesFor(request[q].kind, stage, request[q].persona,
                     request[q].session, r)
    BY <1>1, <1>7, <1>8 DEF PublishesFor, IsBaseCurrent
  <2>6. stage \in TurnStages
    BY DEF TurnStages
  <2> HIDE DEF base, next, stage
  <2> QED
    BY <1>1, <1>3, <1>6, <2>2, <2>4, <2>5, <2>6, SelectionStep
<1>9. CASE ~IsBaseCurrent(q)
  <2>1. \A t \in Runtimes :
          runtime'[t].status = IF t = r THEN "retired" ELSE runtime[t].status
    BY <1>0, <1>2, <1>9, IssuedUpdate DEF RequestRecord
  <2>2. Becomes(q, request[q].kind, "discarding", request[q].persona,
                request[q].session, base, next)
    BY <1>0, <1>2, <1>9, StageUpdate DEF Stages, TurnStages
  <2>3. accepting => now.authority = 0 \/ runtime'[now.authority].status = "active"
    BY <1>0, <1>4, <1>5, <2>1
  <2>4. ServesWith("discarding", base, next)
    BY <1>1, <1>4, <2>3 DEF ServesWith
  <2>5. PublishesFor(request[q].kind, "discarding", request[q].persona,
                     request[q].session, next)
    BY <1>1 DEF PublishesFor
  <2> HIDE DEF base, next
  <2> QED
    BY <1>1, <1>3, <1>6, <2>2, <2>4, <2>5, SelectionStep DEF TurnStages
<1> QED
  BY <1>8, <1>9

LEMMA SelectionKept ==
  ASSUME Inv, ServeInv, StaleInv, NEW q \in Requests,
         \/ PrepareFails(q) \/ Discarded(q)
         \/ BaseRetired(q) \/ BaseRetirementFails(q) \/ Stopped(q)
         \/ Persisted(q) \/ PersistFails(q)
         \/ Recovered(q) \/ RecoveryFails(q)
  PROVE  ServeInv' /\ StaleInv' /\ PublishedFresh
<1> DEFINE base == request[q].base
           next == request[q].next
           k == request[q].kind
           p == request[q].persona
           s == request[q].session
<1>0. /\ TypeInv /\ TypeOK /\ request[q] \in RequestRecord /\ now \in NowRecord
      /\ base \in Runtimes \cup {0} /\ next \in Runtimes \cup {0}
  BY Typed DEF Inv, RequestRecord
<1>1. Settled /\ accepting' = accepting
  BY DEF PrepareFails, Discarded, BaseRetired, BaseRetirementFails, Stopped,
         Persisted, PersistFails, Recovered, RecoveryFails
<1>2. \A t \in Requests : holder = q /\ holder = t => t = q
  OBVIOUS
<1>3. CASE PrepareFails(q) \/ Discarded(q)
  <2>1. PICK stage \in {"preparing", "discarding"} : InTurn(q, stage)
    BY <1>3 DEF PrepareFails, Discarded
  <2>2. holder = q /\ holder' = None /\ UNCHANGED <<runtime, now>>
    BY <1>3 DEF PrepareFails, Discarded, Release, InTurn
  <2>3. accepting => /\ now.agent = now.authority
                     /\ now.authority = 0 \/ runtime[now.authority].status = "active"
    BY <2>1, InItsSelection DEF TurnStages
  <2>4. Becomes(q, k, "done", p, s, base, next)
    BY <1>0, <1>3, StageUpdate DEF PrepareFails, Discarded, Release, Stages
  <2>5. ServesWith("done", base, next) /\ PublishesFor(k, "done", p, s, next)
    BY <2>2, <2>3 DEF ServesWith, PublishesFor, TurnStages
  <2>6. PublishedFresh
    BY <2>2 DEF PublishedFresh
  <2> HIDE DEF base, next, k, p, s
  <2> QED
    BY <1>1, <2>2, <2>4, <2>5, <2>6, SelectionStep DEF TurnStages
<1>4. CASE BaseRetired(q) /\ Settings(q)
  <2>1. InTurn(q, "retiring") /\ holder = q /\ UNCHANGED <<runtime, holder>>
    BY <1>4 DEF BaseRetired, InTurn
  <2>2. /\ now'.authority = 0 /\ now'.agent = 0
        /\ now'.persona = now.persona /\ now'.session = now.session
    BY <1>0, <1>4, SelectUpdate DEF BaseRetired, Selects
  <2>3. /\ accepting => next # 0 /\ runtime[next].status = "active"
        /\ now.persona = p /\ now.session = s
        /\ next \in Runtimes /\ runtime[next].session = s
    BY <1>4, <2>1, InItsSelection DEF TurnStages
  <2>4. Becomes(q, k, "persisting", p, s, base, next)
    BY <1>0, <1>4, StageUpdate DEF BaseRetired, Stages, TurnStages
  <2>5. ServesWith("persisting", base, next)
    BY <2>1, <2>2, <2>3 DEF ServesWith
  <2>6. PublishesFor(k, "persisting", p, s, next)
    BY <1>1, <2>1, <2>2, <2>3 DEF PublishesFor
  <2>7. PublishedFresh
    BY <2>2 DEF PublishedFresh
  <2> HIDE DEF base, next, k, p, s
  <2> QED
    BY <1>1, <2>1, <2>4, <2>5, <2>6, <2>7, SelectionStep DEF TurnStages
<1>5. CASE BaseRetired(q) /\ ~Settings(q)
  <2>1. InTurn(q, "retiring") /\ holder = q /\ UNCHANGED runtime /\ holder' = None
    BY <1>5 DEF BaseRetired, InTurn, Release
  <2>2. now'.authority = next /\ now'.agent = next
    BY <1>0, <1>5, SelectUpdate DEF BaseRetired, Selects
  <2>3. accepting => next # 0 /\ runtime[next].status = "active"
    BY <2>1, InItsSelection DEF TurnStages
  <2>4. Becomes(q, k, "published", p, s, base, next)
    BY <1>0, <1>5, StageUpdate DEF BaseRetired, Release, Stages
  <2>5. ServesWith("published", base, next) /\ PublishesFor(k, "published", p, s, next)
    BY <2>1, <2>2, <2>3 DEF ServesWith, PublishesFor, TurnStages
  <2>6. PublishedFresh
    BY <1>5, <2>1 DEF PublishedFresh
  <2> HIDE DEF base, next, k, p, s
  <2> QED
    BY <1>1, <2>1, <2>4, <2>5, <2>6, SelectionStep DEF TurnStages
<1>6. CASE BaseRetirementFails(q)
  <2>1. InTurn(q, "retiring") /\ holder = q /\ UNCHANGED <<now, holder>>
    BY <1>6 DEF BaseRetirementFails, InTurn
  <2>2. accepting => now.agent = now.authority /\ now.authority = base
    BY <2>1, InItsSelection DEF TurnStages
  <2>3. Becomes(q, k, "stopping", p, s, base, next)
    BY <1>0, <1>6, StageUpdate DEF BaseRetirementFails, Stages, TurnStages
  <2>4. ServesWith("stopping", base, next) /\ PublishesFor(k, "stopping", p, s, next)
    BY <1>1, <2>1, <2>2 DEF ServesWith, PublishesFor
  <2>5. PublishedFresh
    BY <2>1 DEF PublishedFresh
  <2> HIDE DEF base, next, k, p, s
  <2> QED
    BY <1>1, <2>1, <2>3, <2>4, <2>5, SelectionStep DEF TurnStages
<1>7. CASE Stopped(q) \/ RecoveryFails(q)
  <2>1. holder = q /\ holder' = None
    BY <1>7 DEF Stopped, RecoveryFails, InTurn, Release
  <2>2. now'.authority = 0 /\ now'.agent = 0
    BY <1>0, <1>7, SelectUpdate DEF Stopped, RecoveryFails, Selects
  <2>3. Becomes(q, k, "done", p, s, base, next)
    BY <1>0, <1>7, StageUpdate DEF Stopped, RecoveryFails, Release, Stages
  <2>4. ServesWith("done", base, next) /\ PublishesFor(k, "done", p, s, next)
    BY <2>2 DEF ServesWith, PublishesFor, TurnStages
  <2>5. PublishedFresh
    BY <2>2 DEF PublishedFresh
  <2> HIDE DEF base, next, k, p, s
  <2> QED
    BY <1>1, <2>1, <2>3, <2>4, <2>5, SelectionStep DEF TurnStages
<1>8. CASE Persisted(q)
  <2>1. InTurn(q, "persisting") /\ holder = q /\ UNCHANGED runtime /\ holder' = None
    BY <1>8 DEF Persisted, InTurn, Release
  <2>2. now'.authority = next /\ now'.agent = next
    BY <1>8 DEF Persisted, PublishSettings
  <2>3. /\ accepting => next # 0 /\ runtime[next].status = "active"
        /\ Settings(q) => /\ now.persona = p /\ now.session = s
                          /\ runtime[next].session = s
    BY <2>1, InItsSelection DEF TurnStages
  <2>4. Becomes(q, k, "done", p, s, base, next)
    BY <1>0, <1>8, StageUpdate DEF Persisted, Release, Stages
  <2>5. ServesWith("done", base, next) /\ PublishesFor(k, "done", p, s, next)
    BY <2>1, <2>2, <2>3 DEF ServesWith, PublishesFor, TurnStages
  <2>6. PublishedFresh
    BY <1>2, <2>1, <2>2, <2>3 DEF PublishedFresh
  <2> HIDE DEF base, next, k, p, s
  <2> QED
    BY <1>1, <2>1, <2>4, <2>5, <2>6, SelectionStep DEF TurnStages
<1>9. CASE PersistFails(q)
  <2>1. InTurn(q, "persisting") /\ holder = q /\ UNCHANGED <<now, holder>>
    BY <1>9 DEF PersistFails, InTurn
  <2>2. now.authority = 0
    BY <2>1, InItsTurn DEF TurnStages
  <2>3. /\ accepting => now.agent = now.authority
        /\ Settings(q) => now.persona = p /\ now.session = s
    BY <2>1, InItsSelection DEF TurnStages
  <2>4. Becomes(q, k, "recovering", p, s, base, next)
    BY <1>0, <1>9, StageUpdate DEF PersistFails, Stages, TurnStages
  <2>5. ServesWith("recovering", base, next)
    BY <2>1, <2>2, <2>3 DEF ServesWith
  <2>6. PublishesFor(k, "recovering", p, s, next)
    BY <1>1, <2>1, <2>3 DEF PublishesFor, Settings
  <2>7. PublishedFresh
    BY <2>1 DEF PublishedFresh
  <2> HIDE DEF base, next, k, p, s
  <2> QED
    BY <1>1, <2>1, <2>4, <2>5, <2>6, <2>7, SelectionStep DEF TurnStages
<1>10. CASE Recovered(q)
  <2>1. InTurn(q, "recovering") /\ holder = q /\ holder' = None
    BY <1>10 DEF Recovered, InTurn, Release
  <2>2. PICK r \in Runtimes :
          /\ Issued(r, request[q].persona, request[q].session, {})
          /\ PublishSettings(q, r)
    BY <1>10 DEF Recovered
  <2>3. now'.authority = r /\ now'.agent = r
    BY <2>2 DEF PublishSettings
  <2>4. runtime'[r].status = "active" /\ runtime'[r].session = s
    <3>1. \A t \in Runtimes :
            runtime'[t].status = IF t = r THEN "active" ELSE runtime[t].status
      <4>1. /\ request[q].persona \in Personas \cup {None}
            /\ request[q].session \in Sessions \cup {None}
        BY <1>0 DEF RequestRecord
      <4> HIDE DEF k, p, s, base, next
      <4> QED
        BY <1>0, <2>2, <4>1, IssuedUpdate
    <3>2. runtime'[r].session = s
      BY <2>2, IssuedSession
    <3> QED
      BY <3>1, <3>2
  <2>5. Settings(q) => now.persona = p /\ now.session = s
    BY <2>1, InItsSelection DEF TurnStages
  <2>6. Becomes(q, k, "done", p, s, base, next)
    BY <1>0, <1>10, StageUpdate DEF Recovered, Release, Stages
  <2>7. ServesWith("done", base, next) /\ PublishesFor(k, "done", p, s, next)
    BY <2>3, <2>4 DEF ServesWith, PublishesFor, TurnStages
  <2>8. PublishedFresh
    BY <1>2, <2>1, <2>3, <2>4, <2>5 DEF PublishedFresh
  <2> HIDE DEF base, next, k, p, s
  <2> QED
    BY <1>1, <2>1, <2>6, <2>7, <2>8, SelectionStep DEF TurnStages
<1> QED
  BY <1>3, <1>4, <1>5, <1>6, <1>7, <1>8, <1>9, <1>10

LEMMA AcquireSelection ==
  ASSUME Inv, ServeInv, StaleInv, NEW q \in Requests, Acquire(q)
  PROVE  ServeInv' /\ StaleInv'
<1>1. /\ holder = None /\ request[q].stage = "queued"
      /\ UNCHANGED <<accepting, runtime, now>>
  BY DEF Acquire
<1>2. TypeInv /\ TypeOK
  BY Typed DEF Inv
<1>3. CASE holder' = q
  <2>1. PICK p, s :
          Becomes(q, request[q].kind, "preparing", p, s, now.authority,
                  request[q].next)
    BY <1>2, <1>3, AcquireBecomes
  <2>2. ServesWith("preparing", now.authority, request[q].next)
    BY <1>1 DEF ServesWith, ServeInv, AgentSelected, SelectedLive, Active
  <2>3. PublishesFor(request[q].kind, "preparing", p, s, request[q].next)
    BY DEF PublishesFor
  <2> QED
    BY <1>1, <1>3, <2>1, <2>2, <2>3, SelectionStep DEF TurnStages
<1>4. CASE holder' # q
  <2>1. Stage(q, "done") /\ holder' = holder
    BY <1>4 DEF Acquire
  <2>2. Becomes(q, request[q].kind, "done", request[q].persona,
                request[q].session, request[q].base, request[q].next)
    BY <1>2, <2>1, StageUpdate DEF Stages
  <2> QED
    BY <1>1, <2>1, <2>2, OutsideStep DEF TurnStages
<1> QED
  BY <1>3, <1>4

LEMMA OthersSelection ==
  ASSUME Inv, ServeInv, StaleInv,
         \/ Chat \/ \E r \in Runtimes : RunEnds(r)
         \/ \E s \in Sessions : Rollback(s)
         \/ Shutdown \/ FinalCheck
  PROVE  ServeInv' /\ StaleInv' /\ now'.authority \in {0, now.authority}
<1>0. /\ TypeOK /\ now \in NowRecord /\ now.authority \in Runtimes \cup {0}
      /\ runtime \in [Runtimes -> RuntimeRecord]
  BY Typed DEF Inv, NowRecord
<1>1. UNCHANGED <<holder, request>>
  BY DEF Chat, RunEnds, Rollback, Shutdown, FinalCheck
<1>2. CASE Chat \/ \E r \in Runtimes : RunEnds(r)
  <2>1. UNCHANGED <<accepting, runtime, now>>
    BY <1>2 DEF Chat, RunEnds
  <2> QED
    BY <1>1, <2>1
    DEF ServeInv, AgentSelected, SelectedLive, BaseSelected, CandidateLive, Active,
        StaleInv, LateSettled, CapturedCurrent, CandidateBound, Settled, Settings
<1>3. ASSUME NEW s \in Sessions, Rollback(s)
      PROVE  ServeInv' /\ StaleInv' /\ now'.authority \in {0, now.authority}
  <2>1. UNCHANGED <<accepting, now>> /\ now.session = s
    BY <1>3 DEF Rollback
  <2>2. now.agent \in Runtimes
    BY <1>0, <1>3 DEF Rollback, NowRecord
  <2>3. \A r \in Runtimes :
          /\ runtime'[r].status = runtime[r].status
          /\ runtime'[r].session = IF r = now.agent THEN s ELSE runtime[r].session
    BY <1>0, <1>3, <2>2 DEF Rollback, RuntimeRecord
  <2>4. \A q \in Requests : request[q].next \in Runtimes \cup {0}
    BY Typed DEF Inv, RequestRecord
  <2>5. ServeInv'
    BY <1>0, <1>1, <2>1, <2>3, <2>4
    DEF ServeInv, AgentSelected, SelectedLive, BaseSelected, CandidateLive, Active
  <2>6. StaleInv'
    BY <1>1, <2>1, <2>3
    DEF StaleInv, LateSettled, CapturedCurrent, CandidateBound, Settled, Settings
  <2> QED
    BY <2>1, <2>5, <2>6
<1>4. CASE Shutdown \/ FinalCheck
  <2>1. ~accepting'
    BY <1>4 DEF Shutdown, FinalCheck
  <2>2. /\ now'.authority = 0
        /\ now'.persona = now.persona /\ now'.session = now.session
    <3>1. CASE Shutdown
      BY <1>0, <3>1, SelectUpdate DEF Shutdown, Selects
    <3>2. CASE FinalCheck
      BY <1>0, <3>2 DEF FinalCheck, NowRecord
    <3> QED
      BY <1>4, <3>1, <3>2
  <2>3. \A r \in Runtimes : runtime'[r].session = runtime[r].session
    BY <1>0, <1>4, RetiredSessions DEF Shutdown, FinalCheck
  <2>4. ServeInv'
    BY <2>1 DEF ServeInv, AgentSelected, SelectedLive, BaseSelected, CandidateLive
  <2>5. StaleInv'
    BY <1>1, <2>2, <2>3
    DEF StaleInv, LateSettled, CapturedCurrent, CandidateBound, Settled, Settings
  <2> QED
    BY <2>2, <2>4, <2>5
<1> QED
  BY <1>2, <1>3, <1>4

LEMMA InitSelection == Init => ServeInv /\ StaleInv
<1> SUFFICES ASSUME Init PROVE ServeInv /\ StaleInv
  OBVIOUS
<1>1. now.authority = 1 /\ now.agent = 1
  BY DEF Init
<1>2. runtime[1].status = "active"
  BY MaxRuntimesAssumption DEF Init, Runtimes
<1>3. \A q \in Requests : request[q].stage = "idle"
  BY DEF Init
<1> QED
  BY <1>1, <1>2, <1>3
  DEF ServeInv, AgentSelected, SelectedLive, BaseSelected, CandidateLive, Active,
      StaleInv, LateSettled, CapturedCurrent, CandidateBound, TurnStages

LEMMA NextSelection ==
  Inv /\ ServeInv /\ StaleInv /\ [Next]_vars =>
    ServeInv' /\ StaleInv' /\ (PublishedFresh \/ UNCHANGED vars)
<1> SUFFICES ASSUME Inv, ServeInv, StaleInv, [Next]_vars
             PROVE  ServeInv' /\ StaleInv' /\ (PublishedFresh \/ UNCHANGED vars)
  OBVIOUS
<1>1. CASE UNCHANGED vars
  BY <1>1
  DEF vars, ServeInv, AgentSelected, SelectedLive, BaseSelected, CandidateLive, Active,
      StaleInv, LateSettled, CapturedCurrent, CandidateBound, Settled, Settings
<1>2. ASSUME NEW q \in Requests,
             Route(q) \/ RebuildRuntime(q) \/ SessionRemoved(q) \/ Assign(q)
      PROVE  ServeInv' /\ StaleInv' /\ now'.authority = now.authority
  <2>1. TypeInv
    BY DEF Inv
  <2> QED
    BY <1>2, <2>1, RouteBecomes, OutsideStep
<1>3. ASSUME NEW q \in Requests, Acquire(q)
      PROVE  ServeInv' /\ StaleInv' /\ now'.authority = now.authority
  BY <1>3, AcquireSelection DEF Acquire
<1>4. now'.authority \in {0, now.authority} => PublishedFresh
  BY DEF PublishedFresh
<1> QED
  BY <1>1, <1>2, <1>3, <1>4, ReplacementKept, SettingsKept, SelectionKept,
     OthersSelection DEF Next, Settles

LEMMA SelectionInvariance == Spec => [](Inv /\ ServeInv /\ StaleInv)
  BY InitInv, NextInv, InitSelection, NextSelection, PTL DEF Spec

\* While the service accepts requests, chats are given to the agent of an active
\* authority, unless the request in its turn is retiring it: neither a failed
\* preparation, retirement or write of the settings nor a rollback in between
\* leaves a retired runtime selected.
THEOREM ServedIsLiveHolds == Spec => []ServedIsLive
<1>1. Inv /\ ServeInv => ServedIsLive
  <2> SUFFICES ASSUME Inv, ServeInv, accepting, now.agent # 0, ~Active(now.agent)
               PROVE  /\ holder # None
                      /\ request[holder].base = now.agent
                      /\ request[holder].stage \in {"retiring", "stopping"}
    BY DEF ServeInv, AgentSelected, ServedIsLive
  <2>1. now.agent = now.authority
    BY DEF ServeInv, AgentSelected
  <2>2. holder # None /\ request[holder].stage \in {"retiring", "stopping"}
    BY <2>1 DEF ServeInv, SelectedLive
  <2>3. holder \in Requests
    BY <2>2, Typed DEF Inv
  <2> QED
    BY <2>1, <2>2, <2>3 DEF ServeInv, BaseSelected
<1> QED
  BY <1>1, SelectionInvariance, PTL

\* Settings are published only for the persona and the session that are current
\* at that moment, with a runtime bound to that session: a route that was still
\* to assign either when the settings were captured makes their candidate stale.
THEOREM StaleNeverPublishedHolds == Spec => StaleNeverPublished
<1>1. Inv /\ ServeInv /\ StaleInv /\ [Next]_vars => [PublishedFresh]_vars
  BY NextSelection
<1>2. Spec => [][PublishedFresh]_vars
  BY <1>1, SelectionInvariance, PTL DEF Spec
<1> QED
  BY <1>2 DEF StaleNeverPublished, PublishedFresh

===============================================================================
