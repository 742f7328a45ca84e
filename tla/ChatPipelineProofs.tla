------------------------- MODULE ChatPipelineProofs -------------------------
(***************************************************************************)
(* Theorems about ChatPipeline, for all sets of requests, models, prompts  *)
(* and upstream answers, and every setting of the switches.                *)
(***************************************************************************)
EXTENDS ChatPipeline, SequenceTheorems, TLAPS

-----------------------------------------------------------------------------
(***************************************************************************)
(* The inductive invariant: what is known of a request in each phase.      *)
(***************************************************************************)

\* A request is answered when it is given its stream or when it is done, and has
\* its row when it is done, unless it crashed.
Unlogged(r) == pc[r] # "done" => ledger[r] = <<>>
Unanswered(r) ==
  pc[r] \notin {"opening", "streaming", "left", "done"} => answer[r] = NoAnswer
Received(r) ==
  pc[r] \in {"rejected", "retrying", "buffering", "opening", "streaming", "left"} =>
    resp[r] # NoResp
Announced(r) ==
  pc[r] \in {"opening", "streaming", "left"} =>
    input[r].stream /\ answer[r].status = resp[r].status
Accounted(r) ==
  pc[r] = "done" =>
    \/ Crashed(r) /\ answer[r].status = 500 /\ ledger[r] = <<>>
    \/ Len(ledger[r]) = 1 /\ ledger[r][1].status = answer[r].status

\* Which upstream calls were made, with the control or without.
NotSent(r) == pc[r] \in {"idle", "embedding"} => sent[r] = <<>>
SentOnce(r) ==
  pc[r] \in {"forwarding", "rejected", "passing"} => Len(sent[r]) = 1
EvidenceIsTrue(r) ==
  pc[r] \in {"forwarding", "rejected"} => (evidence[r] = "injected" <=> sent[r][1] = TRUE)
RejectedInjected(r) == pc[r] = "rejected" => evidence[r] = "injected"
PassedBare(r) == pc[r] = "passing" => sent[r][1] = FALSE
SentTwice(r) ==
  /\ pc[r] = "retrying" => Len(sent[r]) = 2
  /\ Len(sent[r]) <= 2
  /\ Len(sent[r]) = 2 => /\ sent[r][1] = TRUE /\ sent[r][2] = FALSE
                         /\ input[r].model \in mandatory

\* Where a refusal of the control may have gone.
RefusalHandled(r) ==
  resp[r].body = "mandatory" =>
    \/ pc[r] = "rejected" /\ input[r].model \in Mandatory
    \/ pc[r] = "retrying"
    \/ /\ pc[r] \in {"buffering", "opening", "streaming", "left", "done"}
       /\ ~Retryable(input[r].model)
    \/ pc[r] = "done" /\ answer[r].status # 400

Progress(r) ==
  /\ Unlogged(r) /\ Unanswered(r) /\ Received(r) /\ Announced(r) /\ Accounted(r)
  /\ NotSent(r) /\ SentOnce(r) /\ EvidenceIsTrue(r) /\ RejectedInjected(r)
  /\ PassedBare(r) /\ SentTwice(r)
  /\ RefusalHandled(r)

IInv == TypeOK /\ OnlyRefusersLearned /\ \A r \in Requests : Progress(r)

-----------------------------------------------------------------------------
\* Type correctness.

Rows == Seq(Row)
Answers == [status : Statuses, shape : Shapes, evidence : Notes]
             \cup {Replay(r) : r \in Requests} \cup {NoAnswer}
Responded == [status : Statuses, body : Bodies] \cup {NoResp}

LEMMA LogTyped ==
  ASSUME ledger \in [Requests -> Rows], NEW r \in Requests,
         NEW status \in Statuses, NEW cache \in Labels,
         NEW parts \in SUBSET {"messages", "tools"}, Log(r, status, cache, parts)
  PROVE  ledger' \in [Requests -> Rows]
<1>1. PICK written \in BOOLEAN :
        ledger' = [ledger EXCEPT ![r] = Append(@,
          [status |-> status, cache |-> cache, parts |-> parts, written |-> written])]
  BY DEF Log
<1>2. [status |-> status, cache |-> cache, parts |-> parts, written |-> written] \in Row
  BY DEF Row
<1>3. ledger[r] \in Rows
  OBVIOUS
<1>4. Append(ledger[r], [status |-> status, cache |-> cache, parts |-> parts,
                         written |-> written]) \in Rows
  BY <1>2, <1>3 DEF Rows
<1> QED
  BY <1>1, <1>4

LEMMA AnsweredTyped ==
  ASSUME pc \in [Requests -> Phases], answer \in [Requests -> Answers],
         NEW r \in Requests, NEW status \in Statuses, NEW shape \in Shapes,
         NEW note \in Notes, Answered(r, status, shape, note)
  PROVE  pc' \in [Requests -> Phases] /\ answer' \in [Requests -> Answers]
<1>1. [status |-> status, shape |-> shape, evidence |-> note] \in Answers
  BY DEF Answers
<1> QED
  BY <1>1 DEF Answered, Phases

\* The invariant with its large sets under one name each, and what an action
\* of one request leaves alone of it.
LocalTyped ==
  /\ pc \in [Requests -> Phases]
  /\ input \in [Requests -> Input \cup {NoInput}]
  /\ \A r \in Requests : pc[r] # "idle" => input[r] # NoInput
  /\ snapshot \in [Requests -> BOOLEAN]
  /\ lookup \in [Requests -> Lookups]
  /\ label \in [Requests -> Labels]
  /\ armed \in [Requests -> BOOLEAN]
  /\ sent \in [Requests -> Seq(BOOLEAN)]
  /\ evidence \in [Requests -> Notes]
  /\ counted \in [Requests -> SUBSET {"messages", "tools"}]
  /\ resp \in [Requests -> Responded]
  /\ ledger \in [Requests -> Rows]
  /\ answer \in [Requests -> Answers]

SharedTyped ==
  /\ mandatory \subseteq Models
  /\ index \subseteq Models \X {Prefix[p] : p \in Prompts}
  /\ replies \subseteq StoredReply
  /\ override \in BOOLEAN

LEMMA TypeOKSplits ==
  /\ TypeOK <=> LocalTyped /\ SharedTyped
  /\ TypeOK' <=> LocalTyped' /\ SharedTyped'
BY DEF TypeOK, LocalTyped, SharedTyped, Rows, Answers, Responded

LEMMA InputsTyped ==
  /\ \A q \in Inputs : q \in Input /\ q # NoInput
  /\ \A q \in Input : /\ q.model \in Models /\ q.prompt \in Prompts
                      /\ q.tools \in BOOLEAN /\ q.stream \in BOOLEAN
                      /\ q.ownControl \in BOOLEAN /\ q.json \in BOOLEAN
BY InputsAreInputs DEF Input

LEMMA PartsTyped ==
  ASSUME NEW q \in Input
  PROVE  Parts(q) \in SUBSET {"messages", "tools"}
BY DEF Parts

LEMMA ShapeTyped ==
  ASSUME NEW res
  PROVE  Shape(res) \in Shapes
BY DEF Shape, Shapes

\* The input of a request that is under way.
LEMMA ActiveInput ==
  ASSUME LocalTyped, NEW r \in Requests, pc[r] # "idle"
  PROVE  input[r] \in Input
BY DEF LocalTyped

LEMMA ResponsesTyped ==
  ASSUME NEW r \in Requests, NEW res \in Responses(r)
  PROVE  res \in [status : {200, 400, 500}, body : Bodies] /\ res \in Responded
<1>1. res \in [status : {200, 400, 500}, body : Bodies]
  BY OutcomesAreResponses DEF Responses, Bodies
<1> QED
  BY <1>1 DEF Responded, Statuses

LEMMA CrashTyped ==
  ASSUME LocalTyped, NEW r \in Requests, Crash(r), pc[r] # "idle"
  PROVE  LocalTyped'
<1>1. pc' \in [Requests -> Phases] /\ answer' \in [Requests -> Answers]
  BY AnsweredTyped DEF Crash, LocalTyped, Statuses, Shapes, Notes
<1> QED
  BY <1>1 DEF LocalTyped, Crash, Answered

LEMMA DispatchTyped ==
  ASSUME LocalTyped, NEW r \in Requests, NEW q \in Input, NEW cache \in Labels,
         Dispatch(r, q, cache)
  PROVE  /\ label' \in [Requests -> Labels]
         /\ evidence' \in [Requests -> Notes]
         /\ counted' \in [Requests -> SUBSET {"messages", "tools"}]
         /\ sent' \in [Requests -> Seq(BOOLEAN)]
         /\ ledger' \in [Requests -> Rows]
         /\ pc' \in [Requests -> Phases]
         /\ answer' \in [Requests -> Answers]
         /\ \A s \in Requests : s # r => pc'[s] = pc[s]
<1>1. label' \in [Requests -> Labels]
  BY DEF Dispatch, LocalTyped
<1>2. evidence' \in [Requests -> Notes]
  BY DEF Dispatch, LocalTyped, Notes
<1>3. counted' \in [Requests -> SUBSET {"messages", "tools"}]
  BY PartsTyped DEF Dispatch, LocalTyped
<1>4. CASE Unroutable(q.model)
  <2>1. Log(r, 400, cache, Parts(q)) /\ Answered(r, 400, "envelope", "none") /\ sent' = sent
    BY <1>4 DEF Dispatch
  <2>2. ledger' \in [Requests -> Rows]
    <3>1. /\ ledger \in [Requests -> Rows]
          /\ 400 \in Statuses
          /\ Parts(q) \in SUBSET {"messages", "tools"}
      BY PartsTyped DEF LocalTyped, Statuses
    <3> QED
      BY <2>1, <3>1, LogTyped
  <2>3. pc' \in [Requests -> Phases] /\ answer' \in [Requests -> Answers]
    BY <2>1, AnsweredTyped DEF LocalTyped, Statuses, Shapes, Notes
  <2>4. \A s \in Requests : s # r => pc'[s] = pc[s]
    BY <2>1 DEF Answered, LocalTyped
  <2> QED
    BY <1>1, <1>2, <1>3, <2>1, <2>2, <2>3, <2>4 DEF LocalTyped
<1>5. CASE ~Unroutable(q.model)
  <2>1. /\ pc' = [pc EXCEPT ![r] = "forwarding"]
        /\ sent' = [sent EXCEPT ![r] = Append(@, Injects(q))]
        /\ ledger' = ledger /\ answer' = answer
    BY <1>5 DEF Dispatch
  <2>2. Injects(q) \in BOOLEAN
    BY DEF Injects
  <2>3. sent' \in [Requests -> Seq(BOOLEAN)]
    BY <2>1, <2>2 DEF LocalTyped
  <2> QED
    BY <1>1, <1>2, <1>3, <2>1, <2>3 DEF LocalTyped, Phases
<1> QED
  BY <1>4, <1>5

LEMMA RelayTyped ==
  ASSUME LocalTyped, NEW r \in Requests, pc[r] # "idle",
         NEW res \in [status : {200, 400, 500}, body : Bodies], Relay(r, res)
  PROVE  /\ resp' \in [Requests -> Responded]
         /\ pc' \in [Requests -> Phases]
         /\ answer' \in [Requests -> Answers]
         /\ \A s \in Requests : s # r => pc'[s] = pc[s]
<1>1. res \in Responded /\ res.status \in Statuses
  BY DEF Responded, Statuses
<1>2. resp' \in [Requests -> Responded]
  BY <1>1 DEF Relay, LocalTyped
<1>3. [status |-> res.status, shape |-> "provider", evidence |-> evidence[r]] \in Answers
  BY <1>1 DEF Answers, Shapes, LocalTyped
<1>4. CASE input[r].stream
  <2>1. /\ pc' = [pc EXCEPT ![r] = "opening"]
        /\ answer' = [answer EXCEPT ![r] =
             [status |-> res.status, shape |-> "provider", evidence |-> evidence[r]]]
    BY <1>4 DEF Relay
  <2> QED
    BY <1>2, <1>3, <2>1 DEF LocalTyped, Phases
<1>5. CASE ~input[r].stream
  <2>1. pc' = [pc EXCEPT ![r] = "buffering"] /\ answer' = answer
    BY <1>5 DEF Relay
  <2> QED
    BY <1>2, <2>1 DEF LocalTyped, Phases
<1> QED
  BY <1>4, <1>5

LEMMA ReceiveTyped ==
  ASSUME TypeOK, NEW r \in Requests, Receive(r)
  PROVE  TypeOK'
<1> USE TypeOKSplits
<1>1. PICK q \in Inputs, readable \in BOOLEAN, writable \in BOOLEAN :
        /\ pc[r] = "idle"
        /\ input' = [input EXCEPT ![r] = q]
        /\ snapshot' = [snapshot EXCEPT ![r] = override]
        /\ lookup' = [lookup EXCEPT ![r] =
             IF ExactHit(q, readable) THEN "exact_hit" ELSE "none"]
        /\ index' = Recorded(q, writable)
        /\ \/ /\ pc' = [pc EXCEPT ![r] = "embedding"]
              /\ UNCHANGED <<label, sent, evidence, counted, ledger, answer>>
           \/ Dispatch(r, q, IF ExactHit(q, readable) THEN "exact_hit" ELSE "miss")
        /\ UNCHANGED <<armed, resp, mandatory, replies, override>>
  BY DEF Receive
<1>2. q \in Input /\ q # NoInput
  BY InputsTyped
<1>3. /\ label' \in [Requests -> Labels]
      /\ evidence' \in [Requests -> Notes]
      /\ counted' \in [Requests -> SUBSET {"messages", "tools"}]
      /\ sent' \in [Requests -> Seq(BOOLEAN)]
      /\ ledger' \in [Requests -> Rows]
      /\ pc' \in [Requests -> Phases]
      /\ answer' \in [Requests -> Answers]
      /\ \A s \in Requests : s # r => pc'[s] = pc[s]
  <2>1. CASE pc' = [pc EXCEPT ![r] = "embedding"]
             /\ UNCHANGED <<label, sent, evidence, counted, ledger, answer>>
    BY <2>1 DEF LocalTyped, Phases
  <2>2. CASE Dispatch(r, q, IF ExactHit(q, readable) THEN "exact_hit" ELSE "miss")
    <3>1. (IF ExactHit(q, readable) THEN "exact_hit" ELSE "miss") \in Labels
      BY DEF Labels
    <3> QED
      BY <1>2, <2>2, <3>1, DispatchTyped
  <2> QED
    BY <1>1, <2>1, <2>2
<1>4. LocalTyped'
  BY <1>1, <1>2, <1>3 DEF LocalTyped, SharedTyped, Lookups
<1>5. IndexKey(q) \in Models \X {Prefix[p] : p \in Prompts}
  BY <1>2, InputsTyped DEF IndexKey
<1>6. SharedTyped'
  BY <1>1, <1>5 DEF SharedTyped, Recorded
<1> QED
  BY <1>4, <1>6

\* The steps that end in Dispatch.
LEMMA EmbeddedTyped ==
  ASSUME TypeOK, NEW r \in Requests, NEW cache \in Labels, pc[r] = "embedding",
         Dispatch(r, input[r], cache), armed' \in [Requests -> BOOLEAN],
         lookup' \in [Requests -> Lookups], UNCHANGED <<input, snapshot, resp, shared>>
  PROVE  TypeOK'
<1> USE TypeOKSplits
<1>1. input[r] \in Input
  BY ActiveInput
<1>2. /\ label' \in [Requests -> Labels]
      /\ evidence' \in [Requests -> Notes]
      /\ counted' \in [Requests -> SUBSET {"messages", "tools"}]
      /\ sent' \in [Requests -> Seq(BOOLEAN)]
      /\ ledger' \in [Requests -> Rows]
      /\ pc' \in [Requests -> Phases]
      /\ answer' \in [Requests -> Answers]
      /\ \A s \in Requests : s # r => pc'[s] = pc[s]
  BY <1>1, DispatchTyped
<1>3. input[r] # NoInput
  BY DEF LocalTyped
<1>4. LocalTyped'
  BY <1>2, <1>3 DEF LocalTyped
<1>5. SharedTyped'
  BY DEF SharedTyped, shared
<1> QED
  BY <1>4, <1>5

\* The steps that log a row and answer, with whatever else stays as it is.
LEMMA LoggedTyped ==
  ASSUME LocalTyped, NEW r \in Requests, pc[r] # "idle",
         NEW status \in Statuses, NEW cache \in Labels,
         NEW parts \in SUBSET {"messages", "tools"}, NEW shape \in Shapes, NEW note \in Notes,
         Log(r, status, cache, parts), Answered(r, status, shape, note),
         UNCHANGED <<input, snapshot, lookup, label, armed, sent, evidence, counted, resp>>
  PROVE  LocalTyped'
<1>1. ledger' \in [Requests -> Rows]
  BY LogTyped DEF LocalTyped
<1>2. pc' \in [Requests -> Phases] /\ answer' \in [Requests -> Answers]
  BY AnsweredTyped DEF LocalTyped
<1>3. \A s \in Requests : pc'[s] # "idle" => input'[s] # NoInput
  BY DEF LocalTyped, Answered
<1> QED
  BY <1>1, <1>2, <1>3 DEF LocalTyped

\* The steps that begin to relay an answer.
LEMMA RelayedTyped ==
  ASSUME LocalTyped, NEW r \in Requests, pc[r] # "idle",
         NEW res \in Responses(r), Relay(r, res),
         UNCHANGED <<input, snapshot, lookup, label, armed, sent, evidence, counted, ledger>>
  PROVE  LocalTyped'
<1>1. res \in [status : {200, 400, 500}, body : Bodies]
  BY ResponsesTyped
<1>2. /\ resp' \in [Requests -> Responded]
      /\ pc' \in [Requests -> Phases]
      /\ answer' \in [Requests -> Answers]
      /\ \A s \in Requests : s # r => pc'[s] = pc[s]
  BY <1>1, RelayTyped
<1>3. \A s \in Requests : pc'[s] # "idle" => input'[s] # NoInput
  BY <1>2 DEF LocalTyped
<1> QED
  BY <1>2, <1>3 DEF LocalTyped

LEMMA StoredTyped ==
  ASSUME TypeOK, NEW r \in Requests, pc[r] # "idle"
  PROVE  Stored(r) \subseteq StoredReply
<1>1. input[r] \in Input
  BY ActiveInput, TypeOKSplits
<1>2. [scope |-> SemanticScope(input[r]), prompt |-> input[r].prompt, from |-> r] \in StoredReply
  BY <1>1, InputsTyped DEF SemanticScope, StoredReply
<1>3. replies \subseteq StoredReply
  BY TypeOKSplits DEF SharedTyped
<1> QED
  BY <1>2, <1>3 DEF Stored

LEMMA SemanticTyped ==
  ASSUME TypeOK, NEW r \in Requests,
         \/ EmbeddingFails(r) \/ SemanticHit(r) \/ SemanticMiss(r) \/ SemanticUnavailable(r)
  PROVE  TypeOK'
<1> USE TypeOKSplits
<1>1. /\ armed \in [Requests -> BOOLEAN] /\ "miss" \in Labels
      /\ lookup \in [Requests -> Lookups] /\ lookup[r] \in Lookups
  BY DEF LocalTyped, Labels
<1>2. CASE EmbeddingFails(r)
  BY <1>1, <1>2, EmbeddedTyped DEF EmbeddingFails
<1>5. CASE SemanticUnavailable(r)
  <2>1. lookup' \in [Requests -> Lookups]
    BY <1>1, <1>5 DEF SemanticUnavailable, Lookups
  <2> QED
    BY <1>1, <1>5, <2>1, EmbeddedTyped DEF SemanticUnavailable
<1>3. CASE SemanticMiss(r)
  <2>1. PICK cache \in MissLabels(input[r]) : Dispatch(r, input[r], cache)
    BY <1>3 DEF SemanticMiss
  <2>2. cache \in Labels
    BY DEF MissLabels, Labels
  <2>3. armed' \in [Requests -> BOOLEAN]
    BY <1>1, <1>3 DEF SemanticMiss
  <2>4. lookup' \in [Requests -> Lookups]
    BY <1>1, <1>3 DEF SemanticMiss, Lookups
  <2> QED
    BY <1>3, <2>1, <2>2, <2>3, <2>4, EmbeddedTyped DEF SemanticMiss
<1>4. CASE SemanticHit(r)
  <2>1. PICK e \in Replayable(input[r]) : answer' = [answer EXCEPT ![r] = Replay(e.from)]
    BY <1>4 DEF SemanticHit
  <2>2. Replay(e.from) \in Answers
    <3>1. e.from \in Requests
      BY DEF Replayable, Compatible, SharedTyped, StoredReply
    <3> QED
      BY <3>1 DEF Answers
  <2>3. answer' \in [Requests -> Answers]
    BY <2>1, <2>2 DEF LocalTyped
  <2>4. input[r] \in Input /\ pc[r] # "idle"
    BY <1>4, ActiveInput DEF SemanticHit
  <2>5. 200 \in Statuses /\ "semantic_hit" \in Labels
        /\ Parts(input[r]) \in SUBSET {"messages", "tools"}
    BY <2>4, PartsTyped DEF Statuses, Labels
  <2>6. Log(r, 200, "semantic_hit", Parts(input[r])) /\ ledger \in [Requests -> Rows]
    BY <1>4 DEF SemanticHit, LocalTyped
  <2>7. ledger' \in [Requests -> Rows]
    BY <2>5, <2>6, LogTyped
  <2>8. LocalTyped'
    BY <1>4, <2>3, <2>4, <2>7 DEF SemanticHit, LocalTyped, Labels, Phases
  <2> QED
    BY <1>4, <2>8 DEF SemanticHit, SharedTyped, shared
<1> QED
  BY <1>2, <1>3, <1>4, <1>5

LEMMA UpstreamTyped ==
  ASSUME TypeOK, NEW r \in Requests, UpstreamAnswers(r) \/ UpstreamUnreachable(r)
  PROVE  TypeOK'
<1> USE TypeOKSplits
<1>0. pc[r] # "idle"
  BY DEF UpstreamAnswers, UpstreamUnreachable
<1>1. CASE UpstreamAnswers(r)
  <2>1. PICK res \in Responses(r) :
          /\ \/ /\ pc' = [pc EXCEPT ![r] = "rejected"]
                /\ resp' = [resp EXCEPT ![r] = res]
                /\ UNCHANGED answer
             \/ Relay(r, res)
          /\ UNCHANGED <<input, snapshot, lookup, label, armed, sent, evidence, counted, ledger, shared>>
    BY <1>1 DEF UpstreamAnswers
  <2>2. CASE /\ pc' = [pc EXCEPT ![r] = "rejected"]
             /\ resp' = [resp EXCEPT ![r] = res]
             /\ UNCHANGED answer
    <3>1. res \in Responded
      BY ResponsesTyped
    <3> QED
      BY <1>0, <2>1, <2>2, <3>1 DEF LocalTyped, SharedTyped, shared, Phases
  <2>3. CASE Relay(r, res)
    <3>1. LocalTyped'
      BY <1>0, <2>1, <2>3, RelayedTyped
    <3> QED
      BY <2>1, <3>1 DEF SharedTyped, shared
  <2> QED
    BY <2>1, <2>2, <2>3
<1>2. CASE UpstreamUnreachable(r)
  <2>1. PICK status \in {502, 504} :
          /\ Log(r, status, label[r], counted[r])
          /\ Answered(r, status, "envelope", "none")
          /\ UNCHANGED <<input, snapshot, lookup, label, armed, sent, evidence, counted, resp, shared>>
    BY <1>2 DEF UpstreamUnreachable
  <2>2. /\ status \in Statuses /\ "envelope" \in Shapes /\ "none" \in Notes
        /\ label[r] \in Labels /\ counted[r] \in SUBSET {"messages", "tools"}
    BY DEF Statuses, Shapes, Notes, LocalTyped
  <2>3. LocalTyped'
    BY <1>0, <2>1, <2>2, LoggedTyped
  <2> QED
    BY <2>1, <2>3 DEF SharedTyped, shared
<1> QED
  BY <1>1, <1>2

LEMMA CrashesTyped ==
  ASSUME TypeOK, NEW r \in Requests, Crash(r), pc[r] # "idle"
  PROVE  TypeOK'
BY TypeOKSplits, CrashTyped DEF Crash, SharedTyped, shared

LEMMA RejectionTyped ==
  ASSUME TypeOK, NEW r \in Requests, RejectionRetried(r) \/ RejectionRelayed(r)
  PROVE  TypeOK'
<1> USE TypeOKSplits
<1>0. pc[r] # "idle"
  BY DEF RejectionRetried, RejectionRelayed
<1>1. CASE RejectionRetried(r)
  <2>1. input[r].model \in Models
    BY <1>0, ActiveInput, InputsTyped
  <2>2. "retried" \in Notes /\ "retrying" \in Phases
    BY DEF Notes, Phases
  <2>3. sent' \in [Requests -> Seq(BOOLEAN)]
    BY <1>1 DEF RejectionRetried, LocalTyped
  <2>4. counted' \in [Requests -> SUBSET {"messages", "tools"}]
    BY <1>1 DEF RejectionRetried, LocalTyped
  <2>5. LocalTyped'
    BY <1>0, <1>1, <2>2, <2>3, <2>4 DEF RejectionRetried, LocalTyped
  <2>6. SharedTyped'
    BY <1>1, <2>1 DEF RejectionRetried, SharedTyped
  <2> QED
    BY <2>5, <2>6
<1>2. CASE RejectionRelayed(r)
  <2>1. /\ 400 \in Statuses /\ "envelope" \in Shapes /\ "rejected" \in Notes
        /\ label[r] \in Labels /\ counted[r] \in SUBSET {"messages", "tools"}
    BY DEF Statuses, Shapes, Notes, LocalTyped
  <2>2. /\ Log(r, 400, label[r], counted[r])
        /\ Answered(r, 400, "envelope", "rejected")
        /\ UNCHANGED <<input, snapshot, lookup, label, armed, sent, evidence, counted, resp, shared>>
    BY <1>2 DEF RejectionRelayed
  <2>3. LocalTyped'
    BY <1>0, <2>1, <2>2, LoggedTyped
  <2> QED
    BY <2>2, <2>3 DEF SharedTyped, shared
<1> QED
  BY <1>1, <1>2

LEMMA AnswersTyped ==
  ASSUME TypeOK, NEW r \in Requests, RetryAnswers(r) \/ PassThroughAnswers(r)
  PROVE  TypeOK'
<1>0. pc[r] # "idle"
  BY DEF RetryAnswers, PassThroughAnswers
<1>1. PICK res \in Responses(r) :
        /\ Relay(r, res)
        /\ UNCHANGED <<input, snapshot, lookup, label, armed, sent, evidence, counted, ledger, shared>>
  BY DEF RetryAnswers, PassThroughAnswers
<1>2. LocalTyped'
  BY <1>0, <1>1, RelayedTyped, TypeOKSplits
<1> QED
  BY <1>1, <1>2, TypeOKSplits DEF SharedTyped, shared

\* What relaying a buffered or a streamed answer logs.
LEMMA RespondedTyped ==
  ASSUME LocalTyped, NEW r \in Requests, resp[r] # NoResp
  PROVE  /\ resp[r].status \in Statuses /\ label[r] \in Labels
         /\ counted[r] \in SUBSET {"messages", "tools"} /\ evidence[r] \in Notes
BY DEF LocalTyped, Responded

LEMMA RelayEndsTyped ==
  ASSUME TypeOK, NEW r \in Requests, Received(r), RelayFinishes(r) \/ StreamEnds(r)
  PROVE  TypeOK'
<1> USE TypeOKSplits
<1>1. pc[r] # "idle" /\ resp[r] # NoResp
  BY DEF RelayFinishes, StreamEnds, Received
<1>2. /\ resp[r].status \in Statuses /\ label[r] \in Labels
      /\ counted[r] \in SUBSET {"messages", "tools"} /\ evidence[r] \in Notes
  BY <1>1, RespondedTyped
<1>3. CASE RelayFinishes(r)
  <2>1. /\ Log(r, resp[r].status, label[r], counted[r])
        /\ Answered(r, resp[r].status, Shape(resp[r]), evidence[r])
        /\ UNCHANGED <<input, snapshot, lookup, label, armed, sent, evidence, counted, resp>>
    BY <1>3 DEF RelayFinishes
  <2>2. LocalTyped'
    BY <1>1, <1>2, <2>1, LoggedTyped, ShapeTyped
  <2>3. replies' \subseteq StoredReply
    BY <1>1, <1>3, StoredTyped DEF RelayFinishes, SharedTyped
  <2> QED
    BY <1>3, <2>2, <2>3 DEF RelayFinishes, SharedTyped
<1>4. CASE StreamEnds(r)
  <2>1. Log(r, resp[r].status, label[r], counted[r]) /\ ledger \in [Requests -> Rows]
    BY <1>4 DEF StreamEnds, LocalTyped
  <2>2. ledger' \in [Requests -> Rows]
    BY <1>2, <2>1, LogTyped
  <2>3. LocalTyped'
    BY <1>1, <1>4, <2>2 DEF StreamEnds, LocalTyped, Phases
  <2> QED
    BY <1>4, <2>3 DEF StreamEnds, SharedTyped, shared
<1> QED
  BY <1>3, <1>4

LEMMA OpeningTyped ==
  ASSUME TypeOK, NEW r \in Requests, StreamStarts(r) \/ LeavesEarly(r)
  PROVE  TypeOK'
<1> USE TypeOKSplits
<1>1. LocalTyped'
  BY DEF StreamStarts, LeavesEarly, LocalTyped, Phases
<1> QED
  BY <1>1 DEF StreamStarts, LeavesEarly, SharedTyped, shared

LEMMA NoJsonTyped ==
  ASSUME TypeOK, NEW r \in Requests, Malformed(r) \/ PassThrough(r)
  PROVE  TypeOK'
<1> USE TypeOKSplits
<1>1. CASE Malformed(r)
  <2>1. PICK q \in Inputs : input' = [input EXCEPT ![r] = q]
    BY <1>1 DEF Malformed
  <2>2. q \in Input /\ q # NoInput
    BY InputsTyped
  <2>3. pc' \in [Requests -> Phases] /\ answer' \in [Requests -> Answers]
    BY <1>1, AnsweredTyped DEF Malformed, LocalTyped, Statuses, Shapes, Notes
  <2>4. LocalTyped'
    BY <1>1, <2>1, <2>2, <2>3 DEF Malformed, Answered, LocalTyped
  <2> QED
    BY <1>1, <2>4 DEF Malformed, SharedTyped, shared
<1>2. CASE PassThrough(r)
  <2>1. PICK q \in Inputs : input' = [input EXCEPT ![r] = [q EXCEPT !.stream = FALSE]]
    BY <1>2 DEF PassThrough
  <2>2. [q EXCEPT !.stream = FALSE] \in Input
    BY InputsTyped DEF Input
  <2>3. [q EXCEPT !.stream = FALSE] # NoInput
    BY <2>2, InputsAreInputs
  <2>4. sent' \in [Requests -> Seq(BOOLEAN)]
    BY <1>2 DEF PassThrough, LocalTyped
  <2>5. LocalTyped'
    BY <1>2, <2>1, <2>2, <2>3, <2>4 DEF PassThrough, LocalTyped, Phases
  <2> QED
    BY <1>2, <2>5 DEF PassThrough, SharedTyped, shared
<1> QED
  BY <1>1, <1>2

\* The steps around the requests.
LEMMA AroundTyped ==
  ASSUME TypeOK, Flip \/ PrefixExpires \/ ReplyExpires
  PROVE  TypeOK'
<1> USE TypeOKSplits
<1>1. LocalTyped'
  BY DEF LocalTyped, Flip, PrefixExpires, ReplyExpires
<1>2. SharedTyped'
  BY DEF SharedTyped, Flip, PrefixExpires, ReplyExpires
<1> QED
  BY <1>1, <1>2

-----------------------------------------------------------------------------
\* Progress of one request, and of the others meanwhile.

SameRequest(s) ==
  /\ pc'[s] = pc[s] /\ input'[s] = input[s] /\ sent'[s] = sent[s]
  /\ evidence'[s] = evidence[s] /\ resp'[s] = resp[s]
  /\ ledger'[s] = ledger[s] /\ answer'[s] = answer[s]

LEMMA OthersProgress ==
  ASSUME NEW s \in Requests, Progress(s), SameRequest(s), mandatory \subseteq mandatory'
  PROVE  Progress(s)'
<1>1. /\ Unlogged(s)' /\ Unanswered(s)' /\ Received(s)' /\ Announced(s)'
      /\ NotSent(s)' /\ SentOnce(s)' /\ EvidenceIsTrue(s)' /\ RejectedInjected(s)'
      /\ PassedBare(s)'
  BY DEF Progress, SameRequest, Unlogged, Unanswered, Received, Announced,
         NotSent, SentOnce, EvidenceIsTrue, RejectedInjected, PassedBare
<1>2. Accounted(s)'
  BY DEF Progress, SameRequest, Accounted, Crashed
<1>3. SentTwice(s)'
  BY DEF Progress, SameRequest, SentTwice
<1>4. RefusalHandled(s)'
  BY DEF Progress, SameRequest, RefusalHandled
<1> QED
  BY <1>1, <1>2, <1>3, <1>4 DEF Progress

LEMMA HelperFrames ==
  ASSUME TypeOK, NEW r \in Requests, NEW s \in Requests, s # r
  PROVE  /\ \A status, cache, parts : Log(r, status, cache, parts) => ledger'[s] = ledger[s]
         /\ \A status, shape, note : Answered(r, status, shape, note) =>
              pc'[s] = pc[s] /\ answer'[s] = answer[s]
         /\ \A res : Relay(r, res) =>
              pc'[s] = pc[s] /\ answer'[s] = answer[s] /\ resp'[s] = resp[s]
<1>0. /\ DOMAIN pc = Requests /\ DOMAIN resp = Requests
      /\ DOMAIN ledger = Requests /\ DOMAIN answer = Requests
  BY DEF TypeOK
<1>1. ASSUME NEW status, NEW cache, NEW parts, Log(r, status, cache, parts)
      PROVE  ledger'[s] = ledger[s]
  BY <1>0, <1>1 DEF Log
<1>2. ASSUME NEW status, NEW shape, NEW note, Answered(r, status, shape, note)
      PROVE  pc'[s] = pc[s] /\ answer'[s] = answer[s]
  BY <1>0, <1>2 DEF Answered
<1>3. ASSUME NEW res, Relay(r, res)
      PROVE  pc'[s] = pc[s] /\ answer'[s] = answer[s] /\ resp'[s] = resp[s]
  <2>1. CASE input[r].stream
    BY <1>0, <1>3, <2>1 DEF Relay
  <2>2. CASE ~input[r].stream
    BY <1>0, <1>3, <2>2 DEF Relay
  <2> QED
    BY <2>1, <2>2
<1> QED
  BY <1>1, <1>2, <1>3

LEMMA DispatchFrame ==
  ASSUME TypeOK, NEW r \in Requests, NEW s \in Requests, s # r,
         NEW q, NEW cache, Dispatch(r, q, cache)
  PROVE  /\ pc'[s] = pc[s] /\ sent'[s] = sent[s] /\ evidence'[s] = evidence[s]
         /\ ledger'[s] = ledger[s] /\ answer'[s] = answer[s]
<1>0. /\ DOMAIN pc = Requests /\ DOMAIN sent = Requests /\ DOMAIN evidence = Requests
  BY DEF TypeOK
<1>1. evidence'[s] = evidence[s]
  BY <1>0 DEF Dispatch
<1>2. CASE Unroutable(q.model)
  BY <1>1, <1>2, HelperFrames DEF Dispatch
<1>3. CASE ~Unroutable(q.model)
  BY <1>0, <1>1, <1>3 DEF Dispatch
<1> QED
  BY <1>2, <1>3

\* A step of r changes r alone, and what the proxy has learned only grows.
LEMMA StepFrame ==
  ASSUME TypeOK, NEW r \in Requests,
         Receive(r) \/ Malformed(r) \/ PassThrough(r) \/ Step(r)
  PROVE  /\ mandatory \subseteq mandatory'
         /\ \A s \in Requests : s # r => SameRequest(s)
<1>0. /\ DOMAIN pc = Requests /\ DOMAIN input = Requests /\ DOMAIN sent = Requests
      /\ DOMAIN evidence = Requests /\ DOMAIN resp = Requests
  BY DEF TypeOK
<1>1. mandatory \subseteq mandatory'
  <2>1. CASE Receive(r) \/ Malformed(r) \/ PassThrough(r)
    BY <2>1 DEF Receive, Malformed, PassThrough, shared
  <2>2. CASE Step(r)
    BY <2>2 DEF Step, EmbeddingFails, SemanticHit, SemanticMiss, SemanticUnavailable,
         UpstreamAnswers, UpstreamUnreachable, UpstreamBreaks, RejectionRetried,
         RejectionRelayed, RejectionUnreadable, RetryAnswers, RetryFails,
         RelayFinishes, RelayBreaks, StreamStarts, LeavesEarly, StreamEnds, PassThroughAnswers, PassThroughFails,
         Crash, shared
  <2> QED
    BY <2>1, <2>2
<1>2. ASSUME NEW s \in Requests, s # r PROVE SameRequest(s)
  <2>1. CASE Receive(r)
    <3>1. PICK q \in Inputs, readable \in BOOLEAN :
            /\ input' = [input EXCEPT ![r] = q]
            /\ \/ /\ pc' = [pc EXCEPT ![r] = "embedding"]
                  /\ UNCHANGED <<label, sent, evidence, counted, ledger, answer>>
               \/ Dispatch(r, q, IF ExactHit(q, readable) THEN "exact_hit" ELSE "miss")
            /\ UNCHANGED resp
      BY <2>1 DEF Receive
    <3> QED
      BY <1>0, <1>2, <3>1, DispatchFrame DEF SameRequest
  <2>2. CASE Malformed(r) \/ PassThrough(r)
    BY <1>0, <1>2, <2>2, HelperFrames DEF Malformed, PassThrough, SameRequest
  <2>3. CASE EmbeddingFails(r) \/ SemanticMiss(r) \/ SemanticUnavailable(r)
    BY <1>2, <2>3, DispatchFrame
       DEF EmbeddingFails, SemanticMiss, SemanticUnavailable, SameRequest
  <2>4. CASE SemanticHit(r)
    <3>1. PICK reply : answer' = [answer EXCEPT ![r] = reply]
      BY <2>4 DEF SemanticHit
    <3>2. answer'[s] = answer[s]
      BY <1>2, <3>1 DEF TypeOK
    <3>3. ledger'[s] = ledger[s]
      BY <1>2, <2>4, HelperFrames DEF SemanticHit
    <3> QED
      BY <1>0, <1>2, <2>4, <3>2, <3>3 DEF SemanticHit, SameRequest
  <2>5. CASE UpstreamAnswers(r) \/ RetryAnswers(r) \/ PassThroughAnswers(r)
    BY <1>0, <1>2, <2>5, HelperFrames
       DEF UpstreamAnswers, RetryAnswers, PassThroughAnswers, SameRequest
  <2>6. CASE UpstreamUnreachable(r) \/ RejectionRelayed(r) \/ RelayFinishes(r)
    BY <1>2, <2>6, HelperFrames
       DEF UpstreamUnreachable, RejectionRelayed, RelayFinishes, SameRequest
  <2>7. CASE Crash(r)
    BY <1>2, <2>7, HelperFrames DEF Crash, SameRequest
  <2>8. CASE RejectionRetried(r)
    BY <1>0, <1>2, <2>8 DEF RejectionRetried, SameRequest
  <2>9. CASE StreamStarts(r) \/ LeavesEarly(r) \/ StreamEnds(r)
    BY <1>0, <1>2, <2>9, HelperFrames DEF StreamStarts, LeavesEarly, StreamEnds, SameRequest
  <2> QED
    BY <2>1, <2>2, <2>3, <2>4, <2>5, <2>6, <2>7, <2>8, <2>9
       DEF Step, UpstreamBreaks, RejectionUnreadable, RetryFails, RelayBreaks, PassThroughFails
<1> QED
  BY <1>1, <1>2

-----------------------------------------------------------------------------
\* Progress of the request that takes the step.

LEMMA LoggedProgress ==
  ASSUME TypeOK, NEW r \in Requests, Progress(r), pc[r] # "done",
         NEW status, NEW cache, NEW parts, NEW shape, NEW note,
         Log(r, status, cache, parts), Answered(r, status, shape, note),
         sent'[r] = sent[r], resp'[r] = resp[r], mandatory' = mandatory,
         Len(sent[r]) = 2 => input'[r] = input[r],
         resp[r].body = "mandatory" => status # 400 \/ ~Retryable(input'[r].model)
  PROVE  Progress(r)'
<1>1. ledger[r] = <<>>
  BY DEF Progress, Unlogged
<1>2. Len(ledger'[r]) = 1 /\ ledger'[r][1].status = status
  <2>1. PICK written \in BOOLEAN :
          ledger' = [ledger EXCEPT ![r] = Append(@,
            [status |-> status, cache |-> cache, parts |-> parts, written |-> written])]
    BY DEF Log
  <2>2. ledger'[r] = Append(<<>>, [status |-> status, cache |-> cache, parts |-> parts,
                                   written |-> written])
    BY <1>1, <2>1 DEF TypeOK
  <2> QED
    BY <2>2
<1>3. pc'[r] = "done" /\ answer'[r] = [status |-> status, shape |-> shape, evidence |-> note]
  BY DEF Answered, TypeOK
<1>4. /\ Unlogged(r)' /\ Unanswered(r)' /\ Received(r)' /\ Announced(r)'
      /\ NotSent(r)' /\ SentOnce(r)' /\ EvidenceIsTrue(r)' /\ RejectedInjected(r)'
      /\ PassedBare(r)'
  BY <1>3 DEF Unlogged, Unanswered, Received, Announced, NotSent, SentOnce,
              EvidenceIsTrue, RejectedInjected, PassedBare
<1>5. Accounted(r)'
  BY <1>2, <1>3 DEF Accounted
<1>6. SentTwice(r)'
  BY <1>3 DEF Progress, SentTwice
<1>7. RefusalHandled(r)'
  BY <1>3 DEF RefusalHandled, Retryable, Served
<1> QED
  BY <1>4, <1>5, <1>6, <1>7 DEF Progress

LEMMA CrashProgress ==
  ASSUME TypeOK, NEW r \in Requests, Progress(r), pc[r] # "done", Crash(r)
  PROVE  Progress(r)'
<1>1. /\ pc'[r] = "done" /\ Crashed(r)' /\ answer'[r].status = 500
      /\ input' = input /\ sent' = sent /\ resp' = resp /\ ledger' = ledger
      /\ mandatory' = mandatory
  BY DEF Crash, Answered, Crashed, TypeOK, shared
<1>2. /\ Unlogged(r)' /\ Unanswered(r)' /\ Received(r)' /\ Announced(r)'
      /\ NotSent(r)' /\ SentOnce(r)' /\ EvidenceIsTrue(r)' /\ RejectedInjected(r)'
      /\ PassedBare(r)'
  BY <1>1 DEF Unlogged, Unanswered, Received, Announced, NotSent, SentOnce,
              EvidenceIsTrue, RejectedInjected, PassedBare
<1>3. Accounted(r)' /\ SentTwice(r)' /\ RefusalHandled(r)'
  BY <1>1 DEF Progress, Unlogged, Accounted, SentTwice, RefusalHandled
<1> QED
  BY <1>2, <1>3 DEF Progress

LEMMA RelayProgress ==
  ASSUME TypeOK, NEW r \in Requests, Progress(r), pc[r] \in {"forwarding", "retrying", "passing"},
         NEW res \in Responses(r), Relay(r, res),
         UNCHANGED <<input, snapshot, lookup, label, armed, sent, evidence, counted, ledger, shared>>,
         res.body = "mandatory" => ~Retryable(input[r].model)
  PROVE  Progress(r)'
<1>1. resp'[r] = res /\ res.status # 0
  <2>1. resp'[r] = res
    BY DEF Relay, TypeOK
  <2>2. res \in [status : {200, 400, 500}, body : Bodies]
    BY ResponsesTyped
  <2> QED
    BY <2>1, <2>2
<1>2. res # NoResp
  BY <1>1 DEF NoResp
<1>3. \/ pc'[r] = "opening" /\ input[r].stream /\ answer'[r].status = res.status
      \/ pc'[r] = "buffering" /\ answer'[r] = answer[r]
  <2>1. CASE input[r].stream
    BY <2>1 DEF Relay, TypeOK
  <2>2. CASE ~input[r].stream
    BY <2>2 DEF Relay, TypeOK
  <2> QED
    BY <2>1, <2>2
<1>4. /\ Unlogged(r)' /\ Unanswered(r)' /\ Received(r)' /\ Announced(r)'
      /\ NotSent(r)' /\ SentOnce(r)' /\ EvidenceIsTrue(r)' /\ RejectedInjected(r)'
      /\ PassedBare(r)' /\ Accounted(r)'
  BY <1>1, <1>2, <1>3
     DEF Progress, Unlogged, Unanswered, Received, Announced, NotSent, SentOnce,
         EvidenceIsTrue, RejectedInjected, PassedBare, Accounted
<1>5. SentTwice(r)'
  BY <1>3 DEF Progress, SentTwice, shared
<1>6. RefusalHandled(r)'
  BY <1>1, <1>3 DEF RefusalHandled, Retryable, Served
<1> QED
  BY <1>4, <1>5, <1>6 DEF Progress

LEMMA DispatchProgress ==
  ASSUME TypeOK, NEW r \in Requests, Progress(r), pc[r] \in {"idle", "embedding"},
         NEW q, NEW cache, Dispatch(r, q, cache), input'[r] = q,
         resp' = resp, mandatory' = mandatory
  PROVE  Progress(r)'
<1>1. sent[r] = <<>> /\ ledger[r] = <<>> /\ answer[r] = NoAnswer /\ resp[r].body # "mandatory"
  BY DEF Progress, NotSent, Unlogged, Unanswered, RefusalHandled
<1>2. CASE Unroutable(q.model)
  <2>1. Log(r, 400, cache, Parts(q)) /\ Answered(r, 400, "envelope", "none") /\ sent' = sent
    BY <1>2 DEF Dispatch
  <2>2. Len(sent[r]) # 2
    BY <1>1
  <2> QED
    BY <1>1, <2>1, <2>2, LoggedProgress
<1>3. CASE ~Unroutable(q.model)
  <2>1. /\ pc'[r] = "forwarding"
        /\ sent'[r] = Append(<<>>, Injects(q))
        /\ evidence'[r] = IF Injects(q) THEN "injected" ELSE "none"
        /\ ledger' = ledger /\ answer' = answer
    BY <1>1, <1>3 DEF Dispatch, TypeOK
  <2>2. Len(sent'[r]) = 1 /\ sent'[r][1] = Injects(q)
    BY <2>1
  <2>3. evidence'[r] = "injected" <=> sent'[r][1] = TRUE
    <3>1. CASE Injects(q)
      BY <2>1, <2>2, <3>1
    <3>2. CASE ~Injects(q)
      BY <2>1, <2>2, <3>2
    <3> QED
      BY <3>1, <3>2
  <2>4. /\ Unlogged(r)' /\ Unanswered(r)' /\ Received(r)' /\ Announced(r)'
        /\ NotSent(r)' /\ SentOnce(r)' /\ EvidenceIsTrue(r)' /\ RejectedInjected(r)'
        /\ PassedBare(r)' /\ Accounted(r)'
    BY <1>1, <2>1, <2>2, <2>3
       DEF Unlogged, Unanswered, Received, Announced, NotSent, SentOnce,
           EvidenceIsTrue, RejectedInjected, PassedBare, Accounted
  <2>5. SentTwice(r)'
    BY <2>1, <2>2 DEF SentTwice
  <2>6. RefusalHandled(r)'
    BY <1>1 DEF RefusalHandled
  <2> QED
    BY <2>4, <2>5, <2>6 DEF Progress
<1> QED
  BY <1>2, <1>3

\* Only an injected control is refused, and by the models that insist.
LEMMA RefusedMeansInjected ==
  ASSUME NEW r \in Requests, NEW res \in Responses(r), res.body = "mandatory"
  PROVE  /\ sent[r][Len(sent[r])] = TRUE
         /\ input[r].model \in Mandatory
         /\ res = [status |-> 400, body |-> "mandatory"]
<1>1. res \notin Outcomes
  BY OutcomesAreResponses
<1>2. Refused(r)
  BY <1>1 DEF Responses
<1>3. res = [status |-> 400, body |-> "mandatory"]
  BY <1>1, <1>2 DEF Responses
<1>4. sent[r][Len(sent[r])] = TRUE
  BY <1>2 DEF Refused
<1> QED
  BY <1>2, <1>3, <1>4 DEF Refused

LEMMA ReceiveProgress ==
  ASSUME TypeOK, NEW r \in Requests, Progress(r), Receive(r)
  PROVE  Progress(r)'
<1>1. PICK q \in Inputs, readable \in BOOLEAN :
        /\ pc[r] = "idle"
        /\ input' = [input EXCEPT ![r] = q]
        /\ \/ /\ pc' = [pc EXCEPT ![r] = "embedding"]
              /\ UNCHANGED <<label, sent, evidence, counted, ledger, answer>>
           \/ Dispatch(r, q, IF ExactHit(q, readable) THEN "exact_hit" ELSE "miss")
        /\ UNCHANGED <<armed, resp, mandatory, replies, override>>
  BY DEF Receive
<1>2. CASE Dispatch(r, q, IF ExactHit(q, readable) THEN "exact_hit" ELSE "miss")
  <2>1. input'[r] = q
    BY <1>1 DEF TypeOK
  <2> QED
    BY <1>1, <1>2, <2>1, DispatchProgress
<1>3. CASE /\ pc' = [pc EXCEPT ![r] = "embedding"]
           /\ UNCHANGED <<label, sent, evidence, counted, ledger, answer>>
  <2>1. pc'[r] = "embedding"
    BY <1>3 DEF TypeOK
  <2>2. resp[r].body # "mandatory" /\ sent[r] = <<>> /\ Len(sent[r]) = 0
    BY <1>1 DEF Progress, RefusalHandled, NotSent
  <2>3. /\ Unlogged(r)' /\ Unanswered(r)' /\ Received(r)' /\ Announced(r)'
        /\ NotSent(r)' /\ SentOnce(r)' /\ EvidenceIsTrue(r)' /\ RejectedInjected(r)'
        /\ PassedBare(r)' /\ Accounted(r)' /\ SentTwice(r)' /\ RefusalHandled(r)'
    BY <1>1, <1>3, <2>1, <2>2
       DEF Progress, Unlogged, Unanswered, Received, Announced, NotSent, SentOnce,
           EvidenceIsTrue, RejectedInjected, PassedBare, Accounted, SentTwice, RefusalHandled
  <2> QED
    BY <2>3 DEF Progress
<1> QED
  BY <1>1, <1>2, <1>3

LEMMA NoJsonProgress ==
  ASSUME TypeOK, NEW r \in Requests, Progress(r), Malformed(r) \/ PassThrough(r)
  PROVE  Progress(r)'
<1>0. pc[r] = "idle"
  BY DEF Malformed, PassThrough
<1>1. /\ pc[r] = "idle" /\ sent[r] = <<>> /\ Len(sent[r]) = 0 /\ ledger[r] = <<>>
      /\ answer[r] = NoAnswer /\ resp[r].body # "mandatory"
  BY <1>0 DEF Progress, NotSent, Unlogged, Unanswered, RefusalHandled
<1>2. CASE Malformed(r)
  <2>1. /\ pc'[r] = "done" /\ Crashed(r)' /\ answer'[r].status = 500
        /\ sent' = sent /\ resp' = resp /\ ledger' = ledger
    BY <1>2 DEF Malformed, Answered, Crashed, TypeOK
  <2>2. /\ Unlogged(r)' /\ Unanswered(r)' /\ Received(r)' /\ Announced(r)'
        /\ NotSent(r)' /\ SentOnce(r)' /\ EvidenceIsTrue(r)' /\ RejectedInjected(r)'
        /\ PassedBare(r)' /\ Accounted(r)' /\ SentTwice(r)' /\ RefusalHandled(r)'
    BY <1>1, <2>1
       DEF Unlogged, Unanswered, Received, Announced, NotSent, SentOnce,
           EvidenceIsTrue, RejectedInjected, PassedBare, Accounted, SentTwice, RefusalHandled
  <2> QED
    BY <2>2 DEF Progress
<1>3. CASE PassThrough(r)
  <2>1. /\ pc'[r] = "passing" /\ sent'[r] = <<FALSE>>
        /\ resp' = resp /\ ledger' = ledger /\ answer' = answer
    BY <1>3 DEF PassThrough, TypeOK
  <2>2. Len(sent'[r]) = 1 /\ sent'[r][1] = FALSE
    BY <2>1
  <2>3. /\ Unlogged(r)' /\ Unanswered(r)' /\ Received(r)' /\ Announced(r)'
        /\ NotSent(r)' /\ SentOnce(r)' /\ EvidenceIsTrue(r)' /\ RejectedInjected(r)'
        /\ PassedBare(r)' /\ Accounted(r)' /\ SentTwice(r)' /\ RefusalHandled(r)'
    BY <1>1, <2>1, <2>2
       DEF Unlogged, Unanswered, Received, Announced, NotSent, SentOnce,
           EvidenceIsTrue, RejectedInjected, PassedBare, Accounted, SentTwice, RefusalHandled
  <2> QED
    BY <2>3 DEF Progress
<1> QED
  BY <1>2, <1>3

LEMMA SemanticProgress ==
  ASSUME TypeOK, NEW r \in Requests, Progress(r),
         \/ EmbeddingFails(r) \/ SemanticHit(r) \/ SemanticMiss(r) \/ SemanticUnavailable(r)
  PROVE  Progress(r)'
<1>1. CASE EmbeddingFails(r) \/ SemanticUnavailable(r)
  BY <1>1, DispatchProgress DEF EmbeddingFails, SemanticUnavailable, shared
<1>2. CASE SemanticMiss(r)
  BY <1>2, DispatchProgress DEF SemanticMiss, shared
<1>3. CASE SemanticHit(r)
  <2>1. pc[r] = "embedding" /\ ledger[r] = <<>> /\ sent[r] = <<>> /\ Len(sent[r]) = 0
        /\ resp[r].body # "mandatory"
    BY <1>3 DEF SemanticHit, Progress, Unlogged, NotSent, RefusalHandled
  <2>2. PICK e \in Replayable(input[r]) : answer' = [answer EXCEPT ![r] = Replay(e.from)]
    BY <1>3 DEF SemanticHit
  <2>3. answer'[r].status = 200 /\ pc'[r] = "done" /\ sent' = sent /\ resp' = resp
    BY <1>3, <2>2 DEF SemanticHit, Replay, TypeOK
  <2>4. PICK row : ledger'[r] = Append(<<>>, row) /\ row.status = 200
    <3>1. PICK written \in BOOLEAN :
            ledger' = [ledger EXCEPT ![r] = Append(@,
              [status |-> 200, cache |-> "semantic_hit", parts |-> Parts(input[r]),
               written |-> written])]
      BY <1>3 DEF SemanticHit, Log
    <3> QED
      BY <2>1, <3>1 DEF TypeOK
  <2>5. Len(ledger'[r]) = 1 /\ ledger'[r][1].status = 200
    BY <2>4
  <2>6. /\ Unlogged(r)' /\ Unanswered(r)' /\ Received(r)' /\ Announced(r)'
        /\ NotSent(r)' /\ SentOnce(r)' /\ EvidenceIsTrue(r)' /\ RejectedInjected(r)'
        /\ PassedBare(r)' /\ Accounted(r)' /\ SentTwice(r)' /\ RefusalHandled(r)'
    BY <2>1, <2>3, <2>5
       DEF Unlogged, Unanswered, Received, Announced, NotSent, SentOnce,
           EvidenceIsTrue, RejectedInjected, PassedBare, Accounted, SentTwice, RefusalHandled
  <2> QED
    BY <2>6 DEF Progress
<1> QED
  BY <1>1, <1>2, <1>3

LEMMA UpstreamProgress ==
  ASSUME TypeOK, NEW r \in Requests, Progress(r),
         UpstreamAnswers(r) \/ UpstreamUnreachable(r)
  PROVE  Progress(r)'
<1>1. /\ pc[r] = "forwarding" /\ Len(sent[r]) = 1 /\ ledger[r] = <<>> /\ answer[r] = NoAnswer
      /\ evidence[r] = "injected" <=> sent[r][1] = TRUE
  BY DEF UpstreamAnswers, UpstreamUnreachable, Progress, SentOnce, Unlogged, Unanswered,
         EvidenceIsTrue
<1>2. CASE UpstreamAnswers(r)
  <2>1. PICK res \in Responses(r) :
          /\ \/ /\ LooksInto(r, res)
                /\ pc' = [pc EXCEPT ![r] = "rejected"]
                /\ resp' = [resp EXCEPT ![r] = res]
                /\ UNCHANGED answer
             \/ /\ ~LooksInto(r, res)
                /\ Relay(r, res)
          /\ UNCHANGED <<input, snapshot, lookup, label, armed, sent, evidence, counted, ledger, shared>>
    BY <1>2 DEF UpstreamAnswers
  <2>2. res.body = "mandatory" =>
          evidence[r] = "injected" /\ input[r].model \in Mandatory /\ res.status = 400
    <3> SUFFICES ASSUME res.body = "mandatory"
                 PROVE  evidence[r] = "injected" /\ input[r].model \in Mandatory
                        /\ res.status = 400
      OBVIOUS
    <3>1. /\ sent[r][Len(sent[r])] = TRUE
          /\ input[r].model \in Mandatory
          /\ res = [status |-> 400, body |-> "mandatory"]
      BY RefusedMeansInjected
    <3>2. sent[r][1] = TRUE
      BY <1>1, <3>1
    <3> QED
      BY <1>1, <3>1, <3>2
  <2>3. CASE ~LooksInto(r, res) /\ Relay(r, res)
    <3>1. res.body = "mandatory" => ~Retryable(input[r].model)
      BY <2>2, <2>3 DEF LooksInto
    <3> QED
      BY <1>1, <2>1, <2>3, <3>1, RelayProgress
  <2>4. CASE /\ LooksInto(r, res)
             /\ pc' = [pc EXCEPT ![r] = "rejected"]
             /\ resp' = [resp EXCEPT ![r] = res]
             /\ UNCHANGED answer
    <3>1. res # NoResp
      <4>1. res.status # 0
        BY ResponsesTyped
      <4> QED
        BY <4>1 DEF NoResp
    <3>2. /\ pc'[r] = "rejected" /\ resp'[r] = res /\ evidence[r] = "injected"
          /\ input' = input /\ sent' = sent /\ evidence' = evidence
          /\ ledger' = ledger /\ answer' = answer
      BY <2>1, <2>4 DEF LooksInto, TypeOK
    <3>3. /\ Unlogged(r)' /\ Unanswered(r)' /\ Received(r)' /\ Announced(r)'
          /\ RejectedInjected(r)' /\ PassedBare(r)' /\ Accounted(r)'
      BY <1>1, <3>1, <3>2
         DEF Unlogged, Unanswered, Received, Announced, RejectedInjected, PassedBare, Accounted
    <3>4. NotSent(r)' /\ SentOnce(r)' /\ SentTwice(r)'
      <4>1. Len(sent'[r]) = 1
        BY <1>1, <3>2
      <4> QED
        BY <3>2, <4>1 DEF NotSent, SentOnce, SentTwice
    <3>5. EvidenceIsTrue(r)'
      BY <1>1, <3>2 DEF EvidenceIsTrue
    <3>6. RefusalHandled(r)'
      BY <2>2, <3>2 DEF RefusalHandled
    <3> QED
      BY <3>3, <3>4, <3>5, <3>6 DEF Progress
  <2> QED
    BY <2>1, <2>3, <2>4
<1>3. CASE UpstreamUnreachable(r)
  <2>1. PICK status \in {502, 504} :
          /\ Log(r, status, label[r], counted[r])
          /\ Answered(r, status, "envelope", "none")
          /\ UNCHANGED <<input, snapshot, lookup, label, armed, sent, evidence, counted, resp, shared>>
    BY <1>3 DEF UpstreamUnreachable
  <2> QED
    BY <1>1, <2>1, LoggedProgress DEF shared
<1> QED
  BY <1>2, <1>3

LEMMA RejectionProgress ==
  ASSUME TypeOK, NEW r \in Requests, Progress(r), RejectionRetried(r) \/ RejectionRelayed(r)
  PROVE  Progress(r)'
<1>1. /\ pc[r] = "rejected" /\ Len(sent[r]) = 1 /\ sent[r][1] = TRUE
      /\ ledger[r] = <<>> /\ answer[r] = NoAnswer /\ resp[r] # NoResp
  BY DEF RejectionRetried, RejectionRelayed, Progress, SentOnce, Unlogged, Unanswered,
         Received, EvidenceIsTrue, RejectedInjected
<1>2. CASE RejectionRetried(r)
  <2>1. /\ pc'[r] = "retrying" /\ sent'[r] = Append(sent[r], FALSE)
        /\ input' = input /\ resp' = resp /\ ledger' = ledger /\ answer' = answer
        /\ input[r].model \in mandatory'
    BY <1>2 DEF RejectionRetried, TypeOK
  <2>2. sent[r] \in Seq(BOOLEAN)
    BY DEF TypeOK
  <2>3. Len(sent'[r]) = 2 /\ sent'[r][1] = TRUE /\ sent'[r][2] = FALSE
    BY <1>1, <2>1, <2>2
  <2>4. /\ Unlogged(r)' /\ Unanswered(r)' /\ Received(r)' /\ Announced(r)'
        /\ NotSent(r)' /\ SentOnce(r)' /\ EvidenceIsTrue(r)' /\ RejectedInjected(r)'
        /\ PassedBare(r)' /\ Accounted(r)' /\ SentTwice(r)' /\ RefusalHandled(r)'
    BY <1>1, <2>1, <2>3
       DEF Unlogged, Unanswered, Received, Announced, NotSent, SentOnce,
           EvidenceIsTrue, RejectedInjected, PassedBare, Accounted, SentTwice, RefusalHandled
  <2> QED
    BY <2>4 DEF Progress
<1>3. CASE RejectionRelayed(r)
  BY <1>1, <1>3, LoggedProgress DEF RejectionRelayed, shared
<1> QED
  BY <1>2, <1>3

LEMMA AnswersProgress ==
  ASSUME TypeOK, NEW r \in Requests, Progress(r), RetryAnswers(r) \/ PassThroughAnswers(r)
  PROVE  Progress(r)'
<1>1. sent[r][Len(sent[r])] = FALSE
  <2>1. CASE RetryAnswers(r)
    BY <2>1 DEF RetryAnswers, Progress, SentTwice
  <2>2. CASE PassThroughAnswers(r)
    BY <2>2 DEF PassThroughAnswers, Progress, SentOnce, PassedBare
  <2> QED
    BY <2>1, <2>2
<1>2. PICK res \in Responses(r) :
        /\ Relay(r, res)
        /\ UNCHANGED <<input, snapshot, lookup, label, armed, sent, evidence, counted, ledger, shared>>
  BY DEF RetryAnswers, PassThroughAnswers
<1>3. res.body # "mandatory"
  BY <1>1, RefusedMeansInjected
<1>4. pc[r] \in {"forwarding", "retrying", "passing"}
  BY DEF RetryAnswers, PassThroughAnswers
<1> QED
  BY <1>2, <1>3, <1>4, RelayProgress

LEMMA RelayEndsProgress ==
  ASSUME TypeOK, NEW r \in Requests, Progress(r), RelayFinishes(r) \/ StreamEnds(r)
  PROVE  Progress(r)'
<1>1. CASE RelayFinishes(r)
  <2>1. resp[r].body = "mandatory" => ~Retryable(input[r].model)
    BY <1>1 DEF RelayFinishes, Progress, RefusalHandled
  <2> QED
    BY <1>1, <2>1, LoggedProgress DEF RelayFinishes
<1>2. CASE StreamEnds(r)
  <2>1. /\ pc[r] = "streaming" /\ ledger[r] = <<>> /\ answer[r].status = resp[r].status
    BY <1>2 DEF StreamEnds, Progress, Unlogged, Announced
  <2>2. PICK row : ledger'[r] = Append(<<>>, row) /\ row.status = resp[r].status
    <3>1. PICK written \in BOOLEAN :
            ledger' = [ledger EXCEPT ![r] = Append(@,
              [status |-> resp[r].status, cache |-> label[r], parts |-> counted[r],
               written |-> written])]
      BY <1>2 DEF StreamEnds, Log
    <3> QED
      BY <2>1, <3>1 DEF TypeOK
  <2>3. Len(ledger'[r]) = 1 /\ ledger'[r][1].status = resp[r].status
    BY <2>2
  <2>4. /\ pc'[r] = "done" /\ answer' = answer /\ resp' = resp /\ sent' = sent
        /\ input' = input /\ mandatory' = mandatory
    BY <1>2 DEF StreamEnds, TypeOK, shared
  <2>5. /\ Unlogged(r)' /\ Unanswered(r)' /\ Received(r)' /\ Announced(r)'
        /\ NotSent(r)' /\ SentOnce(r)' /\ EvidenceIsTrue(r)' /\ RejectedInjected(r)'
        /\ PassedBare(r)' /\ Accounted(r)'
    BY <2>1, <2>3, <2>4
       DEF Unlogged, Unanswered, Received, Announced, NotSent, SentOnce,
           EvidenceIsTrue, RejectedInjected, PassedBare, Accounted
  <2>6. SentTwice(r)' /\ RefusalHandled(r)'
    BY <2>1, <2>4 DEF Progress, SentTwice, RefusalHandled, Retryable, Served
  <2> QED
    BY <2>5, <2>6 DEF Progress
<1> QED
  BY <1>1, <1>2

LEMMA OpeningProgress ==
  ASSUME TypeOK, NEW r \in Requests, Progress(r), StreamStarts(r) \/ LeavesEarly(r)
  PROVE  Progress(r)'
<1>1. /\ pc[r] = "opening" /\ pc'[r] \in {"streaming", "left"}
      /\ answer' = answer /\ resp' = resp /\ sent' = sent /\ evidence' = evidence
      /\ input' = input /\ ledger' = ledger /\ mandatory' = mandatory
  BY DEF StreamStarts, LeavesEarly, TypeOK, shared
<1>2. /\ Unlogged(r)' /\ Unanswered(r)' /\ Received(r)' /\ Announced(r)'
      /\ NotSent(r)' /\ SentOnce(r)' /\ EvidenceIsTrue(r)' /\ RejectedInjected(r)'
      /\ PassedBare(r)' /\ Accounted(r)'
  BY <1>1
     DEF Progress, Unlogged, Unanswered, Received, Announced, NotSent, SentOnce,
         EvidenceIsTrue, RejectedInjected, PassedBare, Accounted
<1>3. SentTwice(r)' /\ RefusalHandled(r)'
  BY <1>1 DEF Progress, SentTwice, RefusalHandled, Retryable, Served
<1> QED
  BY <1>2, <1>3 DEF Progress

-----------------------------------------------------------------------------
\* The invariant is inductive.

LEMMA InitIInv == Init => IInv
<1> SUFFICES ASSUME Init PROVE IInv
  OBVIOUS
<1>1. TypeOK
  BY DEF Init, TypeOK, Phases, Labels, Lookups, Notes
<1>2. OnlyRefusersLearned
  BY DEF Init, OnlyRefusersLearned
<1>3. ASSUME NEW r \in Requests PROVE Progress(r)
  <2>1. /\ pc[r] = "idle" /\ sent[r] = <<>> /\ ledger[r] = <<>> /\ answer[r] = NoAnswer
        /\ resp[r].body = "none"
    BY DEF Init, NoResp
  <2>2. Len(sent[r]) = 0
    BY <2>1
  <2> QED
    BY <2>1, <2>2
       DEF Progress, Unlogged, Unanswered, Received, Announced, NotSent, SentOnce,
           EvidenceIsTrue, RejectedInjected, PassedBare, Accounted, SentTwice, RefusalHandled
<1> QED
  BY <1>1, <1>2, <1>3 DEF IInv

\* What the proxy learns, it learns from a refusal of the control.
LEMMA RefusersLearned ==
  ASSUME IInv, Next
  PROVE  OnlyRefusersLearned'
<1>1. CASE mandatory' = mandatory
  BY <1>1 DEF IInv, OnlyRefusersLearned
<1>2. ASSUME NEW r \in Requests, RejectionRetried(r)
      PROVE  OnlyRefusersLearned'
  <2>1. input[r].model \in Mandatory
    BY <1>2 DEF IInv, Progress, RefusalHandled, RejectionRetried
  <2> QED
    BY <1>2, <2>1 DEF IInv, OnlyRefusersLearned, RejectionRetried
<1>3. CASE Flip \/ PrefixExpires \/ ReplyExpires
  BY <1>1, <1>3 DEF Flip, PrefixExpires, ReplyExpires
<1>4. ASSUME NEW r \in Requests, Receive(r) \/ Malformed(r) \/ PassThrough(r)
      PROVE  OnlyRefusersLearned'
  BY <1>1, <1>4 DEF Receive, Malformed, PassThrough, shared
<1>5. ASSUME NEW r \in Requests, Step(r), ~RejectionRetried(r)
      PROVE  OnlyRefusersLearned'
  <2>1. mandatory' = mandatory
    BY <1>5 DEF Step, EmbeddingFails, SemanticHit, SemanticMiss, SemanticUnavailable,
         UpstreamAnswers, UpstreamUnreachable, UpstreamBreaks,
         RejectionRelayed, RejectionUnreadable, RetryAnswers, RetryFails,
         RelayFinishes, RelayBreaks, StreamStarts, LeavesEarly, StreamEnds, PassThroughAnswers, PassThroughFails,
         Crash, shared
  <2> QED
    BY <1>1, <2>1
<1> QED
  BY <1>2, <1>3, <1>4, <1>5 DEF Next

\* The request that takes a step stays well typed and makes progress.
LEMMA OwnStep ==
  ASSUME TypeOK, NEW r \in Requests, Progress(r),
         Receive(r) \/ Malformed(r) \/ PassThrough(r) \/ Step(r)
  PROVE  TypeOK' /\ Progress(r)'
<1>1. CASE Receive(r)
  BY <1>1, ReceiveTyped, ReceiveProgress
<1>2. CASE Malformed(r) \/ PassThrough(r)
  BY <1>2, NoJsonTyped, NoJsonProgress
<1>3. CASE EmbeddingFails(r) \/ SemanticHit(r) \/ SemanticMiss(r) \/ SemanticUnavailable(r)
  BY <1>3, SemanticTyped, SemanticProgress
<1>4. CASE UpstreamAnswers(r) \/ UpstreamUnreachable(r)
  BY <1>4, UpstreamTyped, UpstreamProgress
<1>5. CASE RejectionRetried(r) \/ RejectionRelayed(r)
  BY <1>5, RejectionTyped, RejectionProgress
<1>6. CASE RetryAnswers(r) \/ PassThroughAnswers(r)
  BY <1>6, AnswersTyped, AnswersProgress
<1>7. CASE RelayFinishes(r) \/ StreamEnds(r)
  BY <1>7, RelayEndsTyped, RelayEndsProgress DEF Progress
<1>9. CASE StreamStarts(r) \/ LeavesEarly(r)
  BY <1>9, OpeningTyped, OpeningProgress
<1>8. CASE UpstreamBreaks(r) \/ RejectionUnreadable(r) \/ RetryFails(r) \/ RelayBreaks(r)
           \/ PassThroughFails(r)
  <2>1. Crash(r) /\ pc[r] \notin {"idle", "done"}
    BY <1>8 DEF UpstreamBreaks, RejectionUnreadable, RetryFails, RelayBreaks, PassThroughFails
  <2> QED
    BY <2>1, CrashesTyped, CrashProgress
<1> QED
  BY <1>1, <1>2, <1>3, <1>4, <1>5, <1>6, <1>7, <1>8, <1>9 DEF Step

LEMMA NextIInv == IInv /\ [Next]_vars => IInv'
<1> SUFFICES ASSUME IInv, [Next]_vars PROVE IInv'
  OBVIOUS
<1>1. CASE UNCHANGED vars
  BY <1>1 DEF IInv, TypeOK, OnlyRefusersLearned, vars, shared,
       Progress, Unlogged, Unanswered, Received, Announced, NotSent, SentOnce,
       EvidenceIsTrue, RejectedInjected, PassedBare, Accounted, Crashed, SentTwice, RefusalHandled
<1>2. CASE Flip \/ PrefixExpires \/ ReplyExpires
  <2>1. TypeOK'
    BY <1>2, AroundTyped DEF IInv
  <2>2. ASSUME NEW s \in Requests PROVE Progress(s)'
    <3>1. SameRequest(s) /\ mandatory' = mandatory
      BY <1>2 DEF Flip, PrefixExpires, ReplyExpires, SameRequest
    <3> QED
      BY <3>1, OthersProgress DEF IInv
  <2>3. OnlyRefusersLearned'
    BY <1>2, RefusersLearned DEF Next
  <2> QED
    BY <2>1, <2>2, <2>3 DEF IInv
<1>3. ASSUME NEW r \in Requests, Receive(r) \/ Malformed(r) \/ PassThrough(r) \/ Step(r)
      PROVE  IInv'
  <2>1. TypeOK' /\ Progress(r)'
    BY <1>3, OwnStep DEF IInv
  <2>2. ASSUME NEW s \in Requests, s # r PROVE Progress(s)'
    BY <1>3, <2>2, StepFrame, OthersProgress DEF IInv
  <2>3. OnlyRefusersLearned'
    BY <1>3, RefusersLearned DEF Next
  <2> QED
    BY <2>1, <2>2, <2>3 DEF IInv
<1> QED
  BY <1>1, <1>2, <1>3 DEF Next

LEMMA Inductive == Spec => []IInv
BY InitIInv, NextIInv, PTL DEF Spec

-----------------------------------------------------------------------------
(***************************************************************************)
(* The request path is type correct for all requests, models and switches. *)
(***************************************************************************)
THEOREM PipelineTyped == Spec => []TypeOK
BY Inductive, PTL DEF IInv

(***************************************************************************)
(* _log runs at most once per request, and exactly once, with the status   *)
(* the client saw, for each one that is answered, but for those that end   *)
(* in an uncaught exception and for streams that the client leaves before  *)
(* their generator is entered.                                             *)
(***************************************************************************)
THEOREM EveryAnswerHasItsRow == Spec => []OneRowPerAnswer
<1>1. IInv => OneRowPerAnswer
  <2> SUFFICES ASSUME IInv, NEW r \in Requests
               PROVE  /\ Len(ledger[r]) <= 1
                      /\ pc[r] = "done" /\ ~Crashed(r) =>
                           Len(ledger[r]) = 1 /\ ledger[r][1].status = answer[r].status
                      /\ pc[r] = "left" =>
                           input[r].stream /\ resp[r].status = answer[r].status
    BY DEF OneRowPerAnswer
  <2>1. Unlogged(r) /\ Accounted(r) /\ Announced(r)
    BY DEF IInv, Progress
  <2>2. CASE pc[r] = "done"
    <3>1. CASE ledger[r] = <<>> /\ Crashed(r)
      <4>1. Len(ledger[r]) = 0
        BY <3>1
      <4> QED
        BY <2>2, <3>1, <4>1
    <3>2. CASE Len(ledger[r]) = 1 /\ ledger[r][1].status = answer[r].status
      BY <2>2, <3>2
    <3> QED
      BY <2>1, <2>2, <3>1, <3>2 DEF Accounted
  <2>3. CASE pc[r] # "done"
    <3>1. Len(ledger[r]) = 0
      BY <2>1, <2>3 DEF Unlogged
    <3> QED
      BY <2>1, <2>3, <3>1 DEF Announced
  <2> QED
    BY <2>2, <2>3
<1> QED
  BY <1>1, Inductive, PTL

(***************************************************************************)
(* However requests to the same model interleave, each calls its upstream  *)
(* at most twice, the second time without the control and only after a     *)
(* refusal taught the proxy.                                               *)
(***************************************************************************)
THEOREM RetriesAreBare == Spec => []OneBareRetry
<1>1. IInv => OneBareRetry
  <2> SUFFICES ASSUME IInv, NEW r \in Requests
               PROVE  /\ Len(sent[r]) <= 2
                      /\ Len(sent[r]) = 2 => /\ sent[r] = <<TRUE, FALSE>>
                                             /\ input[r].model \in mandatory
    BY DEF OneBareRetry
  <2>1. SentTwice(r) /\ sent[r] \in Seq(BOOLEAN)
    BY DEF IInv, Progress, TypeOK
  <2>2. ASSUME Len(sent[r]) = 2 PROVE sent[r] = <<TRUE, FALSE>>
    <3> DEFINE both == <<TRUE, FALSE>>
    <3>1. both \in Seq(BOOLEAN) /\ Len(both) = 2 /\ both[1] = TRUE /\ both[2] = FALSE
      OBVIOUS
    <3> HIDE DEF both
    <3>2. sent[r][1] = both[1] /\ sent[r][2] = both[2]
      BY <2>1, <2>2, <3>1 DEF SentTwice
    <3>3. \A i \in 1 .. Len(sent[r]) : sent[r][i] = both[i]
      <4>1. \A i \in 1 .. Len(sent[r]) : i = 1 \/ i = 2
        BY <2>2
      <4> QED
        BY <3>2, <4>1
    <3>4. sent[r] = both
      BY <2>1, <2>2, <3>1, <3>3, SeqEqual
    <3> QED
      BY <3>4 DEF both
  <2> QED
    BY <2>1, <2>2 DEF SentTwice
<1> QED
  BY <1>1, Inductive, PTL

(***************************************************************************)
(* Only models whose upstream refuses the control are ever learned, from   *)
(* whatever mixture of failures.                                           *)
(***************************************************************************)
THEOREM OnlyRefusalsTeach == Spec => []OnlyRefusersLearned
BY Inductive, PTL DEF IInv

(***************************************************************************)
(* No client of OpenRouter, OpenAI or the legacy upstream ever sees the    *)
(* 400 that the proxy's own control provoked.                              *)
(***************************************************************************)
THEOREM RefusalsAreAbsorbed == Spec => []RefusalNeverSurfaces
<1>1. IInv => RefusalNeverSurfaces
  <2> SUFFICES ASSUME IInv, NEW r \in Requests, answer[r].status = 400,
                      RetriesRefusals(input[r].model), resp[r].body = "mandatory"
               PROVE  FALSE
    BY DEF RefusalNeverSurfaces
  <2>1. RefusalHandled(r) /\ Unanswered(r)
    BY DEF IInv, Progress
  <2>2. Retryable(input[r].model)
    BY DEF Retryable, Served, RetriesRefusals
  <2>3. pc[r] \in {"opening", "streaming", "left", "done"}
    BY <2>1 DEF Unanswered, NoAnswer
  <2> QED
    BY <2>1, <2>2, <2>3 DEF RefusalHandled
<1> QED
  BY <1>1, Inductive, PTL

\* The control is decided on in the same step that sends it.
LEMMA DispatchSpares ==
  ASSUME TypeOK, NEW r \in Requests, Progress(r), pc[r] \in {"idle", "embedding"},
         NEW q, NEW cache, Dispatch(r, q, cache), input'[r] = q,
         sent'[r] # sent[r], sent'[r][Len(sent'[r])]
  PROVE  input'[r].model \notin mandatory
<1>1. sent[r] = <<>>
  BY DEF Progress, NotSent
<1>2. ~Unroutable(q.model)
  BY DEF Dispatch
<1>3. sent'[r] = Append(<<>>, Injects(q))
  BY <1>1, <1>2 DEF Dispatch, TypeOK
<1>4. Len(sent'[r]) = 1 /\ sent'[r][1] = Injects(q)
  BY <1>3
<1>5. Injects(q)
  BY <1>4
<1> QED
  BY <1>5 DEF Injects

(***************************************************************************)
(* A model known to refuse the control is never sent it again, not even by *)
(* a request that began before the proxy learned it.                       *)
(***************************************************************************)
THEOREM LearnedIsRemembered == Spec => KnownRefusersSpared
<1> DEFINE Spared(s) ==
      sent'[s] # sent[s] /\ sent'[s][Len(sent'[s])] => input'[s].model \notin mandatory
<1>1. ASSUME IInv, NEW r \in Requests,
             Receive(r) \/ Malformed(r) \/ PassThrough(r) \/ Step(r)
      PROVE  Spared(r)
  <2> SUFFICES ASSUME sent'[r] # sent[r], sent'[r][Len(sent'[r])]
               PROVE  input'[r].model \notin mandatory
    OBVIOUS
  <2>0. TypeOK /\ Progress(r)
    BY <1>1 DEF IInv
  <2>1. CASE Receive(r)
    <3>1. PICK q \in Inputs, readable \in BOOLEAN :
            /\ pc[r] = "idle"
            /\ input' = [input EXCEPT ![r] = q]
            /\ sent' = sent
                 \/ Dispatch(r, q, IF ExactHit(q, readable) THEN "exact_hit" ELSE "miss")
      BY <2>1 DEF Receive
    <3>2. input'[r] = q
      BY <2>0, <3>1 DEF TypeOK
    <3> QED
      BY <2>0, <3>1, <3>2, DispatchSpares
  <2>2. CASE EmbeddingFails(r) \/ SemanticMiss(r) \/ SemanticUnavailable(r)
    BY <2>0, <2>2, DispatchSpares DEF EmbeddingFails, SemanticMiss, SemanticUnavailable
  <2>3. CASE PassThrough(r)
    <3>1. sent'[r] = <<FALSE>>
      BY <2>0, <2>3 DEF PassThrough, TypeOK
    <3>2. Len(sent'[r]) = 1 /\ sent'[r][1] = FALSE
      BY <3>1
    <3> QED
      BY <3>2
  <2>4. CASE RejectionRetried(r)
    <3>1. sent'[r] = Append(sent[r], FALSE) /\ sent[r] \in Seq(BOOLEAN) /\ Len(sent[r]) = 1
      BY <2>0, <2>4 DEF RejectionRetried, TypeOK, Progress, SentOnce
    <3>2. Len(sent'[r]) = 2 /\ sent'[r][2] = FALSE
      BY <3>1
    <3> QED
      BY <3>2
  <2>5. CASE \/ Malformed(r)
             \/ Step(r) /\ ~RejectionRetried(r) /\ ~EmbeddingFails(r)
                        /\ ~SemanticMiss(r) /\ ~SemanticUnavailable(r)
    <3>1. sent' = sent
      BY <2>5 DEF Malformed, Step, SemanticHit, UpstreamAnswers, UpstreamUnreachable,
           UpstreamBreaks, RejectionRelayed, RejectionUnreadable, RetryAnswers, RetryFails,
           RelayFinishes, RelayBreaks, StreamStarts, LeavesEarly, StreamEnds, PassThroughAnswers, PassThroughFails, Crash
    <3> QED
      BY <3>1
  <2> QED
    BY <1>1, <2>1, <2>2, <2>3, <2>4, <2>5
<1>2. IInv /\ [Next]_vars =>
        [\A r \in Requests :
           sent'[r] # sent[r] /\ sent'[r][Len(sent'[r])] => input'[r].model \notin mandatory]_vars
  <2> SUFFICES ASSUME IInv, Next, NEW s \in Requests PROVE Spared(s)
    OBVIOUS
  <2>1. CASE Flip \/ PrefixExpires \/ ReplyExpires
    BY <2>1 DEF Flip, PrefixExpires, ReplyExpires
  <2>2. ASSUME NEW r \in Requests, Receive(r) \/ Malformed(r) \/ PassThrough(r) \/ Step(r)
        PROVE  Spared(s)
    <3>1. CASE s = r
      BY <1>1, <2>2, <3>1
    <3>2. CASE s # r
      BY <2>2, <3>2, StepFrame DEF IInv, SameRequest
    <3> QED
      BY <3>1, <3>2
  <2> QED
    BY <2>1, <2>2 DEF Next
<1> QED
  BY <1>2, Inductive, PTL DEF Spec, KnownRefusersSpared

-----------------------------------------------------------------------------
(***************************************************************************)
(* What the semantic cache may store and replay.                           *)
(***************************************************************************)

(***************************************************************************)
(* The inductive invariant: only a request that began with the cache on    *)
(* and looked it up without a hit is armed, only a finished one is stored. *)
(***************************************************************************)
Seeking(r) ==
  pc[r] = "embedding" =>
    /\ snapshot[r] /\ lookup[r] = "none"
    /\ ~input[r].stream /\ ~Unroutable(input[r].model)
NotYetArmed(r) == pc[r] \in {"idle", "embedding"} => ~armed[r]
ArmedByMiss(r) ==
  armed[r] => /\ snapshot[r] /\ ~input[r].stream
              /\ lookup[r] = "missed"

\* A row of the cache and the request whose answer it is.
Source(e) ==
  /\ pc[e.from] = "done" /\ armed[e.from]
  /\ Genuine(e.from)
  /\ e.scope = SemanticScope(input[e.from]) /\ e.prompt = input[e.from].prompt

Replayed(r) ==
  answer[r].shape = "replay" =>
    /\ pc[r] = "done" /\ snapshot[r]
    /\ answer[r].from \in Requests /\ pc[answer[r].from] = "done"
    /\ Genuine(answer[r].from)
    /\ MayAnswer(input[answer[r].from], input[r])

CacheInv ==
  /\ \A r \in Requests : Seeking(r) /\ NotYetArmed(r) /\ ArmedByMiss(r) /\ Replayed(r)
  /\ \A e \in replies : Source(e)

-----------------------------------------------------------------------------
\* What a step leaves alone.

SameLookup(s) ==
  snapshot'[s] = snapshot[s] /\ armed'[s] = armed[s] /\ lookup'[s] = lookup[s]

LEMMA LookupFrame ==
  ASSUME TypeOK, NEW r \in Requests, NEW s \in Requests, s # r,
         Receive(r) \/ Malformed(r) \/ PassThrough(r) \/ Step(r)
  PROVE  SameLookup(s)
<1>0. DOMAIN snapshot = Requests /\ DOMAIN armed = Requests /\ DOMAIN lookup = Requests
  BY DEF TypeOK
<1>1. CASE Receive(r)
  <2>1. \E q \in Inputs : /\ snapshot' = [snapshot EXCEPT ![r] = override]
                          /\ armed' = armed
                          /\ \E found : lookup' = [lookup EXCEPT ![r] = found]
    BY <1>1 DEF Receive
  <2> QED
    BY <1>0, <2>1 DEF SameLookup
<1>2. CASE Malformed(r) \/ PassThrough(r)
  BY <1>2 DEF Malformed, PassThrough, SameLookup
<1>3. CASE EmbeddingFails(r) \/ SemanticHit(r) \/ SemanticMiss(r) \/ SemanticUnavailable(r)
  BY <1>0, <1>3 DEF EmbeddingFails, SemanticHit, SemanticMiss, SemanticUnavailable,
                    SameLookup
<1>4. CASE Step(r) /\ ~EmbeddingFails(r) /\ ~SemanticHit(r) /\ ~SemanticMiss(r)
                   /\ ~SemanticUnavailable(r)
  BY <1>4 DEF Step, UpstreamAnswers, UpstreamUnreachable, UpstreamBreaks, RejectionRetried,
       RejectionRelayed, RejectionUnreadable, RetryAnswers, RetryFails,
       RelayFinishes, RelayBreaks, StreamStarts, LeavesEarly, StreamEnds, PassThroughAnswers, PassThroughFails,
       Crash, SameLookup
<1> QED
  BY <1>1, <1>2, <1>3, <1>4

LEMMA DoneTakesNoStep ==
  ASSUME NEW r \in Requests, Receive(r) \/ Malformed(r) \/ PassThrough(r) \/ Step(r)
  PROVE  pc[r] # "done"
BY DEF Receive, Malformed, PassThrough, Step, EmbeddingFails, SemanticHit, SemanticMiss,
       SemanticUnavailable, UpstreamAnswers, UpstreamUnreachable, UpstreamBreaks,
       RejectionRetried, RejectionRelayed, RejectionUnreadable, RetryAnswers, RetryFails,
       RelayFinishes, RelayBreaks, StreamStarts, LeavesEarly, StreamEnds, PassThroughAnswers, PassThroughFails

\* A request that is done stays as it is, and so do rows and replays of it.
LEMMA DoneStays ==
  ASSUME TypeOK, Next, NEW s \in Requests, pc[s] = "done"
  PROVE  SameRequest(s) /\ SameLookup(s)
<1>1. CASE Flip \/ PrefixExpires \/ ReplyExpires
  BY <1>1 DEF Flip, PrefixExpires, ReplyExpires, SameRequest, SameLookup
<1>2. ASSUME NEW r \in Requests, Receive(r) \/ Malformed(r) \/ PassThrough(r) \/ Step(r)
      PROVE  SameRequest(s) /\ SameLookup(s)
  <2>1. s # r
    BY <1>2, DoneTakesNoStep
  <2> QED
    BY <1>2, <2>1, StepFrame, LookupFrame
<1> QED
  BY <1>1, <1>2 DEF Next

LEMMA GenuineStays ==
  ASSUME TypeOK, Next, NEW s \in Requests, pc[s] = "done", Genuine(s)
  PROVE  Genuine(s)'
BY DoneStays DEF Genuine, SameRequest

LEMMA SourceStays ==
  ASSUME TypeOK, Next, NEW e \in StoredReply, Source(e)
  PROVE  Source(e)'
<1>1. e.from \in Requests
  BY DEF StoredReply
<1>2. SameRequest(e.from) /\ SameLookup(e.from) /\ Genuine(e.from)'
  BY <1>1, DoneStays, GenuineStays DEF Source
<1> QED
  BY <1>2 DEF Source, SameRequest, SameLookup, SemanticScope

LEMMA ReplayedStays ==
  ASSUME TypeOK, Next, NEW s \in Requests, Replayed(s), SameRequest(s), SameLookup(s)
  PROVE  Replayed(s)'
<1> SUFFICES ASSUME answer[s].shape = "replay" PROVE Replayed(s)'
  BY DEF Replayed, SameRequest
<1>1. /\ pc[s] = "done" /\ snapshot[s]
      /\ answer[s].from \in Requests /\ pc[answer[s].from] = "done"
      /\ Genuine(answer[s].from) /\ MayAnswer(input[answer[s].from], input[s])
  BY DEF Replayed
<1>2. PICK from \in Requests : from = answer[s].from
  BY <1>1
<1>3. pc[from] = "done" /\ Genuine(from) /\ MayAnswer(input[from], input[s])
  BY <1>1, <1>2
<1>4. SameRequest(from) /\ Genuine(from)'
  BY <1>3, DoneStays, GenuineStays
<1>5. answer'[s].from = from /\ pc'[s] = "done" /\ snapshot'[s]
  BY <1>1, <1>2 DEF SameRequest, SameLookup
<1>6. pc'[from] = "done" /\ MayAnswer(input'[from], input'[s])
  BY <1>3, <1>4 DEF SameRequest
<1> QED
  BY <1>4, <1>5, <1>6 DEF Replayed

-----------------------------------------------------------------------------
\* The request that takes the step.

OwnCache(r) == Seeking(r) /\ NotYetArmed(r) /\ ArmedByMiss(r) /\ Replayed(r)

\* A request that is not armed and not answered by a replay.
LEMMA UnarmedOwn ==
  ASSUME NEW r \in Requests, pc'[r] # "embedding", ~armed'[r], answer'[r].shape # "replay"
  PROVE  OwnCache(r)'
BY DEF OwnCache, Seeking, NotYetArmed, ArmedByMiss, Replayed

LEMMA DispatchOwn ==
  ASSUME TypeOK, NEW r \in Requests, pc[r] \in {"idle", "embedding"}, Progress(r),
         NEW q, NEW cache, Dispatch(r, q, cache)
  PROVE  pc'[r] \in {"forwarding", "done"} /\ answer'[r].shape # "replay"
<1>1. answer[r] = NoAnswer
  BY DEF Progress, Unanswered
<1>2. CASE Unroutable(q.model)
  BY <1>1, <1>2 DEF Dispatch, Answered, TypeOK
<1>3. CASE ~Unroutable(q.model)
  <2>1. pc'[r] = "forwarding" /\ answer' = answer
    BY <1>3 DEF Dispatch, TypeOK
  <2> QED
    BY <1>1, <2>1 DEF NoAnswer
<1> QED
  BY <1>2, <1>3

LEMMA ReceiveOwn ==
  ASSUME TypeOK, NEW r \in Requests, Progress(r), OwnCache(r), Receive(r)
  PROVE  OwnCache(r)'
<1>1. PICK q \in Inputs, readable \in BOOLEAN :
        /\ pc[r] = "idle"
        /\ input' = [input EXCEPT ![r] = q]
        /\ snapshot' = [snapshot EXCEPT ![r] = override]
        /\ lookup' = [lookup EXCEPT ![r] =
             IF ExactHit(q, readable) THEN "exact_hit" ELSE "none"]
        /\ \/ /\ SeeksSemantic(q, ExactHit(q, readable))
              /\ pc' = [pc EXCEPT ![r] = "embedding"]
              /\ UNCHANGED <<label, sent, evidence, counted, ledger, answer>>
           \/ Dispatch(r, q, IF ExactHit(q, readable) THEN "exact_hit" ELSE "miss")
        /\ UNCHANGED <<armed, resp, mandatory, replies, override>>
  BY DEF Receive
<1>2. ~armed'[r] /\ answer[r] = NoAnswer /\ input'[r] = q /\ (snapshot'[r] <=> override)
  BY <1>1 DEF OwnCache, NotYetArmed, Progress, Unanswered, TypeOK
<1>3. CASE Dispatch(r, q, IF ExactHit(q, readable) THEN "exact_hit" ELSE "miss")
  <2>1. pc'[r] \in {"forwarding", "done"} /\ answer'[r].shape # "replay"
    BY <1>1, <1>3, DispatchOwn
  <2> QED
    BY <1>2, <2>1, UnarmedOwn
<1>4. CASE /\ SeeksSemantic(q, ExactHit(q, readable))
           /\ pc' = [pc EXCEPT ![r] = "embedding"]
           /\ UNCHANGED answer
  <2>1. override /\ ~q.stream /\ ~Unroutable(q.model) /\ lookup'[r] = "none"
    BY <1>1, <1>4 DEF SeeksSemantic, TypeOK
  <2>2. Seeking(r)'
    BY <1>2, <2>1 DEF Seeking, Unroutable
  <2>3. answer'[r].shape # "replay"
    BY <1>2, <1>4 DEF NoAnswer
  <2> QED
    BY <1>2, <2>2, <2>3 DEF OwnCache, NotYetArmed, ArmedByMiss, Replayed
<1> QED
  BY <1>1, <1>3, <1>4

LEMMA SemanticOwn ==
  ASSUME TypeOK, NEW r \in Requests, Progress(r), CacheInv, Next,
         \/ EmbeddingFails(r) \/ SemanticHit(r) \/ SemanticMiss(r) \/ SemanticUnavailable(r)
  PROVE  OwnCache(r)'
<1>1. pc[r] = "embedding" /\ ~armed[r] /\ snapshot[r] /\ ~input[r].stream
      /\ ~Unroutable(input[r].model) /\ lookup[r] = "none"
  BY DEF EmbeddingFails, SemanticHit, SemanticMiss, SemanticUnavailable, CacheInv,
         NotYetArmed, Seeking
<1>2. CASE EmbeddingFails(r) \/ SemanticUnavailable(r)
  <2>1. pc'[r] \in {"forwarding", "done"} /\ answer'[r].shape # "replay" /\ armed' = armed
    BY <1>1, <1>2, DispatchOwn DEF EmbeddingFails, SemanticUnavailable
  <2> QED
    BY <1>1, <2>1, UnarmedOwn
<1>3. CASE SemanticMiss(r)
  <2>1. PICK cache \in MissLabels(input[r]) : Dispatch(r, input[r], cache)
    BY <1>3 DEF SemanticMiss
  <2>3. pc'[r] \in {"forwarding", "done"} /\ answer'[r].shape # "replay"
    BY <1>1, <2>1, DispatchOwn
  <2>4. input' = input /\ snapshot' = snapshot /\ lookup'[r] = "missed"
    BY <1>1, <1>3 DEF SemanticMiss, TypeOK
  <2>5. ArmedByMiss(r)'
    BY <1>1, <2>4 DEF ArmedByMiss
  <2> QED
    BY <2>3, <2>5 DEF OwnCache, Seeking, NotYetArmed, Replayed
<1>4. CASE SemanticHit(r)
  <2>1. PICK e \in Replayable(input[r]) : answer' = [answer EXCEPT ![r] = Replay(e.from)]
    BY <1>4 DEF SemanticHit
  <2>2. e \in StoredReply /\ Source(e) /\ e.scope = SemanticScope(input[r])
        /\ Near(e.prompt, input[r].prompt)
    BY DEF Replayable, Compatible, CacheInv, TypeOK
  <2>3. e.from \in Requests /\ pc[e.from] = "done" /\ Genuine(e.from)
    BY <2>2 DEF Source, StoredReply
  <2>4. Genuine(e.from)' /\ SameRequest(e.from)
    BY <2>3, GenuineStays, DoneStays
  <2>5. MayAnswer(input[e.from], input[r])
    BY <2>2 DEF Source, SemanticScope, MayAnswer
  <2>6. answer'[r].from = e.from /\ pc'[r] = "done" /\ snapshot'[r] /\ ~armed'[r]
        /\ input'[r] = input[r]
    BY <1>1, <1>4, <2>1 DEF SemanticHit, Replay, TypeOK
  <2>7. pc'[e.from] = "done" /\ MayAnswer(input'[e.from], input'[r])
    BY <2>3, <2>4, <2>5, <2>6 DEF SameRequest
  <2>8. Replayed(r)'
    BY <2>3, <2>4, <2>6, <2>7 DEF Replayed
  <2> QED
    BY <2>6, <2>8 DEF OwnCache, Seeking, NotYetArmed, ArmedByMiss
<1> QED
  BY <1>2, <1>3, <1>4

\* From the upstream call on, the outcome of the lookup does not change.
LEMMA LaterOwn ==
  ASSUME NEW r \in Requests, ArmedByMiss(r), SameLookup(r), input'[r] = input[r],
         pc'[r] \notin {"idle", "embedding"},
         answer'[r].shape # "replay"
  PROVE  OwnCache(r)'
BY DEF OwnCache, Seeking, NotYetArmed, ArmedByMiss, Replayed, SameLookup

\* No answer after the lookup is a replay.
LEMMA NoReplay ==
  ASSUME TypeOK, NEW r \in Requests
  PROVE  /\ \A status, shape, note : shape # "replay" /\ Answered(r, status, shape, note) =>
              pc'[r] = "done" /\ answer'[r].shape # "replay"
         /\ \A res : Relay(r, res) =>
              /\ pc'[r] \in {"opening", "buffering"}
              /\ answer'[r].shape = "provider" \/ answer'[r] = answer[r]
<1>1. ASSUME NEW status, NEW shape, NEW note, shape # "replay",
             Answered(r, status, shape, note)
      PROVE  pc'[r] = "done" /\ answer'[r].shape # "replay"
  BY <1>1 DEF Answered, TypeOK
<1>2. ASSUME NEW res, Relay(r, res)
      PROVE  /\ pc'[r] \in {"opening", "buffering"}
             /\ answer'[r].shape = "provider" \/ answer'[r] = answer[r]
  <2>1. CASE input[r].stream
    BY <1>2, <2>1 DEF Relay, TypeOK
  <2>2. CASE ~input[r].stream
    BY <1>2, <2>2 DEF Relay, TypeOK
  <2> QED
    BY <2>1, <2>2
<1> QED
  BY <1>1, <1>2

LEMMA UnansweredIsNoReplay ==
  ASSUME NEW r \in Requests, Progress(r), Replayed(r), pc[r] # "done"
  PROVE  answer[r].shape # "replay"
BY DEF Replayed

LEMMA UpstreamOwn ==
  ASSUME TypeOK, NEW r \in Requests, Progress(r), OwnCache(r), Step(r),
         ~EmbeddingFails(r), ~SemanticHit(r), ~SemanticMiss(r), ~SemanticUnavailable(r)
  PROVE  OwnCache(r)'
<1>0. answer[r].shape # "replay"
  BY DoneTakesNoStep, UnansweredIsNoReplay DEF OwnCache
<1>1. SameLookup(r) /\ input' = input
  BY DEF Step, UpstreamAnswers, UpstreamUnreachable, UpstreamBreaks, RejectionRetried,
       RejectionRelayed, RejectionUnreadable, RetryAnswers, RetryFails,
       RelayFinishes, RelayBreaks, StreamStarts, LeavesEarly, StreamEnds, PassThroughAnswers, PassThroughFails,
       Crash, SameLookup
<1>3. pc'[r] \notin {"idle", "embedding"} /\ answer'[r].shape # "replay"
  <2>1. CASE UpstreamAnswers(r)
    <3>1. PICK res \in Responses(r) :
            \/ pc' = [pc EXCEPT ![r] = "rejected"] /\ answer' = answer
            \/ Relay(r, res)
      BY <2>1 DEF UpstreamAnswers
    <3> QED
      BY <1>0, <3>1, NoReplay DEF TypeOK
  <2>2. CASE RetryAnswers(r) \/ PassThroughAnswers(r)
    BY <1>0, <2>2, NoReplay DEF RetryAnswers, PassThroughAnswers
  <2>3. CASE Crash(r)
    BY <2>3, NoReplay DEF Crash
  <2>4. CASE UpstreamUnreachable(r) \/ RejectionRelayed(r)
    BY <2>4, NoReplay DEF UpstreamUnreachable, RejectionRelayed
  <2>5. CASE RejectionRetried(r)
    BY <1>0, <2>5 DEF RejectionRetried, TypeOK
  <2>6. CASE RelayFinishes(r)
    <3>1. Shape(resp[r]) # "replay"
      BY ShapeTyped DEF Shapes
    <3> QED
      BY <2>6, <3>1, NoReplay DEF RelayFinishes
  <2>7. CASE StreamStarts(r) \/ LeavesEarly(r) \/ StreamEnds(r)
    BY <1>0, <2>7 DEF StreamStarts, LeavesEarly, StreamEnds, TypeOK
  <2> QED
    BY <2>1, <2>2, <2>3, <2>4, <2>5, <2>6, <2>7
       DEF Step, UpstreamBreaks, RejectionUnreadable, RetryFails, RelayBreaks, PassThroughFails
<1> QED
  BY <1>1, <1>3, LaterOwn DEF OwnCache

LEMMA NoJsonOwn ==
  ASSUME TypeOK, NEW r \in Requests, Progress(r), OwnCache(r), Malformed(r) \/ PassThrough(r)
  PROVE  OwnCache(r)'
<1>1. pc[r] = "idle" /\ ~armed'[r] /\ answer[r] = NoAnswer
  BY DEF Malformed, PassThrough, OwnCache, NotYetArmed, Progress, Unanswered
<1>2. pc'[r] # "embedding" /\ answer'[r].shape # "replay"
  <2>1. CASE Malformed(r)
    BY <2>1, NoReplay DEF Malformed
  <2>2. CASE PassThrough(r)
    BY <1>1, <2>2 DEF PassThrough, NoAnswer, TypeOK
  <2> QED
    BY <2>1, <2>2
<1> QED
  BY <1>1, <1>2, UnarmedOwn

-----------------------------------------------------------------------------
\* The rows of the cache.

LEMMA NewRowSourced ==
  ASSUME TypeOK, NEW r \in Requests, ArmedByMiss(r), RelayFinishes(r), Stores(r),
         NEW e, e = [scope |-> SemanticScope(input[r]), prompt |-> input[r].prompt, from |-> r]
  PROVE  Source(e)'
<1>1. /\ armed[r] /\ ~input[r].stream /\ resp[r].status = 200
      /\ resp[r].body \in {"json", "odd"}
      /\ input' = input /\ armed' = armed
  BY DEF ArmedByMiss, Stores, RelayFinishes
<1>2. Shape(resp[r]) = "rendered"
  BY <1>1 DEF Shape
<1>3. Answered(r, resp[r].status, Shape(resp[r]), evidence[r])
  BY DEF RelayFinishes
<1>4. /\ pc'[r] = "done"
      /\ answer'[r] = [status |-> 200, shape |-> "rendered", evidence |-> evidence[r]]
  BY <1>1, <1>2, <1>3 DEF Answered, TypeOK
<1>5. Genuine(r)'
  BY <1>1, <1>4 DEF Genuine
<1>6. e.from = r /\ e.scope = SemanticScope(input[r]) /\ e.prompt = input[r].prompt
  OBVIOUS
<1> QED
  BY <1>1, <1>4, <1>5, <1>6 DEF Source, SemanticScope

LEMMA RowsSourced ==
  ASSUME TypeOK, CacheInv, Next
  PROVE  \A e \in replies' : Source(e)'
<1>1. ASSUME NEW e \in replies PROVE Source(e)'
  BY SourceStays DEF CacheInv, TypeOK
<1>2. CASE replies' \subseteq replies
  BY <1>1, <1>2
<1>3. ASSUME NEW r \in Requests, RelayFinishes(r), Stores(r), replies' = Stored(r)
      PROVE  \A e \in replies' : Source(e)'
  <2>1. ASSUME NEW e \in replies',
               e = [scope |-> SemanticScope(input[r]), prompt |-> input[r].prompt, from |-> r]
        PROVE  Source(e)'
    BY <1>3, <2>1, NewRowSourced DEF CacheInv
  <2>2. \A e \in replies' : e \in replies \/
          e = [scope |-> SemanticScope(input[r]), prompt |-> input[r].prompt, from |-> r]
    BY <1>3 DEF Stored
  <2> QED
    BY <1>1, <2>1, <2>2
<1>4. CASE Flip \/ PrefixExpires \/ ReplyExpires
  BY <1>2, <1>4 DEF Flip, PrefixExpires, ReplyExpires
<1>5. ASSUME NEW r \in Requests, Receive(r) \/ Malformed(r) \/ PassThrough(r) \/ Step(r)
      PROVE  \A e \in replies' : Source(e)'
  <2>1. CASE RelayFinishes(r)
    BY <1>2, <1>3, <2>1 DEF RelayFinishes
  <2>2. CASE ~RelayFinishes(r)
    <3>1. CASE Receive(r) \/ Malformed(r) \/ PassThrough(r)
      BY <1>2, <3>1 DEF Receive, Malformed, PassThrough, shared
    <3>2. CASE Step(r)
      BY <1>2, <2>2, <3>2 DEF Step, EmbeddingFails, SemanticHit, SemanticMiss,
           SemanticUnavailable, UpstreamAnswers, UpstreamUnreachable, UpstreamBreaks,
           RejectionRetried, RejectionRelayed, RejectionUnreadable, RetryAnswers, RetryFails,
           RelayBreaks, StreamStarts, LeavesEarly, StreamEnds, PassThroughAnswers, PassThroughFails, Crash, shared
    <3> QED
      BY <1>5, <3>1, <3>2
  <2> QED
    BY <2>1, <2>2
<1> QED
  BY <1>4, <1>5 DEF Next

-----------------------------------------------------------------------------
\* The invariant is inductive.

LEMMA InitCache == Init => CacheInv
BY DEF Init, CacheInv, Seeking, NotYetArmed, ArmedByMiss, Replayed, NoAnswer

LEMMA NextCache == IInv /\ CacheInv /\ [Next]_vars => CacheInv'
<1> SUFFICES ASSUME IInv, CacheInv, [Next]_vars PROVE CacheInv'
  OBVIOUS
<1>0. TypeOK /\ \A s \in Requests : Progress(s) /\ OwnCache(s)
  BY DEF IInv, CacheInv, OwnCache
<1>1. CASE UNCHANGED vars
  BY <1>1 DEF CacheInv, Seeking, NotYetArmed, ArmedByMiss, Replayed, Source, Genuine, vars, shared
<1>2. CASE Next
  <2>1. ASSUME NEW s \in Requests, SameRequest(s), SameLookup(s) PROVE OwnCache(s)'
    <3>1. Replayed(s)'
      BY <1>0, <1>2, <2>1, ReplayedStays DEF OwnCache
    <3>2. Seeking(s)' /\ NotYetArmed(s)' /\ ArmedByMiss(s)'
      BY <1>0, <2>1 DEF OwnCache, Seeking, NotYetArmed, ArmedByMiss, SameRequest, SameLookup
    <3> QED
      BY <3>1, <3>2 DEF OwnCache
  <2>2. ASSUME Flip \/ PrefixExpires \/ ReplyExpires
        PROVE  \A s \in Requests : OwnCache(s)'
    <3>1. ASSUME NEW s \in Requests PROVE SameRequest(s) /\ SameLookup(s)
      BY <2>2 DEF Flip, PrefixExpires, ReplyExpires, SameRequest, SameLookup
    <3> QED
      BY <2>1, <3>1
  <2>3. ASSUME NEW r \in Requests, Receive(r) \/ Malformed(r) \/ PassThrough(r) \/ Step(r)
        PROVE  \A s \in Requests : OwnCache(s)'
    <3>1. OwnCache(r)'
      <4>1. CASE Receive(r)
        BY <1>0, <4>1, ReceiveOwn
      <4>2. CASE Malformed(r) \/ PassThrough(r)
        BY <1>0, <4>2, NoJsonOwn
      <4>3. CASE EmbeddingFails(r) \/ SemanticHit(r) \/ SemanticMiss(r) \/ SemanticUnavailable(r)
        BY <1>0, <1>2, <4>3, SemanticOwn
      <4>4. CASE Step(r) /\ ~EmbeddingFails(r) /\ ~SemanticHit(r) /\ ~SemanticMiss(r)
                         /\ ~SemanticUnavailable(r)
        BY <1>0, <4>4, UpstreamOwn
      <4> QED
        BY <2>3, <4>1, <4>2, <4>3, <4>4
    <3>2. ASSUME NEW s \in Requests, s # r PROVE OwnCache(s)'
      BY <1>0, <2>1, <2>3, <3>2, StepFrame, LookupFrame
    <3> QED
      BY <3>1, <3>2
  <2>4. \A s \in Requests : OwnCache(s)'
    BY <1>2, <2>2, <2>3 DEF Next
  <2>5. \A e \in replies' : Source(e)'
    BY <1>0, <1>2, RowsSourced
  <2> QED
    BY <2>4, <2>5 DEF CacheInv, OwnCache
<1> QED
  BY <1>1, <1>2

LEMMA CacheInductive == Spec => [](IInv /\ CacheInv)
<1>1. Init => IInv /\ CacheInv
  BY InitIInv, InitCache
<1>2. IInv /\ CacheInv /\ [Next]_vars => IInv' /\ CacheInv'
  BY NextIInv, NextCache
<1> QED
  BY <1>1, <1>2, PTL DEF Spec

-----------------------------------------------------------------------------
(***************************************************************************)
(* Whatever is replayed, now or later, is another client's successful JSON *)
(* answer for the same model and parameters, to a prompt within the        *)
(* calibrated distance, whatever relation that is.                         *)
(***************************************************************************)
THEOREM OnlyGenuineReplays == Spec => []ReplaysAreGenuine
<1>1. IInv /\ CacheInv => ReplaysAreGenuine
  BY DEF CacheInv, ReplaysAreGenuine, Source, Replayed
<1> QED
  BY <1>1, CacheInductive, PTL

(***************************************************************************)
(* A request that began with the semantic cache off never touches it,      *)
(* whenever and however often the runtime override flips.                  *)
(***************************************************************************)
THEOREM FlipsSpareRequests == Spec => []FlipSparesInFlight
<1>1. IInv /\ CacheInv => FlipSparesInFlight
  <2> SUFFICES ASSUME IInv, CacheInv PROVE FlipSparesInFlight
    OBVIOUS
  <2>1. ASSUME NEW e \in replies PROVE snapshot[e.from]
    <3>1. armed[e.from] /\ e.from \in Requests
      BY DEF CacheInv, Source, IInv, TypeOK, StoredReply
    <3> QED
      BY <3>1 DEF CacheInv, ArmedByMiss
  <2>2. ASSUME NEW r \in Requests, answer[r].shape = "replay" \/ armed[r]
        PROVE  snapshot[r]
    BY <2>2 DEF CacheInv, ArmedByMiss, Replayed
  <2> QED
    BY <2>1, <2>2 DEF FlipSparesInFlight
<1> QED
  BY <1>1, CacheInductive, PTL

(***************************************************************************)
(* Only a request whose semantic lookup cleanly missed ever fills the      *)
(* cache: not one that hit the exact index, nor one whose lookup failed.   *)
(***************************************************************************)
THEOREM CleanMissesFill == Spec => []OnlyCleanMissesFill
<1>1. IInv /\ CacheInv => OnlyCleanMissesFill
  <2> SUFFICES ASSUME IInv, CacheInv, NEW r \in Requests,
                      armed[r] \/ \E e \in replies : e.from = r
               PROVE  lookup[r] = "missed"
    BY DEF OnlyCleanMissesFill
  <2>1. armed[r]
    BY DEF CacheInv, Source
  <2> QED
    BY <2>1 DEF CacheInv, ArmedByMiss
<1> QED
  BY <1>1, CacheInductive, PTL

=============================================================================
