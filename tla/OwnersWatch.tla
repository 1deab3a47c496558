----------------------------- MODULE OwnersWatch -----------------------------
(***************************************************************************)
(* Connections and watches, the seventh and eighth layer: where requests   *)
(* wait, that a live token has seen the generation of its owner, and that  *)
(* the watches of an EXEC stay valid until its record is decided.          *)
(***************************************************************************)
EXTENDS OwnersTask, FiniteSetTheorems

USE ZenonT(30)

LEMMA AnswerFields ==
    ASSUME TypeOK, NEW c \in Client, NEW o, NEW t, NEW g, Answer(c, o, t, g)
    PROVE  PcOnly(c, "idle")
BY GoneFields DEF Answer

LEMMA TokenTypesNow == CoordinatorInv => TokenTypes
BY DEF CoordinatorInv, TypeOK, TokenTypes

LEMMA KeepsFresh ==
    ASSUME NEW c \in Client, KeepsTokens(c)
    PROVE  Fresh(c)
BY DEF KeepsTokens, Fresh, Told

LEMMA AllKeep ==
    ASSUME UNCHANGED <<cl, tokens, seen, generation>>, NEW c \in Client
    PROVE  Keeps(c)
BY DEF Keeps, SameOp, KeepsTokens

\* The tokens that the other connections keep.
LEMMA IdleKeeps ==
    ASSUME CoordinatorInv, NEW c \in Client, Idle(c), UNCHANGED <<seen, generation>>
    PROVE  OthersKeep(c) /\ Leaves(c)
<1>0. TokenTypes /\ TypeOK
  BY TokenTypesNow DEF CoordinatorInv
<1>1. PcOnly(c, "idle")
  BY <1>0, IdleFields
<1>2. ASSUME NEW d \in Client, d # c
      PROVE  Keeps(d)
  <2>1. tokens'[d] = tokens[d]
    BY <1>0, <1>2 DEF Idle, TokenTypes
  <2> QED
    BY <1>1, <1>2, <2>1 DEF Keeps, SameOp, KeepsTokens, PcOnly
<1>3. \A o \in Owner : tokens'[c][o] \in {"none", tokens[c][o]}
  BY <1>0 DEF Idle, TokenTypes
<1>4. Leaves(c)
  BY <1>1, <1>3 DEF Leaves, SameOp, PcOnly, Fresh
<1> QED
  BY <1>2, <1>4 DEF OthersKeep

\* An answer without a change.
LEMMA AnswerKeeps ==
    ASSUME CoordinatorInv, NEW c \in Client, NEW o \in Owner, Answer(c, o, tokens, generation[o]),
           UNCHANGED generation
    PROVE  OthersKeep(c) /\ Leaves(c)
<1>0. TokenTypes /\ TypeOK
  BY TokenTypesNow DEF CoordinatorInv
<1>1. PcOnly(c, "idle")
  BY <1>0, AnswerFields
<1>2. ASSUME NEW d \in Client, d # c
      PROVE  Keeps(d)
  <2>1. tokens'[d] = tokens[d] /\ seen'[d] = seen[d]
    BY <1>0, <1>2 DEF Answer, Watching, SeenAt, TokenTypes
  <2> QED
    BY <1>1, <1>2, <2>1 DEF Keeps, SameOp, KeepsTokens, PcOnly
<1>3. ASSUME NEW p \in Owner, tokens'[c][p] = "live"
      PROVE  seen'[c][p] = generation[p] \/ (tokens[c][p] = "live" /\ seen'[c][p] = seen[c][p])
  <2>1. CASE cl[c].kind = "watch" /\ ~cl[c].gone
    <3>1. tokens' = Watching(tokens, c, o) /\ seen' = SeenAt(c, o, generation[o])
      BY <2>1 DEF Answer
    <3>2. CASE p = o
      BY <1>0, <1>3, <3>1, <3>2 DEF Watching, SeenAt, TokenTypes
    <3>3. CASE p # o
      BY <1>0, <1>3, <3>1, <3>3 DEF Watching, SeenAt, TokenTypes
    <3> QED
      BY <3>2, <3>3
  <2>2. CASE ~(cl[c].kind = "watch" /\ ~cl[c].gone)
    <3>1. seen' = seen /\ (tokens' = tokens \/ tokens' = [tokens EXCEPT ![c] = [q \in Owner |-> "none"]])
      BY <2>2 DEF Answer
    <3>2. tokens' = tokens
      BY <1>0, <1>3, <3>1 DEF TokenTypes
    <3> QED
      BY <1>3, <3>1, <3>2
  <2> QED
    BY <2>1, <2>2
<1>4. Leaves(c)
  BY <1>1, <1>3 DEF Leaves, SameOp, PcOnly, Fresh
<1> QED
  BY <1>2, <1>4 DEF OthersKeep

\* What Invalidate tells.
LEMMA InvalidateTells ==
    ASSUME TokenTypes, NEW o \in Owner, NEW c \in Client, NEW p \in Owner
    PROVE  Invalidate(o)[c][p] = IF p = o THEN Told(tokens[c][p]) ELSE tokens[c][p]
BY DEF Invalidate, Told, TokenTypes

LEMMA ChangeTells ==
    ASSUME CoordinatorInv, NEW o \in Owner, generation' = [generation EXCEPT ![o] = @ + 1],
           NEW c \in Client, tokens'[c] = Invalidate(o)[c], seen'[c] = seen[c]
    PROVE  KeepsTokens(c)
<1>0. TokenTypes
  BY TokenTypesNow
<1>1. ASSUME NEW p \in Owner
      PROVE  tokens'[c][p] = IF generation'[p] = generation[p] THEN tokens[c][p] ELSE Told(tokens[c][p])
  <2>1. tokens'[c][p] = IF p = o THEN Told(tokens[c][p]) ELSE tokens[c][p]
    BY SMTT(30), <1>0, InvalidateTells
  <2>2. generation'[p] = generation[p] <=> p # o
    BY SMTT(30), <1>0 DEF TokenTypes
  <2> QED
    BY <2>1, <2>2
<1> QED
  BY <1>1 DEF KeepsTokens

\* An answer after a change.
LEMMA ChangeKeeps ==
    ASSUME CoordinatorInv, NEW c \in Client, NEW o \in Owner,
           Answer(c, o, Invalidate(o), generation[o] + 1),
           generation' = [generation EXCEPT ![o] = @ + 1]
    PROVE  OthersKeep(c) /\ Leaves(c)
<1>0. TokenTypes /\ TypeOK
  BY TokenTypesNow DEF CoordinatorInv
<1>1. PcOnly(c, "idle")
  BY <1>0, AnswerFields
<1> DEFINE t == Invalidate(o)
<1>2. t \in [Client -> [Owner -> {"none", "live", "changed"}]]
  BY <1>0, InvalidateType
<1>3. /\ tokens' \in {t, Watching(t, c, o), [t EXCEPT ![c] = [p \in Owner |-> "none"]]}
      /\ seen' \in {seen, SeenAt(c, o, generation[o] + 1)}
  BY DEF Answer
<1>4. ASSUME NEW d \in Client, d # c
      PROVE  Keeps(d)
  <2>1. tokens'[d] = t[d] /\ seen'[d] = seen[d]
    <3> HIDE DEF t
    <3> QED
      BY <1>0, <1>2, <1>3, <1>4 DEF Watching, SeenAt, TokenTypes
  <2>2. KeepsTokens(d)
    BY <2>1, ChangeTells
  <2> QED
    BY <1>1, <1>4, <2>2 DEF Keeps, SameOp, PcOnly
<1>5. ASSUME NEW p \in Owner, tokens'[c][p] = "live"
      PROVE  \/ seen'[c][p] = generation'[p]
             \/ tokens[c][p] = "live" /\ seen'[c][p] = seen[c][p] /\ generation'[p] = generation[p]
  <2>0. t[c][p] = (IF p = o THEN Told(tokens[c][p]) ELSE tokens[c][p]) /\ (t[c][p] = "live" => p # o)
    BY <1>0, InvalidateTells DEF Told
  <2>1. generation'[o] = generation[o] + 1 /\ (p # o => generation'[p] = generation[p])
    BY <1>0 DEF TokenTypes
  <2>2. CASE cl[c].kind = "watch" /\ ~cl[c].gone
    <3>1. tokens' = Watching(t, c, o) /\ seen' = SeenAt(c, o, generation[o] + 1)
      BY <2>2 DEF Answer
    <3>2. CASE p = o
      <4>1. t[c][o] = "none"
        <5> HIDE DEF t
        <5> QED
          BY <1>2, <1>5, <2>0, <3>1, <3>2 DEF Watching
      <4>2. tokens[c][o] = "none"
        BY <2>0, <3>2, <4>1 DEF Told
      <4> QED
        BY <1>0, <2>1, <3>1, <3>2, <4>2 DEF SeenAt, TokenTypes
    <3>3. CASE p # o
      <4>1. tokens'[c][p] = t[c][p]
        <5> HIDE DEF t
        <5> QED
          BY <1>2, <3>1, <3>3 DEF Watching
      <4>2. seen'[c][p] = seen[c][p]
        BY <1>0, <3>1, <3>3 DEF SeenAt, TokenTypes
      <4> QED
        BY <1>5, <2>0, <2>1, <3>3, <4>1, <4>2
    <3> QED
      BY <3>2, <3>3
  <2>3. CASE ~(cl[c].kind = "watch" /\ ~cl[c].gone)
    <3>1. seen' = seen /\ (tokens' = t \/ tokens' = [t EXCEPT ![c] = [q \in Owner |-> "none"]])
      BY <2>3 DEF Answer
    <3>2. tokens'[c][p] = t[c][p]
      <4> HIDE DEF t
      <4> QED
        BY <1>2, <1>5, <3>1
    <3> QED
      BY <1>5, <2>0, <2>1, <3>1, <3>2
  <2> QED
    BY <2>2, <2>3
<1>6. Leaves(c)
  BY <1>1, <1>5 DEF Leaves, SameOp, PcOnly, Fresh
<1> QED
  BY <1>4, <1>6 DEF OthersKeep

\* Store::watch by a control, with the change that goes with it if there is one.
LEMMA WatchingFresh ==
    ASSUME CoordinatorInv, NEW c \in Client, NEW o \in Owner, NEW t,
           \/ UNCHANGED generation /\ t = tokens
           \/ generation' = [generation EXCEPT ![o] = @ + 1] /\ t = Invalidate(o),
           tokens' = Watching(t, c, o), seen' = SeenAt(c, o, generation'[o])
    PROVE  Fresh(c) /\ \A d \in Client : d # c => KeepsTokens(d)
<1>0. TokenTypes /\ TypeOK
  BY TokenTypesNow DEF CoordinatorInv
<1>1. t \in [Client -> [Owner -> {"none", "live", "changed"}]]
  BY SMTT(30), <1>0, InvalidateType DEF TokenTypes
<1>2. \A d \in Client : \A p \in Owner :
        t[d][p] = IF generation'[p] = generation[p] THEN tokens[d][p] ELSE Told(tokens[d][p])
  <2>1. CASE UNCHANGED generation /\ t = tokens
    BY <2>1
  <2>2. CASE generation' = [generation EXCEPT ![o] = @ + 1] /\ t = Invalidate(o)
    <3>1. \A p \in Owner : generation'[p] = generation[p] <=> p # o
      BY SMTT(30), <1>0, <2>2 DEF TokenTypes
    <3> QED
      BY SMTT(30), <1>0, <2>2, <3>1, InvalidateTells
  <2> QED
    BY <2>1, <2>2
<1>3. ASSUME NEW d \in Client, d # c
      PROVE  KeepsTokens(d)
  <2>1. tokens'[d] = t[d] /\ seen'[d] = seen[d]
    BY <1>0, <1>1, <1>3 DEF Watching, SeenAt, TokenTypes
  <2> QED
    BY <1>2, <2>1 DEF KeepsTokens
<1>4. ASSUME NEW p \in Owner, tokens'[c][p] = "live"
      PROVE  \/ seen'[c][p] = generation'[p]
             \/ tokens[c][p] = "live" /\ seen'[c][p] = seen[c][p] /\ generation'[p] = generation[p]
  <2>1. CASE p = o
    <3>1. t[c][o] \in {"none", "live"}
      BY <1>1, <1>4, <2>1 DEF Watching
    <3>2. seen'[c][o] = IF tokens[c][o] = "none" THEN generation'[o] ELSE seen[c][o]
      BY <1>0 DEF SeenAt, TokenTypes
    <3> QED
      BY <1>2, <2>1, <3>1, <3>2 DEF Told
  <2>2. CASE p # o
    <3>1. tokens'[c][p] = t[c][p] /\ seen'[c][p] = seen[c][p]
      BY <1>0, <1>1, <2>2 DEF Watching, SeenAt, TokenTypes
    <3> QED
      BY <1>2, <1>4, <3>1 DEF Told
  <2> QED
    BY <2>1, <2>2
<1> QED
  BY <1>3, <1>4 DEF Fresh

LEMMA ControlKeeps ==
    ASSUME CoordinatorInv, Holder, NEW o \in Owner, Handles(o)
    PROVE  (\A c \in Client : Keeps(c)) \/ Gives(o)
<1> USE DEF switches, channels, clients
<1>1. ASSUME ~Apply(o), ~ApplyWatch(o)
      PROVE  \A c \in Client : Keeps(c)
  <2>1. UNCHANGED <<cl, tokens, seen, generation>>
    BY <1>1 DEF Handles, ControlStep, Probe, Clock, CheckWatches, Begin, Candidate, Accept, Seal,
                Abort, PrepareWatch, store
  <2> QED
    BY <2>1, AllKeep
<1>2. ASSUME UNCHANGED <<cl, seen>>, ApplyControl(o), tokens' = TokensAfter(o)
      PROVE  \A c \in Client : Keeps(c)
  <2>1. CASE ctl[o].prepared.mutates
    <3>1. generation' = [generation EXCEPT ![o] = @ + 1] /\ tokens' = Invalidate(o)
      BY <1>2, <2>1 DEF ApplyControl, ApplyChange, TokensAfter
    <3>2. \A c \in Client : KeepsTokens(c)
      BY <1>2, <3>1, ChangeTells
    <3> QED
      BY <1>2, <3>2 DEF Keeps, SameOp
  <2>2. CASE ~ctl[o].prepared.mutates
    BY <1>2, <2>2, AllKeep DEF ApplyControl, TokensAfter, store
  <2> QED
    BY <2>1, <2>2
<1>3. CASE Apply(o)
  <2>1. CASE coordinated[o].open
    BY <1>3, <2>1, AllKeep DEF Apply, store
  <2>2. CASE ~coordinated[o].open
    BY <1>2, <1>3, <2>2 DEF Apply
  <2> QED
    BY <2>1, <2>2
<1>4. CASE ApplyWatch(o)
  <2>1. CASE coordinated[o].open
    BY <1>4, <2>1, AllKeep DEF ApplyWatch, store
  <2>2. CASE ~coordinated[o].open /\ ~ctl[o].wanted
    BY <1>2, <1>4, <2>2 DEF ApplyWatch
  <2>3. CASE ~coordinated[o].open /\ ctl[o].wanted
    <3> DEFINE c == task.client
               t == TokensAfter(o)
    <3>1. ctl[o].client = c /\ task.phase = "applywatch" /\ Shape(task) /\ task.kind \in {"exec", "watch"}
      BY <1>4, <2>3, Wanted DEF ApplyWatch, Receives
    <3>2. task.kind = "watch" /\ c \in Client
      BY <3>1 DEF Shape, PhasesOf, Holder
    <3>3. /\ tokens' = Watching(t, c, o) /\ seen' = SeenAt(c, o, generation'[o]) /\ ApplyControl(o)
          /\ UNCHANGED cl
      BY <1>4, <2>3, <3>1 DEF ApplyWatch
    <3>4. \/ UNCHANGED generation /\ t = tokens
          \/ generation' = [generation EXCEPT ![o] = @ + 1] /\ t = Invalidate(o)
      BY <3>3 DEF ApplyControl, ApplyChange, TokensAfter, store
    <3>5. Fresh(c) /\ \A d \in Client : d # c => KeepsTokens(d)
      <4> HIDE DEF c, t
      <4> QED
        BY <3>2, <3>3, <3>4, WatchingFresh
    <3>6. OthersKeep(c)
      BY <3>3, <3>5 DEF OthersKeep, Keeps, SameOp
    <3> QED
      BY <3>2, <3>3, <3>5, <3>6 DEF Gives
  <2> QED
    BY <2>1, <2>2, <2>3
<1> QED
  BY <1>1, <1>3, <1>4

\* The answer of EXEC or WATCH.
LEMMA ReleaseKeeps ==
    ASSUME CoordinatorInv, Holder, Release, task.kind # "freeze"
    PROVE  task.client \in Client /\ OthersKeep(task.client) /\ Leaves(task.client)
<1>0. TokenTypes /\ TypeOK /\ Shape(task) /\ task \in Task
  BY TokenTypesNow DEF CoordinatorInv, TypeOK
<1>1. task.kind \in {"exec", "watch"}
  BY <1>0 DEF Release, Shape, PhasesOf, Task, Tasks
<1> DEFINE c == task.client
<1>2. c \in Client
  BY <1>1 DEF Holder
<1>3. /\ cl' = [cl EXCEPT ![c].pc = "idle", ![c].gone = FALSE]
      /\ \E lost : tokens' = [tokens EXCEPT ![c] = [o \in Owner |-> IF o \in lost THEN "none" ELSE @[o]]]
      /\ UNCHANGED <<seen, generation>>
  BY DEF Release, store
<1>4. PICK lost : tokens' = [tokens EXCEPT ![c] = [o \in Owner |-> IF o \in lost THEN "none" ELSE @[o]]]
  BY <1>3
<1> HIDE DEF c
<1>5. PcOnly(c, "idle")
  BY <1>0, <1>2, <1>3, GoneFields
<1>6. ASSUME NEW d \in Client, d # c
      PROVE  Keeps(d)
  <2>1. tokens'[d] = tokens[d]
    BY <1>0, <1>4, <1>6 DEF TokenTypes
  <2> QED
    BY <1>3, <1>5, <1>6, <2>1 DEF Keeps, SameOp, KeepsTokens, PcOnly
<1>7. \A o \in Owner : tokens'[c][o] \in {"none", tokens[c][o]}
  BY <1>0, <1>2, <1>4 DEF TokenTypes
<1>8. Leaves(c)
  BY <1>2, <1>3, <1>5, <1>7 DEF Leaves, SameOp, PcOnly, Fresh
<1> QED
  BY <1>2, <1>6, <1>8 DEF OthersKeep, c

LEMMA KeepsParticipants ==
    ASSUME NEW c \in Client, KeepsTokens(c)
    PROVE  /\ Watched(c)' = Watched(c)
           /\ SameOp(c) => Participants(c)' = Participants(c)
<1>1. ASSUME NEW o \in Owner
      PROVE  tokens'[c][o] = "none" <=> tokens[c][o] = "none"
  BY DEF KeepsTokens, Told
<1>2. Watched(c)' = Watched(c)
  BY <1>1 DEF Watched
<1> QED
  BY <1>2 DEF Participants, SameOp

LEMMA ClientKeeps ==
    ASSUME CoordinatorInv, NEW c \in Client, ClientStep(c)
    PROVE  OthersKeep(c) /\ (Continues(c) \/ GivesUp(c))
<1>0. TokenTypes /\ TypeOK
  BY TokenTypesNow DEF CoordinatorInv
<1> USE DEF switches, store, channels, clients
<1>1. ASSUME NEW p, PcOnly(c, p), UNCHANGED <<tokens, seen, generation>>
      PROVE  OthersKeep(c) /\ KeepsTokens(c) /\ SameOp(c) /\ cl'[c].pc = p
  BY <1>1 DEF PcOnly, OthersKeep, Keeps, SameOp, KeepsTokens
<1>2. ASSUME NEW op \in Ops[cl[c].role], Start(c, op)
      PROVE  OthersKeep(c) /\ Continues(c)
  <2>1. UNCHANGED <<tokens, seen, generation>> /\ \A d \in Client : d # c => cl'[d] = cl[d]
    BY <1>0, <1>2, StartFields DEF Start
  <2>2. KeepsTokens(c) /\ OthersKeep(c)
    BY <2>1 DEF OthersKeep, Keeps, SameOp, KeepsTokens
  <2> QED
    BY <1>2, <2>2 DEF Continues
<1>3. CASE Unwatch(c)
  <2>1. /\ cl[c].pc = "idle" /\ UNCHANGED <<cl, seen, generation, requests, worker, task>>
        /\ tokens' = [tokens EXCEPT ![c] = [o \in Owner |-> "none"]]
    BY <1>3 DEF Unwatch
  <2>2. \A d \in Client : d # c => tokens'[d] = tokens[d]
    BY <1>0, <2>1 DEF TokenTypes
  <2>3. \A o \in Owner : tokens'[c][o] = "none"
    BY <1>0, <2>1 DEF TokenTypes
  <2>4. OthersKeep(c)
    BY SMTT(30), <2>1, <2>2 DEF OthersKeep, Keeps, SameOp, KeepsTokens
  <2>5. GivesUp(c)
    BY <2>1, <2>3 DEF GivesUp, Leaves, SameOp, Fresh
  <2> QED
    BY <2>4, <2>5
<1>4. CASE ReadAdmission(c)
  <2>1. cl[c].pc = "admit" /\ UNCHANGED <<seen, generation, requests, worker, task>>
    BY <1>4 DEF ReadAdmission
  <2>2. CASE cl' = [cl EXCEPT ![c].pc = "reserve"] /\ UNCHANGED tokens
    <3>1. PcOnly(c, "reserve")
      BY <1>0, <2>2, PcFields
    <3> QED
      BY <1>1, <2>1, <2>2, <3>1 DEF Continues
  <2>3. CASE Idle(c)
    BY <2>1, <2>3, IdleKeeps DEF GivesUp
  <2> QED
    BY <1>4, <2>2, <2>3 DEF ReadAdmission
<1>5. CASE Enqueue(c)
  <2>1. cl' = [cl EXCEPT ![c].pc = "sent"] /\ UNCHANGED <<tokens, seen, generation>>
    BY <1>5 DEF Enqueue
  <2>2. PcOnly(c, "sent")
    BY <1>0, <2>1, PcFields
  <2> QED
    BY <1>1, <1>5, <2>1, <2>2 DEF Continues
<1>6. CASE ClientTimeout(c)
  <2>1. UNCHANGED <<seen, generation, requests, worker, task>>
    BY <1>6 DEF ClientTimeout
  <2>2. CASE cl[c].pc \in {"admit", "reserve", "acquire"} /\ Idle(c)
    BY <2>1, <2>2, IdleKeeps DEF GivesUp
  <2>3. CASE cl' = [cl EXCEPT ![c].gone = TRUE] /\ UNCHANGED tokens
    <3>1. PcOnly(c, cl[c].pc)
      BY <1>0, <2>3, TimeoutFields
    <3>2. OthersKeep(c) /\ KeepsTokens(c) /\ SameOp(c) /\ cl'[c].pc = cl[c].pc
      BY <1>1, <2>1, <2>3, <3>1
    <3> QED
      BY <2>1, <3>2 DEF Continues, Keeps
  <2> QED
    BY <1>6, <2>2, <2>3 DEF ClientTimeout
<1>7. CASE Unavailable(c)
  <2>1. UNCHANGED <<seen, generation, requests, worker, task>> /\ Idle(c) /\ cl[c].pc # "task"
        /\ (cl[c].pc = "sent" => \E o \in Participants(c) : worker[o].pc \in Dead)
    BY <1>7 DEF Unavailable
  <2> QED
    BY <2>1, IdleKeeps DEF GivesUp
<1>8. CASE AcquireExclusive(c)
  <2>1. cl[c].pc = "acquire" /\ UNCHANGED <<seen, generation, requests, worker>>
    BY <1>8 DEF AcquireExclusive
  <2>2. CASE admission /\ ~shutdown
    <3>1. Acquires(c)
      BY <1>8, <2>2 DEF AcquireExclusive, Acquires
    <3>2. PcOnly(c, "task") /\ UNCHANGED tokens
      BY <1>0, <3>1, PcFields DEF Acquires
    <3> QED
      BY <1>1, <2>1, <3>1, <3>2 DEF Continues
  <2>3. CASE ~(admission /\ ~shutdown)
    <3>1. Idle(c) /\ UNCHANGED task
      BY <1>8, <2>3 DEF AcquireExclusive
    <3> QED
      BY <2>1, <3>1, IdleKeeps DEF GivesUp
  <2> QED
    BY <2>2, <2>3
<1> QED
  BY <1>2, <1>3, <1>4, <1>5, <1>6, <1>7, <1>8 DEF ClientStep

\* What an owner does with the connection at the head of its queue.
LEMMA ServeKeeps ==
    ASSUME CoordinatorInv, NEW o \in Owner, Serve(o), NEW c, c = Head(requests[o])
    PROVE  /\ c \in Client /\ OthersKeep(c) /\ UNCHANGED task
           /\ requests[o] # <<>> /\ requests' = [requests EXCEPT ![o] = Tail(@)]
           /\ \/ Leaves(c) /\ UNCHANGED worker
              \/ /\ Keeps(c)
                 /\ ~(cl[c].kind = "exec" /\ tokens[c][o] = "changed")
                 /\ worker' = [worker EXCEPT ![o] =
                                 [pc |-> "append",
                                  job |-> [kind |-> cl[c].kind, client |-> c,
                                           generation |-> generation[o], position |-> 0]]]
<1>1. /\ requests[o] \in Seq(Client) /\ requests[o] # <<>>
      /\ requests' = [requests EXCEPT ![o] = Tail(@)] /\ UNCHANGED <<task, generation>>
  BY DEF Serve, CoordinatorInv, TypeOK, store
<1>2. c \in Client
  BY SMTT(30), <1>1
<1>3. CASE Idle(c) /\ UNCHANGED <<worker, seen>>
  BY <1>1, <1>2, <1>3, IdleKeeps
<1>4. CASE Answer(c, o, tokens, generation[o]) /\ UNCHANGED worker
  BY <1>1, <1>2, <1>4, AnswerKeeps
<1>5. CASE /\ ~(cl[c].kind = "exec" /\ tokens[c][o] = "changed")
           /\ worker' = [worker EXCEPT ![o] =
                           [pc |-> "append",
                            job |-> [kind |-> cl[c].kind, client |-> c,
                                     generation |-> generation[o], position |-> 0]]]
           /\ UNCHANGED clients
  <2>1. \A d \in Client : Keeps(d)
    BY <1>1, <1>5, AllKeep DEF clients
  <2> QED
    BY <1>1, <1>2, <1>5, <2>1 DEF OthersKeep
<1> QED
  BY <1>3, <1>4, <1>5 DEF Serve

LEMMA FallsFacts ==
    ASSUME CoordinatorInv, NEW o \in Owner, NEW pc, Die(o, pc), UNCHANGED <<cl, tokens, seen, generation>>
    PROVE  Falls(o)
<1>1. /\ worker'[o].job = NoJob /\ requests'[o] = <<>>
      /\ \A p \in Owner : p # o => worker'[p] = worker[p] /\ requests'[p] = requests[p]
  BY DieFields DEF CoordinatorInv
<1> QED
  BY <1>1, AllKeep DEF Falls

LEMMA PersistKeeps ==
    ASSUME CoordinatorInv, NEW o \in Owner, Persist(o)
    PROVE  UNCHANGED task /\ (Goes(o) \/ Ends(o) \/ Falls(o))
<1>0. worker \in [Owner -> Worker]
  BY DEF CoordinatorInv, TypeOK
<1>1. UNCHANGED <<task, seen, generation>>
  BY DEF Persist, store
<1> DEFINE n == Len(Append(log, Record({o}, Origin(worker[o].job.kind))))
<1>2. CASE /\ worker' = [worker EXCEPT ![o].pc = "apply", ![o].job.position = n]
           /\ UNCHANGED <<channels, cl, tokens>>
  <2> HIDE DEF n
  <2>1. ASSUME NEW p \in Owner
        PROVE  worker'[p].job.client = worker[p].job.client /\ worker'[p].job.kind = worker[p].job.kind
    BY SMTT(30), <1>0, <1>2 DEF Worker, Job
  <2> QED
    BY <1>1, <1>2, <2>1, AllKeep DEF Goes, channels
<1>3. CASE /\ worker' = [worker EXCEPT ![o] = [pc |-> "select", job |-> NoJob]]
           /\ IF worker[o].job.client = NoClient THEN UNCHANGED <<cl, tokens>> ELSE Idle(worker[o].job.client)
           /\ UNCHANGED channels
  <2>1. worker'[o].job = NoJob /\ \A p \in Owner : p # o => worker'[p] = worker[p]
    BY <1>0, <1>3
  <2>2. CASE worker[o].job.client = NoClient
    BY <1>1, <1>3, <2>1, <2>2, AllKeep DEF Ends, channels
  <2>3. CASE worker[o].job.client # NoClient
    <3>1. worker[o].job.client \in Client
      BY <1>0, <2>3 DEF Worker, Job, Someone
    <3> QED
      BY <1>1, <1>3, <2>1, <2>3, <3>1, IdleKeeps DEF Ends, channels
  <2> QED
    BY <2>2, <2>3
<1>4. CASE Die(o, "stopped") /\ UNCHANGED <<cl, tokens>>
  BY <1>1, <1>4, FallsFacts
<1> QED
  BY <1>1, <1>2, <1>3, <1>4 DEF Persist

LEMMA ApplyPersistedKeeps ==
    ASSUME CoordinatorInv, NEW o \in Owner, ApplyPersisted(o)
    PROVE  UNCHANGED task /\ (Ends(o) \/ Falls(o))
<1>0. worker \in [Owner -> Worker] /\ TokenTypes
  BY TokenTypesNow DEF CoordinatorInv, TypeOK
<1>1. UNCHANGED task
  BY DEF ApplyPersisted
<1> DEFINE c == worker[o].job.client
<1>2. CASE Die(o, "panicked") /\ UNCHANGED <<store, clients>>
  BY <1>1, <1>2, FallsFacts DEF store, clients
<1>3. CASE /\ ApplyChange(o, worker[o].job.position)
           /\ worker' = [worker EXCEPT ![o] = [pc |-> "select", job |-> NoJob]]
           /\ IF c = NoClient
              THEN tokens' = Invalidate(o) /\ UNCHANGED <<cl, seen>>
              ELSE Answer(c, o, Invalidate(o), generation[o] + 1)
           /\ UNCHANGED channels
  <2>1. worker'[o].job = NoJob /\ \A p \in Owner : p # o => worker'[p] = worker[p]
    BY <1>0, <1>3
  <2>2. generation' = [generation EXCEPT ![o] = @ + 1]
    BY <1>3 DEF ApplyChange
  <2>3. CASE c = NoClient
    <3>1. \A d \in Client : KeepsTokens(d)
      BY <1>3, <2>2, <2>3, ChangeTells
    <3>2. \A d \in Client : Keeps(d)
      BY <1>3, <2>3, <3>1 DEF Keeps, SameOp
    <3> QED
      BY <1>1, <1>3, <2>1, <3>2 DEF Ends, channels
  <2>4. CASE c # NoClient
    <3>1. c \in Client
      BY <1>0, <2>4 DEF Worker, Job, Someone
    <3>2. OthersKeep(c) /\ Leaves(c)
      BY <1>3, <2>2, <2>4, <3>1, ChangeKeeps
    <3> QED
      BY <1>1, <1>3, <2>1, <3>1, <3>2 DEF Ends, channels
  <2> QED
    BY <2>3, <2>4
<1> QED
  BY <1>1, <1>2, <1>3 DEF ApplyPersisted

LEMMA ConnectionCases ==
    ASSUME CoordinatorInv, Holder, JobsInPlace, Next
    PROVE  \/ Rests
           \/ \E c \in Client : OthersKeep(c) /\ (Continues(c) \/ GivesUp(c))
           \/ \E o \in Owner : Serve(o) \/ Expire(o) \/ (UNCHANGED task /\ (Ends(o) \/ Falls(o)))
           \/ \E o \in Owner : Gives(o) /\ UNCHANGED <<requests, worker>>
           \/ /\ Release /\ task.kind # "freeze" /\ UNCHANGED <<requests, worker>>
              /\ OthersKeep(task.client) /\ Leaves(task.client)
<1> USE DEF switches, store, channels, clients
<1>1. ASSUME UNCHANGED <<cl, tokens, seen, generation, requests, worker>>
      PROVE  Rests
  BY <1>1, AllKeep DEF Rests
<1>2. ASSUME NEW c \in Client, ClientStep(c)
      PROVE  OthersKeep(c) /\ (Continues(c) \/ GivesUp(c))
  BY <1>2, ClientKeeps
<1>3. ASSUME NEW o \in Owner, StopRequests(o) \/ Snapshot(o) \/ TimePasses(o)
      PROVE  Rests
  BY <1>1, <1>3 DEF StopRequests, Snapshot, TimePasses
<1>4. ASSUME NEW o \in Owner, StopOnFailure(o) \/ StopWorker(o) \/ StaleControl(o)
      PROVE  UNCHANGED task /\ Falls(o)
  BY <1>4, FallsFacts DEF StopOnFailure, StopWorker, StaleControl
<1>5. ASSUME NEW o \in Owner, Persist(o) \/ ApplyPersisted(o)
      PROVE  Rests \/ (UNCHANGED task /\ (Ends(o) \/ Falls(o)))
  BY <1>5, PersistKeeps, ApplyPersistedKeeps DEF Goes, Rests
<1>6. ASSUME NEW o \in Owner, Handles(o)
      PROVE  Rests \/ (Gives(o) /\ UNCHANGED <<requests, worker>>)
  <2>1. UNCHANGED <<requests, worker>>
    BY <1>6 DEF Handles, ControlStep, Probe, Clock, CheckWatches, Begin, Candidate, Accept, Seal,
                Abort, PrepareWatch, Apply, ApplyWatch
  <2> QED
    BY <1>6, <2>1, ControlKeeps DEF Rests
<1>7. CASE SendControl \/ ControlFailed \/ AppendDecision \/ DropPublication \/ FreezeEnd \/ FreezeBegin
           \/ Shutdown
  BY <1>1, <1>7 DEF SendControl, ControlFailed, AppendDecision, DropPublication, FreezeEnd, FreezeBegin,
                    Shutdown
<1>8. CASE Release
  <2>1. CASE task.kind = "freeze"
    BY <1>1, <1>8, <2>1 DEF Release
  <2>2. CASE task.kind # "freeze"
    <3>1. UNCHANGED <<requests, worker>>
      BY <1>8 DEF Release
    <3> QED
      BY <1>8, <2>2, <3>1, ReleaseKeeps
  <2> QED
    BY <2>1, <2>2
<1> QED
  BY <1>2, <1>3, <1>4, <1>5, <1>6, <1>7, <1>8 DEF Next, WorkerStep, CoordinatorStep, Handles

LEMMA WaitsIs ==
    ASSUME NEW c, NEW o
    PROVE  /\ WaitsAt(c, o) <=> cl[c].pc = "sent" /\ Participants(c) = {o}
           /\ Stays(c, o) <=> cl'[c].pc = "sent" /\ Participants(c)' = {o}
BY DEF WaitsAt, Stays, Waits, Participants, Watched

LEMMA KeepsWaits ==
    ASSUME NEW c \in Client, NEW o, Keeps(c), WaitsAt(c, o)
    PROVE  Stays(c, o) /\ cl'[c].kind = cl[c].kind
<1>1. Participants(c)' = Participants(c)
  BY KeepsParticipants DEF Keeps
<1> QED
  BY <1>1, WaitsIs DEF Keeps, SameOp

LEMMA WaitsOnce ==
    ASSUME NEW c, NEW o, NEW p, WaitsAt(c, o), WaitsAt(c, p)
    PROVE  o = p
BY SMTT(30), WaitsIs

\* Nothing happens at owner p, and nobody who waits there leaves.
LEMMA PlacesFrame ==
    ASSUME CoordinatorInv, NEW p \in Owner, PlacesAt(p), requests'[p] = requests[p],
           worker'[p].job.client = worker[p].job.client, worker'[p].job.kind = worker[p].job.kind,
           \A c \in Client : WaitsAt(c, p) => Keeps(c)
    PROVE  PlacesAt(p)'
<1>1. requests[p] \in Seq(Client) /\ worker[p].job.client \in Client \cup {NoClient}
  BY DEF CoordinatorInv, TypeOK, Worker, Job, Someone
<1>2. ASSUME NEW c \in Client, WaitsAt(c, p)
      PROVE  Stays(c, p) /\ cl'[c].kind = cl[c].kind
  BY <1>2, KeepsWaits
<1>3. ASSUME NEW i \in DOMAIN requests[p]
      PROVE  Stays(requests[p][i], p)
  BY SMTT(30), <1>1, <1>2 DEF PlacesAt
<1>4. ASSUME worker[p].job.client # NoClient
      PROVE  /\ Stays(worker[p].job.client, p)
             /\ worker[p].job.kind = cl'[worker[p].job.client].kind
  BY <1>1, <1>2, <1>4 DEF PlacesAt
<1> QED
  BY <1>3, <1>4 DEF PlacesAt, WaitsAt, Stays

\* An owner without a queue and without a job.
LEMMA PlacesEmpty ==
    ASSUME NEW p \in Owner, requests'[p] = <<>>, worker'[p].job = NoJob
    PROVE  PlacesAt(p)'
BY SMTT(30) DEF PlacesAt, NoJob

\* The job is over, or was not a connection's, and nothing is left of it.
LEMMA PlacesNoJob ==
    ASSUME CoordinatorInv, NEW p \in Owner, PlacesAt(p), requests'[p] = requests[p],
           worker'[p].job.client = NoClient,
           \A c \in Client : c # worker[p].job.client => Keeps(c)
    PROVE  PlacesAt(p)'
<1>1. requests[p] \in Seq(Client)
  BY DEF CoordinatorInv, TypeOK
<1>2. ASSUME NEW i \in DOMAIN requests[p]
      PROVE  Stays(requests[p][i], p) /\ requests[p][i] # NoClient
  <2>1. requests[p][i] \in Client /\ WaitsAt(requests[p][i], p) /\ requests[p][i] # worker[p].job.client
    BY SMTT(30), <1>1 DEF PlacesAt
  <2> QED
    BY <2>1, KeepsWaits, ClientAssumption
<1> QED
  BY <1>2 DEF PlacesAt, WaitsAt, Stays

LEMMA PlacesServe ==
    ASSUME CoordinatorInv, NEW o \in Owner, PlacesAt(o), Serve(o)
    PROVE  PlacesAt(o)'
<1> DEFINE c == Head(requests[o])
           q == requests[o]
<1>1. /\ c \in Client /\ OthersKeep(c) /\ UNCHANGED task
      /\ q # <<>> /\ requests' = [requests EXCEPT ![o] = Tail(@)]
      /\ \/ Leaves(c) /\ UNCHANGED worker
         \/ /\ Keeps(c)
            /\ worker' = [worker EXCEPT ![o] =
                            [pc |-> "append",
                             job |-> [kind |-> cl[c].kind, client |-> c,
                                      generation |-> generation[o], position |-> 0]]]
  BY ServeKeeps
<1>2. /\ requests \in [Owner -> Seq(Client)] /\ worker \in [Owner -> Worker]
      /\ worker[o].job.client \in Client \cup {NoClient} /\ q \in Seq(Client)
  BY DEF CoordinatorInv, TypeOK, Worker, Job, Someone
<1>3. requests'[o] = Tail(q)
  BY <1>1, <1>2
<1>4. c = q[1] /\ 1 \in DOMAIN q
  BY SMTT(30), <1>1, <1>2
<1>5. ASSUME NEW i \in DOMAIN Tail(q)
      PROVE  /\ i + 1 \in DOMAIN q /\ i + 1 # 1 /\ Tail(q)[i] = q[i + 1] /\ q[i + 1] \in Client
             /\ i \in Nat
  BY SMTT(30), <1>1, <1>2
<1> HIDE DEF c, q
<1>6. WaitsAt(c, o) /\ c # worker[o].job.client
  BY <1>4 DEF PlacesAt, q
<1>7. ASSUME NEW i \in DOMAIN Tail(q)
      PROVE  Stays(Tail(q)[i], o) /\ Tail(q)[i] # c /\ Tail(q)[i] # worker[o].job.client
  <2>1. WaitsAt(q[i + 1], o) /\ q[i + 1] # c /\ q[i + 1] # worker[o].job.client /\ q[i + 1] \in Client
    BY <1>4, <1>5 DEF PlacesAt, q
  <2> QED
    BY <1>1, <1>5, <2>1, KeepsWaits DEF OthersKeep
<1>8. ASSUME NEW i \in DOMAIN Tail(q), NEW j \in DOMAIN Tail(q), Tail(q)[i] = Tail(q)[j]
      PROVE  i = j
  <2>1. q[i + 1] = q[j + 1] /\ i + 1 \in DOMAIN q /\ j + 1 \in DOMAIN q /\ i \in Nat /\ j \in Nat
    BY <1>5, <1>8
  <2>2. i + 1 = j + 1
    BY <2>1 DEF PlacesAt, q
  <2> QED
    BY SMTT(30), <2>1, <2>2
<1>9. worker'[o].job.client # NoClient =>
        /\ worker'[o].job.client \in {c, worker[o].job.client}
        /\ Stays(worker'[o].job.client, o)
        /\ worker'[o].job.kind = cl'[worker'[o].job.client].kind
  <2>1. CASE UNCHANGED worker
    <3>1. SUFFICES ASSUME worker[o].job.client # NoClient
                   PROVE  /\ Stays(worker[o].job.client, o)
                          /\ worker[o].job.kind = cl'[worker[o].job.client].kind
      BY <2>1
    <3>2. /\ WaitsAt(worker[o].job.client, o) /\ worker[o].job.kind = cl[worker[o].job.client].kind
          /\ worker[o].job.client \in Client /\ worker[o].job.client # c
      BY <1>2, <1>6, <3>1 DEF PlacesAt
    <3>3. Keeps(worker[o].job.client)
      BY <1>1, <3>2 DEF OthersKeep
    <3> QED
      BY <3>2, <3>3, KeepsWaits
  <2>2. CASE Keeps(c) /\ worker' = [worker EXCEPT ![o] =
                            [pc |-> "append",
                             job |-> [kind |-> cl[c].kind, client |-> c,
                                      generation |-> generation[o], position |-> 0]]]
    <3>1. worker'[o].job.client = c /\ worker'[o].job.kind = cl[c].kind
      BY <1>2, <2>2
    <3>2. Stays(c, o) /\ cl'[c].kind = cl[c].kind
      BY <1>1, <1>6, <2>2, KeepsWaits
    <3> QED
      BY <3>1, <3>2
  <2> QED
    BY <1>1, <2>1, <2>2
<1>10. \A i \in DOMAIN Tail(q) : Tail(q)[i] # worker'[o].job.client
  <2>1. CASE worker'[o].job.client = NoClient
    BY <1>5, <2>1, ClientAssumption
  <2> QED
    BY <1>7, <1>9, <2>1
<1> QED
  BY <1>3, <1>7, <1>8, <1>9, <1>10 DEF PlacesAt, WaitsAt, Stays

LEMMA PlacesEnqueue ==
    ASSUME CoordinatorInv, Single, NEW c \in Client, Enqueue(c), OthersKeep(c), KeepsTokens(c),
           SameOp(c), cl'[c].pc = "sent", NEW p \in Owner, PlacesAt(p)
    PROVE  PlacesAt(p)'
<1>1. PICK o \in Participants(c) : requests' = [requests EXCEPT ![o] = Append(@, c)]
  BY DEF Enqueue
<1>2. /\ requests \in [Owner -> Seq(Client)] /\ UNCHANGED worker /\ cl[c].pc = "reserve"
      /\ worker[p].job.client \in Client \cup {NoClient} /\ requests[p] \in Seq(Client)
  BY DEF Enqueue, CoordinatorInv, TypeOK, Worker, Job, Someone
<1>3. Participants(c) = {o} /\ o \in Owner
  BY <1>2 DEF Single
<1>4. ~WaitsAt(c, p)
  BY <1>2, WaitsIs
<1>5. ASSUME NEW d \in Client, WaitsAt(d, p)
      PROVE  Keeps(d) /\ d # c
  BY <1>4, <1>5 DEF OthersKeep
<1>6. CASE p # o
  <2>1. requests'[p] = requests[p]
    BY <1>1, <1>2, <1>3, <1>6
  <2> QED
    BY <1>2, <1>5, <2>1, PlacesFrame
<1>7. CASE p = o
  <2> DEFINE q == requests[p]
  <2>1. /\ requests'[p] = Append(q, c) /\ DOMAIN Append(q, c) = 1 .. Len(q) + 1
        /\ DOMAIN q = 1 .. Len(q) /\ Append(q, c)[Len(q) + 1] = c /\ Len(q) \in Nat
        /\ \A i \in DOMAIN q : Append(q, c)[i] = q[i] /\ q[i] \in Client
    BY SMTT(30), <1>1, <1>2, <1>3, <1>7
  <2>2. Stays(c, p)
    <3>1. Participants(c)' = Participants(c)
      BY KeepsParticipants
    <3> QED
      BY <1>3, <1>7, <3>1, WaitsIs
  <2> HIDE DEF q
  <2>3. ASSUME NEW i \in DOMAIN q
        PROVE  /\ Stays(q[i], p) /\ q[i] # c /\ q[i] # worker[p].job.client
               /\ \A j \in DOMAIN q : q[i] = q[j] => i = j
    <3>1. q[i] \in Client /\ WaitsAt(q[i], p) /\ q[i] # worker[p].job.client
          /\ \A j \in DOMAIN q : q[i] = q[j] => i = j
      BY <2>1 DEF PlacesAt, q
    <3> QED
      BY <1>5, <3>1, KeepsWaits
  <2>4. ASSUME worker[p].job.client # NoClient
        PROVE  /\ Stays(worker[p].job.client, p) /\ worker[p].job.client # c
               /\ worker[p].job.kind = cl'[worker[p].job.client].kind
    <3>1. /\ WaitsAt(worker[p].job.client, p) /\ worker[p].job.kind = cl[worker[p].job.client].kind
          /\ worker[p].job.client \in Client
      BY <1>2, <2>4 DEF PlacesAt
    <3> QED
      BY <1>5, <3>1, KeepsWaits
  <2>5. worker[p].job.client # c
    BY <2>4, ClientAssumption
  <2>6. ASSUME NEW i \in DOMAIN Append(q, c)
        PROVE  /\ Stays(Append(q, c)[i], p) /\ Append(q, c)[i] # worker[p].job.client
               /\ \A j \in DOMAIN Append(q, c) : Append(q, c)[i] = Append(q, c)[j] => i = j
    <3>1. CASE i \in DOMAIN q
      <4>1. ASSUME NEW j \in DOMAIN Append(q, c), Append(q, c)[i] = Append(q, c)[j]
            PROVE  i = j
        <5>1. CASE j \in DOMAIN q
          BY <2>1, <2>3, <3>1, <4>1, <5>1
        <5>2. CASE j \notin DOMAIN q
          <6>1. j = Len(q) + 1
            BY SMTT(30), <2>1, <5>2
          <6> QED
            BY <2>1, <2>3, <3>1, <4>1, <6>1
        <5> QED
          BY <5>1, <5>2
      <4>2. Append(q, c)[i] = q[i]
        BY <2>1, <3>1
      <4> QED
        BY <2>3, <3>1, <4>1, <4>2
    <3>2. CASE i \notin DOMAIN q
      <4>1. i = Len(q) + 1 /\ Append(q, c)[i] = c
        BY SMTT(30), <2>1, <3>2
      <4>2. ASSUME NEW j \in DOMAIN Append(q, c), c = Append(q, c)[j]
            PROVE  i = j
        <5>1. j \notin DOMAIN q
          BY <2>1, <2>3, <4>2
        <5> QED
          BY SMTT(30), <2>1, <4>1, <5>1
      <4> QED
        BY <2>2, <2>5, <4>1, <4>2
    <3> QED
      BY <3>1, <3>2
  <2> QED
    BY <1>2, <2>1, <2>4, <2>6 DEF PlacesAt, WaitsAt, Stays
<1> QED
  BY <1>6, <1>7

LEMMA ParticipantsNext ==
    ASSUME TypeOK', NEW c \in Client
    PROVE  Participants(c)' \subseteq Owner
<1> DEFINE plan == cl'[c].plan
<1>1. plan \in Seq((SUBSET Owner) \ {{}})
  BY DEF TypeOK, Connection
<1>2. \A i \in DOMAIN plan : plan[i] \in (SUBSET Owner) \ {{}}
  BY SMTT(30), <1>1
<1>3. 1 \in Owner
  BY SMTT(30), BoundsAssumption DEF Owner
<1> QED
  BY <1>2, <1>3 DEF Participants, ParticipantsOf, Watched

LEMMA PlacesClient ==
    ASSUME CoordinatorInv, JobsInPlace, Places, Single, NEW c \in Client, OthersKeep(c),
           Continues(c) \/ GivesUp(c), NEW p \in Owner
    PROVE  PlacesAt(p)'
<1>0. PlacesAt(p)
  BY DEF Places
<1>1. ASSUME UNCHANGED <<requests, worker>>, ~WaitsAt(c, p)
      PROVE  PlacesAt(p)'
  BY <1>0, <1>1, PlacesFrame DEF OthersKeep
<1>2. ASSUME UNCHANGED <<requests, worker>>, cl[c].pc # "sent"
      PROVE  PlacesAt(p)'
  BY <1>1, <1>2, WaitsIs
<1>3. CASE Continues(c)
  <2>1. ASSUME NEW op \in Ops[cl[c].role], Start(c, op)
        PROVE  PlacesAt(p)'
    BY <1>2, <2>1 DEF Start, channels
  <2>2. CASE cl[c].pc = "admit" /\ UNCHANGED <<requests, worker, task>>
    BY <1>2, <2>2
  <2>3. CASE SameOp(c) /\ cl'[c].pc = "sent" /\ Enqueue(c)
    BY <1>0, <1>3, <2>3, PlacesEnqueue DEF Continues
  <2>4. CASE Acquires(c)
    BY <1>2, <2>4 DEF Acquires
  <2>5. CASE Keeps(c) /\ UNCHANGED <<requests, worker, task>>
    BY <1>0, <2>5, PlacesFrame DEF OthersKeep
  <2> QED
    BY <1>3, <2>1, <2>2, <2>3, <2>4, <2>5 DEF Continues
<1>4. CASE GivesUp(c)
  <2>1. CASE WaitsAt(c, p)
    <3>1. cl[c].pc = "sent" /\ Participants(c) = {p}
      BY <2>1, WaitsIs
    <3>2. worker[p].pc \in Dead /\ UNCHANGED <<requests, worker>>
      BY <1>4, <3>1 DEF GivesUp
    <3>3. requests[p] = <<>> /\ worker[p].job = NoJob
      BY <3>2 DEF JobsInPlace, Dead
    <3> QED
      BY <3>2, <3>3, PlacesEmpty
  <2>2. CASE ~WaitsAt(c, p)
    BY <1>1, <1>4, <2>2 DEF GivesUp
  <2> QED
    BY <2>1, <2>2
<1> QED
  BY <1>3, <1>4

LEMMA PlacesOwner ==
    ASSUME CoordinatorInv, JobsInPlace, Places, NEW o \in Owner, NEW p \in Owner,
           Serve(o) \/ Expire(o) \/ Ends(o) \/ Falls(o)
    PROVE  PlacesAt(p)'
<1>0. PlacesAt(p) /\ PlacesAt(o) /\ requests \in [Owner -> Seq(Client)] /\ worker \in [Owner -> Worker]
      /\ worker[o].job.client \in Client \cup {NoClient}
  BY DEF Places, CoordinatorInv, TypeOK, Worker, Job, Someone
<1>1. ASSUME p # o, requests'[p] = requests[p], worker'[p] = worker[p],
             NEW c \in Client, WaitsAt(c, o), OthersKeep(c)
      PROVE  PlacesAt(p)'
  <2>1. ~WaitsAt(c, p)
    BY <1>1, WaitsOnce
  <2> QED
    BY <1>0, <1>1, <2>1, PlacesFrame DEF OthersKeep
<1>2. ASSUME p # o, requests'[p] = requests[p], worker'[p] = worker[p], \A c \in Client : Keeps(c)
      PROVE  PlacesAt(p)'
  BY <1>0, <1>2, PlacesFrame
<1>3. CASE Serve(o)
  <2>1. CASE p = o
    BY <1>0, <1>3, <2>1, PlacesServe
  <2>2. CASE p # o
    <3> DEFINE c == Head(requests[o])
    <3>1. /\ c \in Client /\ OthersKeep(c) /\ requests[o] # <<>>
          /\ requests' = [requests EXCEPT ![o] = Tail(@)]
          /\ UNCHANGED worker \/ worker' = [worker EXCEPT ![o] =
                              [pc |-> "append",
                               job |-> [kind |-> cl[c].kind, client |-> c,
                                        generation |-> generation[o], position |-> 0]]]
      BY <1>3, ServeKeeps
    <3>2. requests'[p] = requests[p] /\ worker'[p] = worker[p]
      BY <1>0, <2>2, <3>1
    <3>3. c = requests[o][1] /\ 1 \in DOMAIN requests[o]
      BY SMTT(30), <1>0, <3>1
    <3>4. WaitsAt(c, o)
      BY <1>0, <3>3 DEF PlacesAt
    <3> QED
      BY <1>1, <2>2, <3>1, <3>2, <3>4
  <2> QED
    BY <2>1, <2>2
<1>4. CASE Expire(o)
  <2>1. /\ UNCHANGED <<cl, tokens, seen, generation, requests>>
        /\ worker' = [worker EXCEPT ![o] =
                    [pc |-> "append",
                     job |-> [kind |-> "expire", client |-> NoClient,
                              generation |-> generation[o], position |-> 0]]]
    BY <1>4 DEF Expire, store, channels, clients
  <2>2. \A c \in Client : Keeps(c)
    BY <2>1, AllKeep
  <2>3. CASE p = o
    <3>1. worker'[p].job.client = NoClient
      BY <1>0, <2>1, <2>3
    <3> QED
      BY <1>0, <2>1, <2>2, <3>1, PlacesNoJob
  <2>4. CASE p # o
    <3>1. worker'[p] = worker[p]
      BY <1>0, <2>1, <2>4
    <3> QED
      BY <1>2, <2>1, <2>2, <2>4, <3>1
  <2> QED
    BY <2>3, <2>4
<1>5. CASE Ends(o)
  <2>1. CASE p = o
    BY SMTT(30), <1>0, <1>5, <2>1, PlacesNoJob DEF Ends, NoJob, OthersKeep
  <2>2. CASE p # o
    <3>1. CASE \A c \in Client : Keeps(c)
      BY <1>2, <1>5, <2>2, <3>1 DEF Ends
    <3>2. CASE worker[o].job.client \in Client /\ OthersKeep(worker[o].job.client)
      <4>1. WaitsAt(worker[o].job.client, o)
        BY <1>0, <3>2, ClientAssumption DEF PlacesAt
      <4> QED
        BY <1>1, <1>5, <2>2, <3>2, <4>1 DEF Ends
    <3> QED
      BY <1>5, <3>1, <3>2 DEF Ends
  <2> QED
    BY <2>1, <2>2
<1>6. CASE Falls(o)
  <2>1. CASE p = o
    BY <1>6, <2>1, PlacesEmpty DEF Falls
  <2>2. CASE p # o
    BY <1>2, <1>6, <2>2 DEF Falls
  <2> QED
    BY <2>1, <2>2
<1> QED
  BY <1>3, <1>4, <1>5, <1>6

LEMMA PlacesStep ==
    ASSUME CoordinatorInv, JobsInPlace, ConnectionInv, Next
    PROVE  Places'
<1>1. SUFFICES ASSUME NEW p \in Owner
               PROVE  PlacesAt(p)'
  BY DEF Places
<1>0. PlacesAt(p) /\ Places /\ Single /\ Holder
  BY DEF ConnectionInv, Places
<1>2. ASSUME UNCHANGED <<requests, worker>>, task.client \in Client, cl[task.client].pc = "task",
             OthersKeep(task.client)
      PROVE  PlacesAt(p)'
  <2>1. ~WaitsAt(task.client, p)
    BY <1>2, WaitsIs
  <2> QED
    BY <1>0, <1>2, <2>1, PlacesFrame DEF OthersKeep
<1>3. CASE Rests
  BY <1>0, <1>3, PlacesFrame DEF Rests
<1>4. ASSUME NEW c \in Client, OthersKeep(c), Continues(c) \/ GivesUp(c)
      PROVE  PlacesAt(p)'
  BY <1>0, <1>4, PlacesClient
<1>5. ASSUME NEW o \in Owner, Serve(o) \/ Expire(o) \/ Ends(o) \/ Falls(o)
      PROVE  PlacesAt(p)'
  BY <1>0, <1>5, PlacesOwner
<1>6. ASSUME NEW o \in Owner, Gives(o), UNCHANGED <<requests, worker>>
      PROVE  PlacesAt(p)'
  BY <1>0, <1>2, <1>6 DEF Gives, Holder
<1>7. CASE Release /\ task.kind # "freeze" /\ UNCHANGED <<requests, worker>> /\ OthersKeep(task.client)
  <2>1. task.kind \in {"exec", "watch"}
    BY <1>7 DEF Release, CoordinatorInv, TypeOK, Shape, PhasesOf, Task, Tasks
  <2> QED
    BY <1>0, <1>2, <1>7, <2>1 DEF Holder
<1> QED
  BY <1>0, <1>3, <1>4, <1>5, <1>6, <1>7, ConnectionCases

LEMMA SingleStep ==
    ASSUME CoordinatorInv, JobsInPlace, ConnectionInv, Next
    PROVE  Single'
<1>0. Single /\ Holder /\ TypeOK
  BY DEF ConnectionInv, CoordinatorInv
<1>1. SUFFICES ASSUME NEW c \in Client, cl'[c].pc \in {"admit", "reserve", "sent"}
               PROVE  \E o \in Owner : Participants(c)' = {o}
  BY DEF Single
<1>2. ASSUME SameOp(c), KeepsTokens(c), cl[c].pc \in {"admit", "reserve", "sent"}
      PROVE  \E o \in Owner : Participants(c)' = {o}
  BY <1>0, <1>2, KeepsParticipants DEF Single
<1>3. ASSUME Keeps(c)
      PROVE  \E o \in Owner : Participants(c)' = {o}
  BY <1>1, <1>2, <1>3 DEF Keeps
<1>4. ASSUME Leaves(c)
      PROVE  FALSE
  BY <1>1, <1>4 DEF Leaves
<1>5. ASSUME Continues(c)
      PROVE  \E o \in Owner : Participants(c)' = {o}
  <2>1. ASSUME NEW op \in Ops[cl[c].role], Start(c, op)
        PROVE  \E o \in Owner : Participants(c)' = {o}
    <3> DEFINE S == ParticipantsOf(op.kind, op.plan, Watched(c))
    <3>1. Cardinality(S) = 1 /\ cl'[c].kind = op.kind /\ cl'[c].plan = op.plan
      BY <1>0, <1>1, <2>1, StartFields
    <3>2. Watched(c)' = Watched(c)
      BY <1>5, KeepsParticipants DEF Continues
    <3>3. Participants(c)' = S
      BY <3>1, <3>2 DEF Participants
    <3>4. TypeOK'
      BY CoordinatorInvStep DEF CoordinatorInv
    <3>5. S \subseteq Owner
      BY <3>3, <3>4, ParticipantsNext
    <3>6. IsFiniteSet(S)
      <4>1. IsFiniteSet(Owner)
        BY SMTT(30), FS_Interval, BoundsAssumption DEF Owner
      <4> QED
        BY <3>5, <4>1, FS_Subset
    <3>7. \E x : S = {x}
      BY <3>1, <3>6, FS_Singleton
    <3> QED
      BY <3>3, <3>5, <3>7
  <2>2. ASSUME Acquires(c), cl'[c].pc = "task"
        PROVE  FALSE
    BY <1>1, <2>2
  <2>3. ASSUME Enqueue(c)
        PROVE  cl[c].pc = "reserve"
    BY <2>3 DEF Enqueue
  <2> QED
    BY <1>2, <1>3, <1>5, <2>1, <2>2, <2>3 DEF Continues
<1>6. ASSUME NEW d \in Client, OthersKeep(d), Leaves(d) \/ Continues(d) \/ GivesUp(d)
      PROVE  \E o \in Owner : Participants(c)' = {o}
  BY <1>3, <1>4, <1>5, <1>6 DEF OthersKeep, GivesUp
<1>7. ASSUME NEW o \in Owner, Serve(o) \/ Expire(o) \/ Ends(o) \/ Falls(o)
      PROVE  \E x \in Owner : Participants(c)' = {x}
  <2>1. CASE Serve(o)
    <3> DEFINE d == Head(requests[o])
    <3>1. d \in Client /\ OthersKeep(d) /\ (Leaves(d) \/ Keeps(d))
      BY <2>1, ServeKeeps
    <3> QED
      BY <1>3, <1>6, <3>1 DEF OthersKeep
  <2>2. CASE Expire(o)
    <3>1. Keeps(c)
      BY <2>2, AllKeep DEF Expire, store, clients
    <3> QED
      BY <1>3, <3>1
  <2>3. CASE Ends(o)
    BY <1>3, <1>6, <2>3 DEF Ends
  <2>4. CASE Falls(o)
    BY <1>3, <2>4 DEF Falls
  <2> QED
    BY <1>7, <2>1, <2>2, <2>3, <2>4
<1>8. ASSUME NEW o \in Owner, Gives(o)
      PROVE  \E x \in Owner : Participants(c)' = {x}
  <2>1. c # task.client
    BY <1>0, <1>1, <1>8 DEF Gives, Holder
  <2> QED
    BY <1>3, <1>8, <2>1 DEF Gives, OthersKeep
<1>9. ASSUME Release, task.kind # "freeze"
      PROVE  \E x \in Owner : Participants(c)' = {x}
  BY <1>0, <1>6, <1>9, ReleaseKeeps
<1> QED
  BY <1>0, <1>3, <1>6, <1>7, <1>8, <1>9, ConnectionCases DEF Rests

LEMMA SameVetted ==
    ASSUME task' \in Task, task.kind \in {"exec", "watch"}, ~Release, SameDecision(task, task'),
           task'.phase \notin Vetting \cup {"check"}
    PROVE  SameTask
BY DEF SameDecision, SameTask, Vetted

LEMMA TaskHands ==
    ASSUME CoordinatorInv, Next
    PROVE  \/ \E c \in Client : Acquires(c)
           \/ task'.kind \notin {"exec", "watch"}
           \/ SameTask
<1>0. task \in Task /\ Shape(task) /\ TypeOK /\ task' \in Task
  BY CoordinatorInvStep DEF CoordinatorInv, TypeOK
<1>1. ASSUME UNCHANGED task
      PROVE  task'.kind \notin {"exec", "watch"} \/ SameTask
  <2>1. CASE Release
    BY SMTT(30), <2>1, <1>1 DEF Release, NoTask
  <2>2. CASE ~Release
    BY <1>1, <2>2 DEF SameTask
  <2> QED
    BY <2>1, <2>2
<1>2. ASSUME NEW o \in Owner, Handles(o)
      PROVE  task'.kind \notin {"exec", "watch"} \/ SameTask
  <2>1. CASE ~ctl[o].wanted
    BY <1>1, <1>2, <2>1, ControlAnswer DEF Handles
  <2>2. CASE ctl[o].wanted
    <3>1. Asks(task) /\ o \in task.todo /\ task.kind \in {"exec", "watch"} /\ task.phase # "release"
      BY <2>2, Wanted DEF Asks
    <3>2. ~Release
      BY <3>1 DEF Release
    <3>3. CASE FailedMove(task, task')
      <4>1. task'.phase \in {"abort", "drop"} /\ SameDecision(task, task')
        BY <3>3 DEF FailedMove
      <4> QED
        BY <1>0, <3>1, <3>2, <4>1, SameVetted DEF Vetting
    <3>4. CASE Refuses
      BY <1>0, <3>1, <3>2, <3>4, SameVetted DEF Refuses, Vetting
    <3>5. CASE Moves(o)
      <4>1. PICK u : Gathers(task, u, o) /\ SameDecision(u, task') /\ Move(u, task', o)
        BY <3>5 DEF Moves
      <4>2. /\ u.kind = task.kind /\ u.client = task.client /\ u.owners = task.owners
            /\ u.phase = task.phase /\ u.todo = task.todo
            /\ task.phase = "check" => tokens[task.client][o] # "changed"
        BY <4>1 DEF Gathers, Collects
      <4>3. /\ task'.kind = task.kind /\ task'.client = task.client /\ task'.owners = task.owners
        BY <4>1, <4>2 DEF SameDecision
      <4>4. ASSUME NEW p \in Vetted(task')
            PROVE  p \in Vetted(task) \/ (task.phase = "check" /\ tokens[task.client][p] # "changed")
        <5>1. CASE task.todo = {o}
          <6>1. Advance(u, task')
            BY <4>1, <4>2, <5>1 DEF Move
          <6>2. task.phase \in Vetting \cup {"check"} \/ task'.phase \notin Vetting \cup {"check"}
                \/ (task'.phase = "check" /\ task'.todo = task.owners) \/ task.phase = "prepare"
            BY <4>2, <6>1 DEF Advance, Vetting
          <6>3. CASE task.phase \in Vetting
            BY <4>3, <4>4, <6>3 DEF Vetted, Vetting
          <6>4. CASE task.phase = "check"
            BY <4>2, <4>3, <4>4, <5>1, <6>4 DEF Vetted
          <6>5. CASE task'.phase \notin Vetting \cup {"check"}
            BY <4>4, <6>5 DEF Vetted
          <6>6. CASE task'.phase = "check" /\ task'.todo = task.owners
            BY <4>3, <4>4, <6>6 DEF Vetted, Vetting
          <6>7. CASE task.phase = "prepare"
            BY <1>0, <4>3, <4>4, <6>7 DEF Vetted, Shape, PhasesOf
          <6> QED
            BY <6>2, <6>3, <6>4, <6>5, <6>6, <6>7
        <5>2. CASE task.todo # {o}
          <6>1. task'.phase = task.phase /\ task'.todo = task.todo \ {o}
            BY <4>1, <4>2, <5>2 DEF Move
          <6> QED
            BY <4>2, <4>3, <4>4, <6>1 DEF Vetted, Vetting
        <5> QED
          BY <5>1, <5>2
      <4> QED
        BY <3>1, <3>2, <4>3, <4>4 DEF SameTask
    <3> QED
      BY <1>2, <2>2, <3>3, <3>4, <3>5, HandlesMoves
  <2> QED
    BY <2>1, <2>2
<1>3. ASSUME NEW o \in Owner, Snapshot(o)
      PROVE  task'.kind \notin {"exec", "watch"}
  <2>1. task.kind \notin {"exec", "watch"}
    BY <1>0, <1>3 DEF Snapshot, Shape, PhasesOf
  <2> QED
    BY <1>0, <1>3, <2>1 DEF Snapshot, Task
<1>4. CASE SendControl
  <2>1. task.kind \in {"exec", "watch"} /\ ~Release
    BY <1>4 DEF SendControl, Asking, Release
  <2>2. /\ task'.kind = task.kind /\ task'.client = task.client /\ task'.owners = task.owners
        /\ task'.phase = task.phase /\ task'.todo = task.todo
    BY <1>0, <1>4 DEF SendControl, Task
  <2> QED
    BY <2>1, <2>2 DEF SameTask, Vetted
<1>5. CASE ControlFailed
  <2>1. task.kind \in {"exec", "watch"} /\ task' = Failed(task) /\ ~Release
    BY <1>5 DEF ControlFailed, Asking, Release
  <2>2. task'.phase \in {"abort", "drop"} /\ SameDecision(task, task')
    BY <1>0, <2>1, FailedFacts DEF FailedMove
  <2> QED
    BY <1>0, <2>1, <2>2, SameVetted DEF Vetting
<1>6. CASE AppendDecision
  <2>1. task.phase = "append" /\ ~Release
    BY <1>6 DEF AppendDecision, Release
  <2>2. task.kind \in {"exec", "watch"}
    BY <1>0, <2>1 DEF Shape, PhasesOf, Task, Tasks
  <2>3. task'.kind = task.kind /\ task'.client = task.client /\ task'.owners = task.owners
    <3>1. PICK p : task' \in {Application([task EXCEPT !.position = p]), Complete(task, "limit"), Failed(task)}
      BY <1>6 DEF AppendDecision
    <3>2. CASE task' = Application([task EXCEPT !.position = p])
      BY <1>0, <3>2 DEF Task, Application, Enter
    <3>3. CASE task' = Complete(task, "limit")
      BY <1>0, <3>3 DEF Task, Complete, Enter
    <3>4. CASE task' = Failed(task)
      BY <1>0, <3>4 DEF Task, Failed, Complete, Enter
    <3> QED
      BY <3>1, <3>2, <3>3, <3>4
  <2>4. task'.phase \in {"apply", "applywatch", "drop"}
    BY <1>0, <1>6, <2>1 DEF AppendDecision, Task, Application, Enter, Complete, Failed
  <2> QED
    BY <2>1, <2>2, <2>3, <2>4 DEF SameTask, Vetted, Vetting
<1>7. CASE DropPublication
  <2>1. /\ task'.kind = task.kind /\ task'.client = task.client /\ task'.owners = task.owners
        /\ task'.phase = "release" /\ ~Release
    BY <1>0, <1>7 DEF DropPublication, Task, Release
  <2> QED
    BY <2>1 DEF SameTask, Vetted, Vetting
<1>8. CASE FreezeEnd
  <2>1. task'.kind = task.kind /\ task.kind \notin {"exec", "watch"}
    BY <1>0, <1>8 DEF FreezeEnd, Task, Shape, PhasesOf
  <2> QED
    BY <2>1
<1>9. CASE Release
  BY <1>9 DEF Release, NoTask
<1>10. CASE FreezeBegin
  BY <1>10 DEF FreezeBegin, NoTask
<1> QED
  BY <1>1, <1>2, <1>3, <1>4, <1>5, <1>6, <1>7, <1>8, <1>9, <1>10, StepCases DEF Quiet, Dies

\* While EXEC or WATCH goes on, its connection waits.
LEMMA HolderKeeps ==
    ASSUME CoordinatorInv, JobsInPlace, ConnectionInv, Next, task.kind \in {"exec", "watch"}, ~Release
    PROVE  /\ cl'[task.client].pc = "task"
           /\ task.kind = "exec" => KeepsTokens(task.client)
<1> DEFINE h == task.client
<1>0. Holder /\ Places /\ h \in Client /\ cl[h].pc = "task"
  BY DEF ConnectionInv, Holder
<1> HIDE DEF h
<1>1. ASSUME Keeps(h)
      PROVE  cl'[h].pc = "task" /\ KeepsTokens(h)
  BY <1>0, <1>1 DEF Keeps
<1>2. ASSUME NEW c \in Client, OthersKeep(c), Continues(c) \/ GivesUp(c)
      PROVE  Keeps(h)
  <2>1. CASE c = h
    BY <1>0, <1>2, <2>1 DEF Continues, GivesUp, Start, Acquires, Enqueue
  <2>2. CASE c # h
    BY <1>0, <1>2, <2>2 DEF OthersKeep
  <2> QED
    BY <2>1, <2>2
<1>3. ASSUME NEW o \in Owner, NEW c \in Client, WaitsAt(c, o), OthersKeep(c)
      PROVE  Keeps(h)
  BY <1>0, <1>3, WaitsIs DEF OthersKeep
<1>4. ASSUME NEW o \in Owner, Serve(o)
      PROVE  Keeps(h)
  <2> DEFINE c == Head(requests[o])
  <2>1. c \in Client /\ OthersKeep(c) /\ requests[o] # <<>> /\ requests[o] \in Seq(Client)
    BY <1>4, ServeKeeps DEF CoordinatorInv, TypeOK
  <2>2. c = requests[o][1] /\ 1 \in DOMAIN requests[o]
    BY SMTT(30), <2>1
  <2>3. WaitsAt(c, o)
    BY <1>0, <2>2 DEF Places, PlacesAt
  <2> QED
    BY <1>3, <2>1, <2>3
<1>5. ASSUME NEW o \in Owner, Expire(o)
      PROVE  Keeps(h)
  BY <1>0, <1>5, AllKeep DEF Expire, store, clients
<1>6. ASSUME NEW o \in Owner, Ends(o)
      PROVE  Keeps(h)
  <2>1. CASE \A c \in Client : Keeps(c)
    BY <1>0, <2>1
  <2>2. CASE worker[o].job.client \in Client /\ OthersKeep(worker[o].job.client)
    <3>1. WaitsAt(worker[o].job.client, o)
      BY <1>0, <2>2, ClientAssumption DEF Places, PlacesAt
    <3> QED
      BY <1>3, <2>2, <3>1
  <2> QED
    BY <1>6, <2>1, <2>2 DEF Ends
<1>7. ASSUME NEW o \in Owner, Falls(o)
      PROVE  Keeps(h)
  BY <1>0, <1>7 DEF Falls
<1>8. ASSUME NEW o \in Owner, Gives(o)
      PROVE  cl'[h].pc = "task" /\ task.kind # "exec"
  BY <1>0, <1>8 DEF Gives
<1>9. ASSUME Rests
      PROVE  Keeps(h)
  BY <1>0, <1>9 DEF Rests
<1> QED
  BY <1>0, <1>1, <1>2, <1>4, <1>5, <1>6, <1>7, <1>8, <1>9, ConnectionCases DEF h

LEMMA HolderStep ==
    ASSUME CoordinatorInv, JobsInPlace, ConnectionInv, Next
    PROVE  Holder'
<1>1. SUFFICES ASSUME task'.kind \in {"exec", "watch"}
               PROVE  /\ task'.client \in Client /\ cl'[task'.client].pc = "task"
                      /\ task'.kind = "exec" => Watched(task.client)' \subseteq task'.owners
  BY DEF Holder
<1>2. ASSUME NEW c \in Client, Acquires(c)
      PROVE  /\ task'.client = c /\ cl'[c].pc = "task"
             /\ task'.kind = "exec" => Watched(c)' \subseteq task'.owners
  <2>1. task'.client = c /\ task'.kind = cl[c].kind /\ task'.owners = Participants(c)
    BY <1>2, AcquiresFacts
  <2>2. cl'[c].pc = "task" /\ UNCHANGED tokens
    <3>1. cl' = [cl EXCEPT ![c].pc = "task"] /\ UNCHANGED tokens /\ TypeOK
      BY <1>2 DEF Acquires, CoordinatorInv
    <3>2. PcOnly(c, "task")
      BY <3>1, PcFields
    <3> QED
      BY <3>1, <3>2 DEF PcOnly
  <2>3. Watched(c)' = Watched(c)
    BY <2>2 DEF Watched
  <2>4. cl[c].kind = "exec" => Watched(c) \subseteq Participants(c)
    BY ParticipantsFacts DEF CoordinatorInv
  <2> QED
    BY <2>1, <2>2, <2>3, <2>4
<1>3. ASSUME NEW c \in Client, Acquires(c)
      PROVE  task'.kind = "exec" => Watched(task.client)' \subseteq task'.owners
  BY <1>2, <1>3 DEF Watched
<1>4. CASE SameTask
  <2>1. /\ task.kind \in {"exec", "watch"} /\ ~Release
        /\ task'.kind = task.kind /\ task'.client = task.client /\ task'.owners = task.owners
    BY <1>4 DEF SameTask
  <2>2. task.client \in Client /\ (task.kind = "exec" => Watched(task.client) \subseteq task.owners)
    BY <2>1 DEF ConnectionInv, Holder
  <2>3. cl'[task.client].pc = "task" /\ (task.kind = "exec" => KeepsTokens(task.client))
    BY <2>1, HolderKeeps
  <2>4. task.kind = "exec" => {o \in Owner : tokens'[task.client][o] # "none"} = Watched(task.client)
    BY <2>3 DEF Watched, KeepsTokens, Told
  <2>5. task.kind = "exec" => Watched(task.client)' \subseteq task'.owners
    BY <2>1, <2>2, <2>4 DEF Watched
  <2> QED
    BY <2>1, <2>2, <2>3, <2>5
<1> QED
  BY <1>1, <1>2, <1>3, <1>4, TaskHands

-----------------------------------------------------------------------------

LEMMA GenerationCases ==
    ASSUME CoordinatorInv, Next, NEW o \in Owner, generation'[o] # generation[o]
    PROVE  \/ worker[o].pc = "apply" /\ worker'[o].job = NoJob
           \/ Selecting(o) /\ ctl[o].phase \in {"apply", "applywatch"} /\ ctl[o].prepared.mutates
<1>0. generation \in [Owner -> Nat] /\ worker \in [Owner -> Worker] /\ TypeOK
  BY DEF CoordinatorInv, TypeOK
<1>1. ~UNCHANGED generation
  OBVIOUS
<1>2. ~Idles /\ ~AppendDecision /\ \A p \in Owner : ~Persist(p)
  BY <1>1 DEF Idles, AppendDecision, Persist, store
<1>3. PICK p \in Owner : ApplyPersisted(p) \/ Apply(p) \/ ApplyWatch(p)
  BY <1>0, <1>2, StoreCases
<1>4. ASSUME NEW n, ApplyChange(p, n)
      PROVE  p = o
  BY <1>0, <1>4 DEF ApplyChange
<1>5. CASE ApplyPersisted(p)
  <2>1. /\ worker[p].pc = "apply" /\ ApplyChange(p, worker[p].job.position)
        /\ worker' = [worker EXCEPT ![p] = [pc |-> "select", job |-> NoJob]]
    BY <1>1, <1>5 DEF ApplyPersisted, store
  <2>2. p = o
    BY <1>4, <2>1
  <2> QED
    BY <1>0, <2>1, <2>2
<1>6. CASE Apply(p) \/ ApplyWatch(p)
  <2>1. /\ Selecting(p) /\ ctl[p].phase \in {"apply", "applywatch"}
        /\ UNCHANGED store \/ ApplyControl(p)
    BY <1>6, ApplyOutcome
  <2>2. ctl[p].prepared.mutates /\ ApplyChange(p, ctl[p].position)
    BY <1>1, <2>1 DEF ApplyControl, store
  <2>3. p = o
    BY <1>4, <2>2
  <2> QED
    BY <2>1, <2>2, <2>3
<1> QED
  BY <1>3, <1>5, <1>6

\* Nothing changes between the check of the watches and the decision.
LEMMA VettedStay ==
    ASSUME CoordinatorInv, BarrierInv, Visible, Next, task.kind = "exec",
           task.phase \in Vetting \cup {"check"}, NEW o \in Owner
    PROVE  generation'[o] = generation[o]
<1>1. SUFFICES ASSUME generation'[o] # generation[o]
               PROVE  FALSE
  OBVIOUS
<1>2. CASE worker[o].pc = "apply"
  <2>1. worker[o].job = NoJob
    BY DEF BarrierInv, Guarded, Held, NoReaders
  <2> QED
    BY SMTT(30), <1>2, <2>1 DEF BarrierInv, JobsInPlace, NoJob
<1>3. CASE ctl[o].phase \in {"apply", "applywatch"} /\ ctl[o].prepared.mutates
  <2>1. CASE ctl[o].wanted
    <3>1. task.phase \in {"apply", "applywatch"}
      BY <1>3, <2>1, Wanted
    <3> QED
      BY <3>1 DEF Vetting
  <2>2. CASE ~ctl[o].wanted
    <3>1. ~Clear
      BY <1>3, <2>2 DEF Abandoned, Visible
    <3>2. task.phase \notin {"release", "drop"}
      BY DEF Vetting
    <3> QED
      BY <3>1, <3>2 DEF Clear, Broken, BarrierInv, OpenWhileHeld
  <2> QED
    BY <2>1, <2>2
<1> QED
  BY <1>1, <1>2, <1>3, GenerationCases

LEMMA AllFresh ==
    ASSUME CoordinatorInv, JobsInPlace, ConnectionInv, Next, NEW c \in Client
    PROVE  Fresh(c)
<1>0. Holder
  BY DEF ConnectionInv
<1>1. ASSUME Keeps(c)
      PROVE  Fresh(c)
  BY <1>1, KeepsFresh DEF Keeps
<1>2. ASSUME NEW d \in Client, OthersKeep(d), Leaves(d) \/ Continues(d) \/ GivesUp(d)
      PROVE  Fresh(c)
  <2>1. CASE c = d
    BY <1>2, <2>1, KeepsFresh DEF Leaves, Continues, GivesUp
  <2>2. CASE c # d
    BY <1>1, <1>2, <2>2 DEF OthersKeep
  <2> QED
    BY <2>1, <2>2
<1>3. ASSUME NEW o \in Owner, Serve(o)
      PROVE  Fresh(c)
  <2> DEFINE d == Head(requests[o])
  <2>1. d \in Client /\ OthersKeep(d) /\ (Leaves(d) \/ Keeps(d))
    BY <1>3, ServeKeeps
  <2> QED
    BY <1>1, <1>2, <2>1 DEF OthersKeep
<1>4. ASSUME NEW o \in Owner, Expire(o)
      PROVE  Fresh(c)
  <2>1. Keeps(c)
    BY <1>4, AllKeep DEF Expire, store, clients
  <2> QED
    BY <1>1, <2>1
<1>5. ASSUME NEW o \in Owner, Ends(o)
      PROVE  Fresh(c)
  BY <1>1, <1>2, <1>5 DEF Ends
<1>6. ASSUME NEW o \in Owner, Falls(o)
      PROVE  Fresh(c)
  BY <1>1, <1>6 DEF Falls
<1>7. ASSUME NEW o \in Owner, Gives(o)
      PROVE  Fresh(c)
  BY <1>0, <1>1, <1>7 DEF Gives, OthersKeep, Holder
<1>8. ASSUME Release, task.kind # "freeze"
      PROVE  Fresh(c)
  BY <1>0, <1>2, <1>8, ReleaseKeeps
<1>9. ASSUME Rests
      PROVE  Fresh(c)
  BY <1>1, <1>9 DEF Rests
<1> QED
  BY <1>0, <1>2, <1>3, <1>4, <1>5, <1>6, <1>7, <1>8, <1>9, ConnectionCases

LEMMA LiveStep ==
    ASSUME CoordinatorInv, JobsInPlace, ConnectionInv, Live, Next
    PROVE  Live'
<1>1. ASSUME NEW c \in Client, NEW o \in Owner, tokens'[c][o] = "live"
      PROVE  generation'[o] = seen'[c][o]
  <2>1. Fresh(c)
    BY AllFresh
  <2> QED
    BY <1>1, <2>1 DEF Fresh, Live
<1> QED
  BY <1>1 DEF Live

LEMMA VettedStep ==
    ASSUME CoordinatorInv, BarrierInv, Visible, ConnectionInv, Accepted, Next, NEW o \in Vetted(task')
    PROVE  tokens'[task'.client][o] # "changed"
<1>0. task \in Task /\ Shape(task) /\ JobsInPlace /\ task' \in Task
  BY CoordinatorInvStep DEF CoordinatorInv, TypeOK, BarrierInv
<1>1. task'.kind = "exec" /\ task'.phase \in Vetting \cup {"check"} /\ o \in Owner
  BY <1>0 DEF Vetted, Task
<1>2. ASSUME NEW c \in Client, Acquires(c)
      PROVE  FALSE
  <2>1. task'.phase \in {"probe", "prepare"}
    BY <1>2, AcquiresFacts
  <2> QED
    BY <1>1, <2>1 DEF Vetting
<1>3. SameTask
  BY <1>1, <1>2, TaskHands
<1>4. /\ task.kind = "exec" /\ ~Release /\ task'.client = task.client
      /\ o \in Vetted(task) \/ (task.phase = "check" /\ tokens[task.client][o] # "changed")
  BY <1>1, <1>3 DEF SameTask
<1>5. tokens[task.client][o] # "changed" /\ KeepsTokens(task.client)
  BY <1>0, <1>4, HolderKeeps DEF Accepted
<1>6. CASE generation'[o] = generation[o]
  BY <1>1, <1>4, <1>5, <1>6 DEF KeepsTokens
<1>7. CASE task.phase \in Vetting \cup {"check"}
  BY <1>1, <1>4, <1>6, <1>7, VettedStay
<1>8. CASE o \in Vetted(task)
  BY <1>7, <1>8 DEF Vetted
<1> QED
  BY <1>4, <1>6, <1>7, <1>8

\* The job of an owner that serves EXEC.
LEMMA JobStep ==
    ASSUME CoordinatorInv, BarrierInv, ConnectionInv, Accepted, Next, NEW o \in Owner,
           worker'[o].job.kind = "exec"
    PROVE  tokens'[worker'[o].job.client][o] # "changed"
<1>0. /\ JobsInPlace /\ Places /\ Holder /\ PlacesAt(o)
      /\ worker \in [Owner -> Worker] /\ requests \in [Owner -> Seq(Client)]
      /\ worker[o].job.client \in Client \cup {NoClient}
  BY DEF BarrierInv, ConnectionInv, Places, CoordinatorInv, TypeOK, Worker, Job, Someone
<1> DEFINE d == worker[o].job.client
<1> HIDE DEF d
\* The job is the same, and its connection waits.
<1>1. ASSUME worker[o].job.kind = "exec"
      PROVE  d \in Client /\ WaitsAt(d, o) /\ worker[o].job # NoJob /\ worker[o].pc \notin Dead
  BY SMTT(30), <1>0, <1>1 DEF JobsInPlace, PlacesAt, NoJob, d, Dead
<1>2. ASSUME worker'[o].job.client = worker[o].job.client, worker[o].job.kind = "exec",
             KeepsTokens(d)
      PROVE  tokens'[worker'[o].job.client][o] # "changed"
  <2>1. generation'[o] = generation[o]
    <3>1. worker[o].job # NoJob
      BY <1>1, <1>2
    <3>2. ~Selecting(o)
      BY <1>0, <3>1 DEF Selecting, JobsInPlace
    <3>3. worker'[o].job # NoJob
      BY SMTT(30) DEF NoJob
    <3> QED
      BY <3>2, <3>3, GenerationCases
  <2>2. tokens[d][o] # "changed"
    BY <1>2 DEF Accepted, d
  <2> QED
    BY <1>2, <2>1, <2>2 DEF KeepsTokens, d
<1>3. ASSUME worker'[o].job = worker[o].job, Keeps(d) \/ KeepsTokens(d)
      PROVE  tokens'[worker'[o].job.client][o] # "changed"
  BY <1>2, <1>3 DEF Keeps
<1>4. ASSUME worker'[o].job = worker[o].job
      PROVE  d \in Client /\ WaitsAt(d, o) /\ worker[o].pc \notin Dead /\ cl[d].pc = "sent"
             /\ Participants(d) = {o}
  BY <1>1, <1>4, WaitsIs
<1>5. ASSUME NEW c \in Client, OthersKeep(c), Continues(c) \/ GivesUp(c)
      PROVE  tokens'[worker'[o].job.client][o] # "changed"
  <2>1. UNCHANGED worker
    BY <1>5 DEF Continues, GivesUp, Start, Enqueue, Acquires
  <2>2. CASE c # d
    BY <1>3, <1>4, <1>5, <2>1, <2>2 DEF OthersKeep
  <2>3. CASE c = d
    <3>1. ~GivesUp(c)
      BY <1>4, <2>1, <2>3 DEF GivesUp
    <3>2. KeepsTokens(d)
      BY <1>5, <2>3, <3>1 DEF Continues
    <3> QED
      BY <1>3, <2>1, <3>2
  <2> QED
    BY <2>2, <2>3
<1>6. ASSUME NEW p \in Owner, Serve(p)
      PROVE  tokens'[worker'[o].job.client][o] # "changed"
  <2> DEFINE c == Head(requests[p])
             new == [pc |-> "append", job |-> [kind |-> cl[c].kind, client |-> c,
                                               generation |-> generation[p], position |-> 0]]
  <2>1. /\ c \in Client /\ OthersKeep(c) /\ requests[p] # <<>>
        /\ \/ UNCHANGED worker
           \/ /\ Keeps(c) /\ ~(cl[c].kind = "exec" /\ tokens[c][p] = "changed")
              /\ worker' = [worker EXCEPT ![p] = new]
    BY <1>6, ServeKeeps
  <2>2. UNCHANGED generation
    BY <1>6 DEF Serve, store
  <2>3. c = requests[p][1] /\ 1 \in DOMAIN requests[p]
    BY SMTT(30), <1>0, <2>1
  <2>4. WaitsAt(c, p) /\ c # worker[p].job.client
    BY SMTT(30), <1>0, <2>3 DEF Places, PlacesAt
  <2>5. CASE UNCHANGED worker \/ p # o
    <3>1. worker'[o] = worker[o]
      BY <1>0, <2>1, <2>5
    <3>2. d \in Client /\ WaitsAt(d, o)
      BY <1>4, <3>1
    <3>3. d # c
      <4>1. CASE p = o
        BY <2>4, <4>1 DEF d
      <4>2. CASE p # o
        <5> HIDE DEF c
        <5> QED
          BY <2>4, <3>2, <4>2, WaitsOnce
      <4> QED
        BY <4>1, <4>2
    <3> QED
      BY <1>3, <2>1, <3>1, <3>2, <3>3 DEF OthersKeep
  <2>6. CASE p = o /\ Keeps(c) /\ ~(cl[c].kind = "exec" /\ tokens[c][p] = "changed")
                /\ worker' = [worker EXCEPT ![p] = new]
    <3>1. worker'[o].job.client = c /\ worker'[o].job.kind = cl[c].kind
      BY <1>0, <2>6
    <3>2. tokens[c][o] # "changed"
      BY <2>6, <3>1
    <3>3. tokens'[c][o] = tokens[c][o]
      BY <2>2, <2>6 DEF Keeps, KeepsTokens
    <3> QED
      BY <3>1, <3>2, <3>3
  <2> QED
    BY <2>1, <2>5, <2>6
<1>7. ASSUME NEW p \in Owner, Expire(p)
      PROVE  tokens'[worker'[o].job.client][o] # "changed"
  <2>1. /\ UNCHANGED <<cl, tokens, seen, generation>>
        /\ worker' = [worker EXCEPT ![p] =
                    [pc |-> "append",
                     job |-> [kind |-> "expire", client |-> NoClient,
                              generation |-> generation[p], position |-> 0]]]
    BY <1>7 DEF Expire, store, clients
  <2>2. worker'[o] = worker[o]
    BY <1>0, <2>1
  <2> QED
    BY <2>1, <2>2 DEF Accepted
<1>8. ASSUME NEW p \in Owner, Ends(p)
      PROVE  tokens'[worker'[o].job.client][o] # "changed"
  <2>1. p # o
    BY SMTT(30), <1>8 DEF Ends, NoJob
  <2>2. worker'[o] = worker[o]
    BY <1>8, <2>1 DEF Ends
  <2>3. d \in Client /\ WaitsAt(d, o)
    BY <1>4, <2>2
  <2>4. CASE \A c \in Client : Keeps(c)
    BY <1>3, <2>2, <2>3, <2>4
  <2>5. CASE worker[p].job.client \in Client /\ OthersKeep(worker[p].job.client)
    <3>1. WaitsAt(worker[p].job.client, p)
      BY <1>0, <2>5, ClientAssumption DEF Places, PlacesAt
    <3>2. d # worker[p].job.client
      BY <2>1, <2>3, <3>1, WaitsOnce
    <3> QED
      BY <1>3, <2>2, <2>3, <2>5, <3>2 DEF OthersKeep
  <2> QED
    BY <1>8, <2>4, <2>5 DEF Ends
<1>9. ASSUME NEW p \in Owner, Falls(p)
      PROVE  tokens'[worker'[o].job.client][o] # "changed"
  <2>1. p # o
    BY SMTT(30), <1>9 DEF Falls, NoJob
  <2>2. worker'[o] = worker[o]
    BY <1>9, <2>1 DEF Falls
  <2> QED
    BY <1>3, <1>4, <1>9, <2>2 DEF Falls
<1>10. ASSUME UNCHANGED worker, task.kind \in {"exec", "watch"}, OthersKeep(task.client)
       PROVE  tokens'[worker'[o].job.client][o] # "changed"
  <2>1. d \in Client /\ d # task.client
    BY <1>0, <1>4, <1>10 DEF Holder
  <2> QED
    BY <1>3, <1>10, <2>1 DEF OthersKeep
<1>11. ASSUME Rests
       PROVE  tokens'[worker'[o].job.client][o] # "changed"
  <2>1. worker'[o].job.client = worker[o].job.client /\ worker[o].job.kind = "exec"
    BY <1>11 DEF Rests
  <2> QED
    BY <1>1, <1>2, <1>11, <2>1 DEF Rests, Keeps
<1>12. Release /\ task.kind # "freeze" => task.kind \in {"exec", "watch"}
  BY DEF Release, CoordinatorInv, TypeOK, Shape, PhasesOf, Task, Tasks
<1> QED
  BY <1>0, <1>5, <1>6, <1>7, <1>8, <1>9, <1>10, <1>11, <1>12, ConnectionCases DEF Gives

LEMMA AcceptedStep ==
    ASSUME CoordinatorInv, BarrierInv, Visible, ConnectionInv, Accepted, Next
    PROVE  Accepted'
<1>1. \A o \in Vetted(task') : tokens'[task'.client][o] # "changed"
  BY VettedStep
<1>2. \A o \in Owner : worker'[o].job.kind = "exec" => tokens'[worker'[o].job.client][o] # "changed"
  BY JobStep
<1> QED
  BY <1>1, <1>2 DEF Accepted, Vetted

LEMMA ConnectionStep ==
    ASSUME CoordinatorInv, BarrierInv, ConnectionInv, Next
    PROVE  ConnectionInv'
BY PlacesStep, SingleStep, HolderStep DEF ConnectionInv, BarrierInv

LEMMA WatchInit == Init => ConnectionInv /\ Live /\ Accepted
<1> SUFFICES ASSUME Init
             PROVE  ConnectionInv /\ Live /\ Accepted
  OBVIOUS
<1>1. task.kind = "none" /\ \A o \in Owner : requests[o] = <<>> /\ worker[o].job = NoJob
  BY DEF Init, NoTask
<1>2. \A c \in Client : cl[c].pc = "idle" /\ \A o \in Owner : tokens[c][o] = "none"
  BY SMTT(30) DEF Init
<1>3. ConnectionInv
  BY SMTT(30), <1>1, <1>2 DEF ConnectionInv, Places, PlacesAt, Single, Holder, NoJob
<1>4. Live /\ Accepted
  BY SMTT(30), <1>1, <1>2 DEF Live, Accepted, Vetted, NoJob
<1> QED
  BY <1>3, <1>4
=============================================================================
