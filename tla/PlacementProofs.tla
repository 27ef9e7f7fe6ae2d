-------------------------- MODULE PlacementProofs --------------------------
(***************************************************************************)
(* What a rollout may leave behind, for any mesh, any runs and any delays  *)
(* and losses: a manifest runs only on nodes its run has turned to, on no  *)
(* more of them than replicas, the node that serves the API is the first   *)
(* candidate, and every message names a run and a node.                    *)
(*                                                                         *)
(* None of this is inductive alone.  An apply passes from the CLI through  *)
(* the origin's queue, the network and a node's event loop before a        *)
(* workload runs, so the invariant follows it along the whole way; and the *)
(* selection it was taken from must not change any more, which holds       *)
(* because candidates are accepted only while nothing has been sent.       *)
(***************************************************************************)
EXTENDS Placement, FiniteSetTheorems, TLAPS

\* The run has turned to the node: an apply for it was issued.
Turned(r, n) == \E i \in 1..sent[r] : Selected(r)[i] = n

Query(r) == [kind |-> "query", run |-> r, node |-> Origin[r]]

Apply(r, i) == [kind |-> "apply", run |-> r, node |-> Selected(r)[i]]

\* The control messages that the REST API of a node has ever queued.
Issued(n) ==
    {c \in {Query(r) : r \in Run} :
        Origin[c.run] = n /\ phase[c.run] # "new"}
    \cup UNION {{Apply(r, i) : i \in 1..sent[r]} : r \in {x \in Run : Origin[x] = n}}

Early == {"new", "collecting"}

Typed ==
    /\ DOMAIN control = Node /\ DOMAIN loop = Node /\ DOMAIN running = Node
    /\ phase \in [Run -> Phase]
    /\ responders \in [Run -> Seq(Node)]
    /\ sent \in [Run -> Nat]
    /\ \A msg \in net : msg.run \in Run /\ (msg.kind # "apply" => msg.node \in Node)

Counted ==
    \A r \in Run : sent[r] <= Replicas[r] /\ (phase[r] \in Early => sent[r] = 0)

Queued == \A n \in Node : control[n] \in Seq(Issued(n))

InTransit == \A msg \in net : msg.kind = "apply" => Turned(msg.run, msg.node)

InLoop == \A n \in Node : Free(n) \/ (loop[n].run \in Run /\ Turned(loop[n].run, n))

\* Before the origin's own answer nothing of a run is on its way that could
\* bring another one; after the window an answer no longer counts.
OriginAnswered ==
    \A r \in Run : Origin[r] \notin Disabled =>
        \/ /\ responders[r] = <<>>
           /\ \A msg \in net : msg.kind # "apply" => msg.run # r
        \/ responders[r] = <<>> /\ phase[r] \notin Early
        \/ responders[r] # <<>> /\ Head(responders[r]) = Origin[r]

IInv ==
    /\ Typed /\ Counted /\ Queued /\ InTransit /\ InLoop
    /\ RolloutInOrder /\ OriginAnswered

-----------------------------------------------------------------------------
(* Messages and queues *)

\* The fields of the messages between nodes.
LEMMA MessageFields ==
    ASSUME NEW r, NEW n
    PROVE  /\ CapacityRequest(r, n).kind = "capreq" /\ CapacityRequest(r, n).run = r
           /\ CapacityRequest(r, n).node = n
           /\ CapacityReply(r, n).kind = "reply" /\ CapacityReply(r, n).run = r
           /\ CapacityReply(r, n).node = n
           /\ ApplyRequest(r, n).kind = "apply" /\ ApplyRequest(r, n).run = r
           /\ ApplyRequest(r, n).node = n
BY DEF CapacityRequest, CapacityReply, ApplyRequest

\* A queue of what was issued is one of what will have been issued.
LEMMA SeqMonotone ==
    ASSUME NEW S, NEW T, S \subseteq T, NEW s \in Seq(S)
    PROVE  s \in Seq(T)
OBVIOUS

\* Queueing and taking keep a queue's elements.
LEMMA QueueType ==
    ASSUME NEW T, NEW s \in Seq(T)
    PROVE  /\ \A e \in T : Append(s, e) \in Seq(T)
           /\ s # <<>> => Head(s) \in T /\ Tail(s) \in Seq(T)
OBVIOUS

\* What the head of a queue says: a query for this node's own run, or an apply
\* for a node its run has turned to.
LEMMA HeadOfQueue ==
    ASSUME IInv, NEW n \in Node, control[n] # <<>>
    PROVE  LET c == Head(control[n])
           IN  /\ c.run \in Run /\ Origin[c.run] = n
               /\ c.kind = "query" => phase[c.run] # "new"
               /\ c.kind = "apply" => Turned(c.run, c.node)
<1> DEFINE c == Head(control[n])
<1>1. c \in Issued(n)
  BY QueueType DEF IInv, Queued
<1>2. ASSUME NEW r \in Run, c = Query(r), Origin[c.run] = n, phase[c.run] # "new"
      PROVE  c.run \in Run /\ c.kind = "query" 
  BY <1>2 DEF Query
<1>3. ASSUME NEW r \in Run, Origin[r] = n, NEW i \in 1..sent[r], c = Apply(r, i)
      PROVE  /\ c.run \in Run /\ Origin[c.run] = n /\ c.kind = "apply"
             /\ Turned(c.run, c.node)
  BY <1>3 DEF Apply, Turned
<1> HIDE DEF c
<1> QED
  BY <1>1, <1>2, <1>3 DEF Issued, c

-----------------------------------------------------------------------------
(* A run only moves forward, and its candidates are fixed once it has sent *)
(* anything                                                                 *)

\* What a step may do to a run.
Forward(r) ==
    /\ phase'[r] = "new" => phase[r] = "new"
    /\ phase'[r] \in Early => phase[r] \in Early
    /\ sent[r] <= sent'[r]
    /\ phase[r] \notin Early => responders'[r] = responders[r]

\* An answer is added to the candidates, or changes nothing.
LEMMA NotifyForm ==
    ASSUME Typed, NEW r \in Run, NEW n \in Node, Notify(r, n)
    PROVE  /\ responders' \in [Run -> Seq(Node)]
           /\ \A x \in Run : x # r => responders'[x] = responders[x]
           /\ phase[r] # "collecting" => responders' = responders
           /\ responders'[r] = responders[r] \/ responders'[r] = Append(responders[r], n)
           /\ phase[r] = "collecting" /\ responders[r] = <<>>
                => responders'[r] = Append(responders[r], n)
<1>1. responders[r] \in Seq(Node) /\ Append(responders[r], n) \in Seq(Node)
  BY QueueType DEF Typed
<1>2. CASE responders' = [responders EXCEPT ![r] = Append(@, n)] /\ phase[r] = "collecting"
  <2>1. responders'[r] = Append(responders[r], n)
    BY <1>2 DEF Typed
  <2> QED BY <1>1, <1>2, <2>1 DEF Typed
<1>3. CASE responders' = responders
           /\ ~(/\ phase[r] = "collecting"
                /\ Len(responders[r]) < MaxCandidates
                /\ \A i \in DOMAIN responders[r] : responders[r][i] # n)
  <2>1. responders[r] = <<>> => Len(responders[r]) < MaxCandidates /\ DOMAIN responders[r] = {}
    BY PlacementAssumption
  <2> QED BY <1>3, <2>1 DEF Typed
<1> QED
  BY <1>2, <1>3 DEF Notify

\* What the handlers that may accept a candidate do to the candidates.
LEMMA QueryForm ==
    ASSUME IInv, NEW n \in Node, HandleQuery(n)
    PROVE  LET r == Head(control[n]).run
           IN  /\ r \in Run /\ Origin[r] = n /\ phase[r] # "new"
               /\ net' = net \cup broadcast_signed_request_to_peers(r, n)
               /\ IF n \in Disabled THEN responders' = responders ELSE Notify(r, n)
BY HeadOfQueue DEF HandleQuery, is_scheduling_disabled_for

\* A loop that answers its own query is added to the responders of that run only.
LEMMA QueryAnswer ==
    ASSUME IInv, NEW n \in Node, HandleQuery(n), NEW r \in Run
    PROVE  \/ responders'[r] = responders[r]
           \/ r = Head(control[n]).run /\ responders'[r] = Append(responders[r], n)
<1> DEFINE q == Head(control[n]).run
<1>1. q \in Run /\ (responders' = responders \/ Notify(q, n))
  BY QueryForm, Zenon
<1>2. Typed
  BY Zenon DEF IInv
<1> HIDE DEF q
<1>3. CASE Notify(q, n)
  <2>1. /\ r # q => responders'[r] = responders[r]
        /\ responders'[q] = responders[q] \/ responders'[q] = Append(responders[q], n)
    BY <1>1, <1>2, <1>3, NotifyForm, Zenon
  <2> QED BY <2>1, Zenon DEF q
<1> QED BY <1>1, <1>3, Zenon

\* Every step of every process moves every run forward.
LEMMA ForwardStep ==
    ASSUME IInv, [Next]_vars, NEW r \in Run
    PROVE  Forward(r)
<1>0. Typed /\ sent[r] \in Nat
  BY DEF IInv, Typed
<1>1. ASSUME UNCHANGED <<phase, sent, responders>> PROVE Forward(r)
  BY <1>0, <1>1 DEF Forward
<1>2. ASSUME NEW x \in Run, Start(x) \/ RunStep(x) PROVE Forward(r)
  <2>1. UNCHANGED responders
    BY <1>2 DEF Start, RunStep, CloseWindow, SendApply, Complete, ApplyTimedOut
  <2>2. phase'[r] = phase[r] \/ (phase'[r] \notin Early \/ (phase[r] = "new" /\ phase'[r] # "new"))
    <3>1. CASE Start(x)
      BY <1>0, <3>1 DEF Start, Typed, Early
    <3>2. CASE CloseWindow(x)
      BY <1>0, <3>2 DEF CloseWindow, Typed, Early
    <3>3. CASE SendApply(x) \/ Complete(x) \/ ApplyTimedOut(x)
      BY <1>0, <3>3 DEF SendApply, Complete, ApplyTimedOut, Typed, Early
    <3> QED BY <1>2, <3>1, <3>2, <3>3 DEF RunStep
  <2>3. sent[r] <= sent'[r]
    <3>1. CASE SendApply(x)
      <4>1. sent' = [sent EXCEPT ![x] = @ + 1]
        BY <3>1 DEF SendApply
      <4> QED BY <1>0, <4>1 DEF Typed
    <3>2. CASE UNCHANGED sent
      BY <1>0, <3>2
    <3> QED BY <1>2, <3>1, <3>2 DEF Start, RunStep, CloseWindow, Complete, ApplyTimedOut
  <2> QED BY <2>1, <2>2, <2>3 DEF Forward, Early
<1>3. ASSUME NEW n \in Node, HandleQuery(n) PROVE Forward(r)
  <2>1. UNCHANGED <<phase, sent>>
    BY <1>3 DEF HandleQuery
  <2>2. phase[r] # "collecting" => responders'[r] = responders[r]
    BY <1>0, <1>3, QueryForm, NotifyForm
  <2> QED BY <1>0, <2>1, <2>2 DEF Forward, Early
<1>4. ASSUME NEW n \in Node, HandleSendApply(n) \/ FinishDeployment(n) PROVE Forward(r)
  <2>1. UNCHANGED <<sent, responders>>
    BY <1>4 DEF HandleSendApply, FinishDeployment
  <2>2. phase'[r] = phase[r] \/ (phase[r] = "awaiting" /\ phase'[r] = "next")
    BY <1>0, <1>4 DEF HandleSendApply, FinishDeployment, Typed
  <2> QED BY <1>0, <2>1, <2>2 DEF Forward, Early
<1>5. ASSUME NEW msg \in net, HandleReply(msg) PROVE Forward(r)
  <2>1. UNCHANGED <<phase, sent>> /\ msg.run \in Run /\ msg.node \in Node /\ Notify(msg.run, msg.node)
    BY <1>0, <1>5 DEF HandleReply, Typed
  <2>2. phase[r] # "collecting" => responders'[r] = responders[r]
    BY <1>0, <2>1, NotifyForm
  <2> QED BY <1>0, <2>1, <2>2 DEF Forward, Early
<1>6. ASSUME NEW msg \in net, HandleCapacityRequest(msg) \/ HandleApply(msg) \/ Lose(msg)
      PROVE  Forward(r)
  BY <1>1, <1>6 DEF HandleCapacityRequest, HandleApply, Lose
<1>7. CASE Tick \/ UNCHANGED vars
  BY <1>1, <1>7 DEF Tick, vars
<1>8. ASSUME NEW n \in Node, FailQuery(n) PROVE Forward(r)
  BY <1>1, <1>8 DEF FailQuery
<1> QED
  BY <1>2, <1>3, <1>4, <1>5, <1>6, <1>7, <1>8 DEF Next, LoopStep

\* A run that has turned to a node has turned to it for good, and what was
\* issued stays issued.
LEMMA TurnedKept ==
    ASSUME IInv, NEW r \in Run, Forward(r), sent'[r] \in Nat
    PROVE  /\ \A i \in 1..sent[r] : i \in 1..sent'[r] /\ Selected(r)'[i] = Selected(r)[i]
           /\ \A n : Turned(r, n) => Turned(r, n)'
<1>1. sent[r] \in Nat /\ sent[r] <= sent'[r]
  BY DEF IInv, Typed, Forward
<1>2. ASSUME sent[r] # 0 PROVE Selected(r)' = Selected(r)
  <2>1. responders'[r] = responders[r]
    BY <1>2 DEF IInv, Counted, Forward
  <2> QED BY <2>1 DEF Selected, get_candidates, CandidatesResponse
<1>3. ASSUME NEW i \in 1..sent[r]
      PROVE  i \in 1..sent'[r] /\ Selected(r)'[i] = Selected(r)[i]
  BY <1>1, <1>2
<1> QED
  BY <1>3 DEF Turned

-----------------------------------------------------------------------------
(* Every step keeps every part of the invariant *)

\* What a step puts on the network: bids and replies of runs between nodes, and
\* what a node's loop forwards of the applies queued for it.
LEMMA NetForm ==
    ASSUME IInv, [Next]_vars, NEW msg \in net'
    PROVE  \/ msg \in net
           \/ /\ msg.kind # "apply" /\ msg.run \in Run /\ msg.node \in Node
              /\ \/ \E n \in Node : HandleQuery(n) /\ msg.run = Head(control[n]).run
                 \/ \E old \in net : old.kind # "apply" /\ old.run = msg.run
           \/ msg.kind = "apply" /\ msg.run \in Run /\ Turned(msg.run, msg.node)
<1> DEFINE Goal ==
           \/ msg \in net
           \/ /\ msg.kind # "apply" /\ msg.run \in Run /\ msg.node \in Node
              /\ \/ \E n \in Node : HandleQuery(n) /\ msg.run = Head(control[n]).run
                 \/ \E old \in net : old.kind # "apply" /\ old.run = msg.run
           \/ msg.kind = "apply" /\ msg.run \in Run /\ Turned(msg.run, msg.node)
<1>1. CASE UNCHANGED net
  BY <1>1
<1>2. ASSUME NEW n \in Node, HandleQuery(n) PROVE Goal
  <2>1. Head(control[n]).run \in Run
        /\ net' = net \cup broadcast_signed_request_to_peers(Head(control[n]).run, n)
    BY <1>2, QueryForm
  <2>2. ASSUME msg \notin net
        PROVE  \E p \in Node : msg = CapacityRequest(Head(control[n]).run, p)
    BY <2>1, <2>2 DEF broadcast_signed_request_to_peers
  <2> QED BY <1>2, <2>1, <2>2, MessageFields
<1>3. ASSUME NEW n \in Node, HandleSendApply(n) PROVE Goal
  <2>1. CASE UNCHANGED net
    BY <2>1
  <2>2. CASE net' = net \cup {ApplyRequest(Head(control[n]).run, Head(control[n]).node)}
    <3>1. /\ Head(control[n]).run \in Run
          /\ Turned(Head(control[n]).run, Head(control[n]).node)
      BY <1>3, HeadOfQueue DEF HandleSendApply
    <3> QED BY <2>2, <3>1, MessageFields
  <2> QED BY <1>3, <2>1, <2>2 DEF HandleSendApply
<1>4. ASSUME NEW old \in net, HandleCapacityRequest(old) PROVE Goal
  <2>1. old.kind = "capreq" /\ old.run \in Run /\ old.node \in Node
    BY <1>4 DEF HandleCapacityRequest, IInv, Typed
  <2>2. msg \in net \/ msg = CapacityReply(old.run, old.node)
    BY <1>4 DEF HandleCapacityRequest
  <2> QED BY <2>1, <2>2, MessageFields
<1>5. ASSUME NEW old \in net, HandleReply(old) \/ HandleApply(old) \/ Lose(old) PROVE Goal
  BY <1>5, Zenon DEF HandleReply, HandleApply, Lose, Receive
<1>6. ASSUME NEW r \in Run, Start(r) \/ RunStep(r) PROVE UNCHANGED net
  BY <1>6, Zenon DEF Start, RunStep, CloseWindow, SendApply, Complete, ApplyTimedOut
<1>7. ASSUME NEW n \in Node, FinishDeployment(n) \/ FailQuery(n) PROVE UNCHANGED net
  BY <1>7, Zenon DEF FinishDeployment, FailQuery
<1>8. ASSUME Tick \/ UNCHANGED vars PROVE UNCHANGED net
  BY <1>8, Zenon DEF Tick, vars
<1> HIDE DEF Goal
<1>9. Goal
  BY <1>1, <1>2, <1>3, <1>4, <1>5, <1>6, <1>7, <1>8 DEF Next, LoopStep, Goal
<1> QED
  BY <1>9 DEF Goal

\* Steps keep the types that the argument needs.
LEMMA TypedStep ==
    ASSUME IInv, [Next]_vars
    PROVE  Typed'
<1>0. Typed
  BY DEF IInv
<1>1. \A msg \in net' : msg.run \in Run /\ (msg.kind # "apply" => msg.node \in Node)
  BY <1>0, NetForm, Zenon DEF Typed
<1>2. responders' \in [Run -> Seq(Node)]
  <2>1. CASE UNCHANGED responders
    BY <1>0, <2>1 DEF Typed
  <2>2. ASSUME NEW n \in Node, HandleQuery(n) PROVE responders' \in [Run -> Seq(Node)]
    BY <1>0, <2>1, <2>2, QueryForm, NotifyForm
  <2>3. ASSUME NEW msg \in net, HandleReply(msg) PROVE responders' \in [Run -> Seq(Node)]
    BY <1>0, <2>3, NotifyForm, Zenon DEF HandleReply, Typed
  <2> QED
    BY <2>1, <2>2, <2>3, Zenon
       DEF Next, LoopStep, FailQuery, Start, RunStep, CloseWindow, SendApply, Complete, ApplyTimedOut,
           HandleSendApply, HandleCapacityRequest, HandleApply, FinishDeployment, Lose, Tick, vars
<1>3. sent' \in [Run -> Nat]
  <2>1. CASE UNCHANGED sent
    BY <1>0, <2>1 DEF Typed
  <2>2. ASSUME NEW r \in Run, SendApply(r) PROVE sent' \in [Run -> Nat]
    <3>1. sent' = [sent EXCEPT ![r] = @ + 1]
      BY <2>2 DEF SendApply
    <3> QED BY <1>0, <3>1 DEF Typed
  <2> QED
    BY <2>1, <2>2, Zenon
       DEF Next, LoopStep, FailQuery, Start, RunStep, CloseWindow, Complete, ApplyTimedOut, HandleQuery,
           HandleSendApply, HandleReply, HandleCapacityRequest, HandleApply, FinishDeployment,
           Lose, Tick, vars
<1>4. phase' \in [Run -> Phase]
  <2>1. \/ UNCHANGED phase
        \/ \E r, p : p \in Phase /\ phase' = [phase EXCEPT ![r] = p]
    <3>1. ASSUME NEW r \in Run, Start(r) \/ RunStep(r)
          PROVE  \E x, p : p \in Phase /\ phase' = [phase EXCEPT ![x] = p]
      BY <3>1, Zenon DEF Start, RunStep, CloseWindow, SendApply, Complete, ApplyTimedOut, Phase
    <3>2. ASSUME NEW n \in Node, HandleSendApply(n) \/ FinishDeployment(n)
          PROVE  \/ UNCHANGED phase
                 \/ \E x, p : p \in Phase /\ phase' = [phase EXCEPT ![x] = p]
      BY <3>2, Zenon DEF HandleSendApply, FinishDeployment, Phase
    <3> QED
      BY <3>1, <3>2, Zenon
         DEF Next, LoopStep, FailQuery, HandleQuery, HandleReply, HandleCapacityRequest, HandleApply,
             Lose, Tick, vars
  <2> QED BY <1>0, <2>1, Zenon DEF Typed
<1>5. DOMAIN control' = Node /\ DOMAIN loop' = Node /\ DOMAIN running' = Node
  <2>1. DOMAIN control' = DOMAIN control
    BY DEF Next, LoopStep, FailQuery, Start, RunStep, CloseWindow, SendApply, Complete, ApplyTimedOut,
           HandleQuery, HandleSendApply, HandleReply, HandleCapacityRequest, HandleApply,
           FinishDeployment, Lose, Tick, vars
  <2>2. DOMAIN loop' = DOMAIN loop
    BY Zenon DEF Next, LoopStep, FailQuery, Start, RunStep, CloseWindow, SendApply, Complete, ApplyTimedOut,
           HandleQuery, HandleSendApply, process_enhanced_self_apply_request, HandleReply,
           HandleCapacityRequest, HandleApply, FinishDeployment, Lose, Tick, vars
  <2>3. DOMAIN running' = DOMAIN running
    BY Zenon DEF Next, LoopStep, FailQuery, Start, RunStep, CloseWindow, SendApply, Complete, ApplyTimedOut,
           HandleQuery, HandleSendApply, HandleReply, HandleCapacityRequest, HandleApply,
           FinishDeployment, Lose, Tick, vars
  <2> QED BY <1>0, <2>1, <2>2, <2>3 DEF Typed
<1> QED
  BY <1>1, <1>2, <1>3, <1>4, <1>5 DEF Typed

\* A run sends to its replicas only, and only once its window is closed.
LEMMA CountedStep ==
    ASSUME IInv, [Next]_vars
    PROVE  Counted'
<1> SUFFICES ASSUME NEW r \in Run
             PROVE  sent'[r] <= Replicas[r] /\ (phase'[r] \in Early => sent'[r] = 0)
  BY Zenon DEF Counted
<1>1. /\ Forward(r) /\ Typed /\ Replicas[r] \in Nat
      /\ sent[r] <= Replicas[r] /\ (phase[r] \in Early => sent[r] = 0)
  BY ForwardStep, PlacementAssumption, Zenon DEF IInv, Counted
<1>2. CASE sent'[r] = sent[r]
  BY <1>1, <1>2 DEF Forward
<1>3. ASSUME NEW x \in Run, SendApply(x)
      PROVE  sent'[r] <= Replicas[r] /\ (phase'[r] \in Early => sent'[r] = 0)
  <2>1. /\ sent[x] < Replicas[x] /\ sent' = [sent EXCEPT ![x] = @ + 1]
        /\ phase' = [phase EXCEPT ![x] = "awaiting"]
    BY <1>3 DEF SendApply
  <2>2. CASE r = x
    <3>1. sent'[r] = sent[r] + 1 /\ phase'[r] = "awaiting"
      BY <1>1, <2>1, <2>2 DEF Typed
    <3>2. sent[r] \in Nat
      BY <1>1 DEF Typed
    <3> QED BY <1>1, <2>1, <2>2, <3>1, <3>2 DEF Early
  <2>3. CASE r # x
    BY <1>1, <1>2, <2>1, <2>3 DEF Typed
  <2> QED BY <2>2, <2>3
<1> QED
  BY <1>2, <1>3, Zenon
     DEF Next, LoopStep, FailQuery, Start, RunStep, CloseWindow, Complete, ApplyTimedOut, HandleQuery,
         HandleSendApply, HandleReply, HandleCapacityRequest, HandleApply, FinishDeployment,
         Lose, Tick, vars

\* What the API has queued at a node only grows.
LEMMA IssuedGrows ==
    ASSUME IInv, [Next]_vars, NEW n \in Node
    PROVE  Issued(n) \subseteq Issued(n)'
<1>1. \A r \in Run : Forward(r) /\ sent'[r] \in Nat
  BY ForwardStep, TypedStep DEF Typed
<1>2. ASSUME NEW r \in Run, Origin[Query(r).run] = n, phase[Query(r).run] # "new"
      PROVE  Query(r) \in Issued(n)'
  <2>1. Query(r).run = r
    BY DEF Query
  <2>2. phase'[r] # "new"
    BY <1>1, <1>2, <2>1 DEF Forward
  <2> QED BY <1>2, <2>1, <2>2 DEF Issued
<1>3. ASSUME NEW r \in Run, Origin[r] = n, NEW i \in 1..sent[r]
      PROVE  Apply(r, i) \in Issued(n)'
  <2>1. i \in 1..sent'[r] /\ Selected(r)'[i] = Selected(r)[i]
    BY <1>1, TurnedKept
  <2>2. Apply(r, i) = Apply(r, i)'
    BY <2>1 DEF Apply
  <2>3. Apply(r, i)' \in Issued(n)'
    BY <1>3, <2>1 DEF Issued
  <2> QED BY <2>2, <2>3, Zenon
<1> QED
  BY <1>2, <1>3 DEF Issued

\* A queue holds what the API has issued at its node.
LEMMA QueuedStep ==
    ASSUME IInv, [Next]_vars
    PROVE  Queued'
<1> SUFFICES ASSUME NEW n \in Node PROVE control'[n] \in Seq(Issued(n)')
  BY DEF Queued
<1>1. DOMAIN control = Node /\ control[n] \in Seq(Issued(n)')
  BY IssuedGrows, SeqMonotone DEF IInv, Queued, Typed
<1>2. CASE UNCHANGED control
  BY <1>1, <1>2
<1>3. ASSUME NEW r \in Run, Start(r) PROVE control'[n] \in Seq(Issued(n)')
  <2>1. /\ control' = [control EXCEPT ![Origin[r]] = Append(@, Query(r))]
        /\ phase' = [phase EXCEPT ![r] = "collecting"]
    BY <1>3, Zenon DEF Start, Query
  <2>2. phase'[r] # "new" /\ Query(r).run = r
    BY <2>1 DEF IInv, Typed, Query
  <2>3. Origin[r] = n => Query(r) \in Issued(n)'
    BY <2>2 DEF Issued
  <2> QED BY <1>1, <2>1, <2>3, QueueType
<1>4. ASSUME NEW r \in Run, SendApply(r) PROVE control'[n] \in Seq(Issued(n)')
  <2>1. /\ control' = [control EXCEPT ![Origin[r]] =
                          Append(@, [kind |-> "apply", run |-> r, node |-> Selected(r)[sent'[r]]])]
        /\ sent' = [sent EXCEPT ![r] = @ + 1]
        /\ UNCHANGED responders
    BY <1>4 DEF SendApply
  <2>2. sent'[r] \in 1..sent'[r]
    BY <2>1 DEF IInv, Typed
  <2>3. Selected(r)' = Selected(r)
    BY <2>1 DEF Selected, get_candidates, CandidatesResponse
  <2> DEFINE e == [kind |-> "apply", run |-> r, node |-> Selected(r)[sent'[r]]]
  <2>4. e = [kind |-> "apply", run |-> r, node |-> Selected(r)'[sent'[r]]]
    BY <2>3
  <2>5. Origin[r] = n => e \in Issued(n)'
    BY <2>2, <2>4 DEF Issued, Apply
  <2> HIDE DEF e
  <2>6. control' = [control EXCEPT ![Origin[r]] = Append(@, e)]
    BY <2>1 DEF e
  <2> QED BY <1>1, <2>5, <2>6, QueueType, Zenon
<1>5. ASSUME NEW x \in Node, HandleQuery(x) \/ FailQuery(x) \/ HandleSendApply(x)
      PROVE  control'[n] \in Seq(Issued(n)')
  <2>1. control[x] # <<>> /\ control' = [control EXCEPT ![x] = Tail(@)]
    BY <1>5 DEF HandleQuery, FailQuery, HandleSendApply
  <2> QED BY <1>1, <2>1, QueueType, Zenon
<1> QED
  BY <1>2, <1>3, <1>4, <1>5, Zenon
     DEF Next, LoopStep, RunStep, CloseWindow, Complete, ApplyTimedOut, HandleReply,
         HandleCapacityRequest, HandleApply, FinishDeployment, Lose, Tick, vars

\* An apply on the network is for a node its run has turned to.
LEMMA InTransitStep ==
    ASSUME IInv, [Next]_vars
    PROVE  InTransit'
<1>1. \A r \in Run : Forward(r) /\ sent'[r] \in Nat
  BY ForwardStep, TypedStep DEF Typed
<1>2. ASSUME NEW msg \in net', msg.kind = "apply"
      PROVE  Turned(msg.run, msg.node)'
  <2>1. msg.run \in Run /\ Turned(msg.run, msg.node)
    BY <1>2, NetForm DEF IInv, InTransit, Typed
  <2> QED BY <1>1, <2>1, TurnedKept, Zenon
<1> QED
  BY <1>2 DEF InTransit

\* What a loop deploys is for its own node.
LEMMA InLoopStep ==
    ASSUME IInv, [Next]_vars
    PROVE  InLoop'
<1> SUFFICES ASSUME NEW n \in Node
             PROVE  loop'[n] = Idle \/ \E r \in Run : loop'[n].run = r /\ Turned(r, n)'
  BY DEF InLoop, Free
<1>0. DOMAIN loop = Node
  BY DEF IInv, Typed
<1>1. \A r \in Run : Turned(r, n) => Turned(r, n)'
  BY ForwardStep, TypedStep, TurnedKept DEF Typed
<1>2. CASE loop'[n] = loop[n]
  BY <1>1, <1>2 DEF IInv, InLoop, Free
<1>3. ASSUME NEW x \in Node, HandleSendApply(x)
      PROVE  loop'[n] = loop[n] \/ \E r \in Run : loop'[n].run = r /\ Turned(r, n)
  <2> DEFINE c == Head(control[x])
  <2>1. c.run \in Run /\ Turned(c.run, c.node)
    BY <1>3, HeadOfQueue, Zenon DEF HandleSendApply
  <2>2. \/ UNCHANGED loop
        \/ c.node = x /\ loop' = [loop EXCEPT ![x] = [run |-> c.run, self |-> TRUE]]
    BY <1>3 DEF HandleSendApply, process_enhanced_self_apply_request
  <2> HIDE DEF c
  <2> QED BY <1>0, <2>1, <2>2
<1>4. ASSUME NEW msg \in net, HandleApply(msg)
      PROVE  loop'[n] = loop[n] \/ \E r \in Run : loop'[n].run = r /\ Turned(r, n)
  <2>1. msg.run \in Run /\ Turned(msg.run, msg.node)
    BY <1>4, Zenon DEF HandleApply, IInv, InTransit, Typed
  <2>2. \/ UNCHANGED loop
        \/ loop' = [loop EXCEPT ![msg.node] = [run |-> msg.run, self |-> FALSE]]
    BY <1>4 DEF HandleApply
  <2> QED BY <1>0, <2>1, <2>2
<1>5. ASSUME NEW x \in Node, FinishDeployment(x)
      PROVE  loop'[n] = loop[n] \/ loop'[n] = Idle
  <2>1. loop' = [loop EXCEPT ![x] = Idle]
    BY <1>5, Zenon DEF FinishDeployment
  <2> QED BY <1>0, <2>1, Zenon
<1>6. \/ loop'[n] = loop[n] \/ loop'[n] = Idle
      \/ \E r \in Run : loop'[n].run = r /\ Turned(r, n)
  BY <1>3, <1>4, <1>5, Zenon
     DEF Next, LoopStep, FailQuery, Start, RunStep, CloseWindow, SendApply, Complete, ApplyTimedOut,
         HandleQuery, HandleReply, HandleCapacityRequest, Lose, Tick, vars
<1> QED
  BY <1>1, <1>2, <1>6

\* A deployment, whatever its outcome, adds no manifest but its own.
LEMMA RolloutStep ==
    ASSUME IInv, [Next]_vars
    PROVE  RolloutInOrder'
<1> SUFFICES ASSUME NEW n \in Node, NEW m \in running'[n]
             PROVE  \E r \in RunsOf(m) : Turned(r, n)'
  BY Zenon DEF RolloutInOrder, Turned, RunsOf
<1>1. \A r \in Run : Turned(r, n) => Turned(r, n)'
  BY ForwardStep, TypedStep, TurnedKept DEF Typed
<1>2. ASSUME m \in running[n] PROVE \E r \in RunsOf(m) : Turned(r, n)
  BY <1>2 DEF IInv, RolloutInOrder, Turned
<1>3. ASSUME NEW x \in Node, FinishDeployment(x), m \notin running[n]
      PROVE  \E r \in RunsOf(m) : Turned(r, n)
  <2> DEFINE r == loop[x].run
  <2>1. r \in Run /\ Turned(r, x)
    BY <1>3, Zenon DEF FinishDeployment, IInv, InLoop
  <2>2. PICK runs \in DeploymentOutcomes(x, ManifestOf[r]) :
             running' = [running EXCEPT ![x] = runs]
    BY <1>3, Zenon DEF FinishDeployment
  <2>3. runs \subseteq running[x] \cup {ManifestOf[r]}
    BY <2>2 DEF DeploymentOutcomes
  <2>4. n = x /\ m = ManifestOf[r]
    BY <1>3, <2>2, <2>3 DEF IInv, Typed
  <2> HIDE DEF r
  <2> QED BY <2>1, <2>4, Zenon DEF RunsOf
<1>4. ASSUME UNCHANGED running PROVE m \in running[n]
  BY <1>4
<1>5. \E r \in RunsOf(m) : Turned(r, n)
  BY <1>2, <1>3, <1>4, Zenon
     DEF Next, LoopStep, FailQuery, Start, RunStep, CloseWindow, SendApply, Complete, ApplyTimedOut,
         HandleQuery, HandleSendApply, HandleReply, HandleCapacityRequest, HandleApply, Lose,
         Tick, vars
<1> QED
  BY <1>1, <1>5 DEF RunsOf

\* The origin's answer comes before everybody else's.
LEMMA OriginStep ==
    ASSUME IInv, [Next]_vars
    PROVE  OriginAnswered'
<1> SUFFICES ASSUME NEW r \in Run, Origin[r] \notin Disabled
             PROVE  \/ /\ responders'[r] = <<>>
                       /\ \A msg \in net' : msg.kind # "apply" => msg.run # r
                    \/ responders'[r] = <<>> /\ phase'[r] \notin Early
                    \/ responders'[r] # <<>> /\ Head(responders'[r]) = Origin[r]
  BY DEF OriginAnswered
<1> DEFINE Quiet(resp, msgs) == resp[r] = <<>> /\ \A msg \in msgs : msg.kind # "apply" => msg.run # r
           Late(resp, ph) == resp[r] = <<>> /\ ph[r] \notin Early
           First(resp) == resp[r] # <<>> /\ Head(resp[r]) = Origin[r]
<1>0. /\ Typed /\ Forward(r)
      /\ Quiet(responders, net) \/ Late(responders, phase) \/ First(responders)
  BY ForwardStep DEF IInv, OriginAnswered
<1>1. ASSUME First(responders),
             \/ responders'[r] = responders[r]
             \/ \E n \in Node : responders'[r] = Append(responders[r], n)
      PROVE  First(responders')
  <2>1. responders[r] \in Seq(Node)
    BY <1>0, Zenon DEF Typed
  <2> QED BY <1>1, <2>1
<1>2. \/ responders'[r] = responders[r]
      \/ \E n \in Node : responders'[r] = Append(responders[r], n)
  <2>1. ASSUME NEW n \in Node, HandleQuery(n), responders'[r] # responders[r]
        PROVE  responders'[r] = Append(responders[r], n)
    BY <2>1, QueryAnswer, Zenon
  <2>2. ASSUME NEW msg \in net, HandleReply(msg), responders'[r] # responders[r]
        PROVE  msg.node \in Node /\ responders'[r] = Append(responders[r], msg.node)
    BY <1>0, <2>2, NotifyForm DEF HandleReply, Typed
  <2> QED
    BY <2>1, <2>2, Zenon
       DEF Next, LoopStep, FailQuery, Start, RunStep, CloseWindow, SendApply, Complete, ApplyTimedOut,
           HandleSendApply, HandleCapacityRequest, HandleApply, FinishDeployment, Lose, Tick, vars
<1>3. CASE First(responders)
  BY <1>1, <1>2, <1>3
<1>4. CASE Late(responders, phase)
  BY <1>0, <1>4 DEF Forward
<1>5. CASE Quiet(responders, net)
  <2>1. ASSUME NEW n \in Node, HandleQuery(n), Head(control[n]).run = r
        PROVE  First(responders') \/ Late(responders', phase')
    <3>1. n = Origin[r] /\ phase[r] # "new" /\ Notify(r, n) /\ UNCHANGED phase
      BY <2>1, QueryForm, Zenon DEF HandleQuery
    <3>2. CASE phase[r] = "collecting"
      <4>1. responders'[r] = Append(responders[r], n) /\ responders[r] = <<>>
        BY <1>0, <1>5, <3>1, <3>2, NotifyForm, Zenon
      <4> QED BY <3>1, <4>1
    <3>3. CASE phase[r] # "collecting"
      BY <1>0, <1>5, <3>1, <3>3, NotifyForm DEF Early
    <3> QED BY <3>2, <3>3, Zenon
  <2>2. ASSUME \A n \in Node : ~(HandleQuery(n) /\ Head(control[n]).run = r)
        PROVE  Quiet(responders', net')
    <3>1. \A msg \in net' : msg.kind # "apply" => msg.run # r
      BY <1>5, <2>2, NetForm, Zenon
    <3>2. responders'[r] = responders[r]
      <4>1. ASSUME NEW n \in Node, HandleQuery(n) PROVE responders'[r] = responders[r]
        BY <2>2, <4>1, QueryAnswer, Zenon
      <4>2. ASSUME NEW msg \in net, HandleReply(msg) PROVE responders'[r] = responders[r]
        BY <1>0, <1>5, <4>2, NotifyForm, Zenon DEF HandleReply, Typed
      <4> QED
        BY <4>1, <4>2, Zenon
           DEF Next, LoopStep, FailQuery, Start, RunStep, CloseWindow, SendApply, Complete, ApplyTimedOut,
               HandleSendApply, HandleCapacityRequest, HandleApply, FinishDeployment, Lose,
               Tick, vars
    <3> QED BY <1>5, <3>1, <3>2
  <2> QED BY <2>1, <2>2, Zenon
<1> QED
  BY <1>0, <1>3, <1>4, <1>5, Zenon

-----------------------------------------------------------------------------
(* The theorems *)

\* Nothing has been issued, sent or deployed.
LEMMA InvInit == Init => IInv
<1> SUFFICES ASSUME Init PROVE IInv
  OBVIOUS
<1>1. Typed
  BY DEF Init, Typed, Phase
<1>2. Counted
  BY PlacementAssumption DEF Init, Counted
<1>3. Queued
  BY DEF Init, Queued
<1>4. InTransit /\ InLoop /\ RolloutInOrder /\ OriginAnswered
  BY DEF Init, InTransit, InLoop, Free, RolloutInOrder, OriginAnswered
<1> QED
  BY <1>1, <1>2, <1>3, <1>4 DEF IInv

\* Every step keeps the invariant.
LEMMA InvStep == IInv /\ [Next]_vars => IInv'
BY TypedStep, CountedStep, QueuedStep, InTransitStep, InLoopStep, RolloutStep, OriginStep DEF IInv

\* The invariant holds throughout.
LEMMA Invariant == Spec => []IInv
BY InvInit, InvStep, PTL DEF Spec

\* Whatever is lost, delayed or refused, a manifest runs only where a run of it
\* has sent an apply: a rollout that stops half-way has touched the nodes it had
\* turned to in its order, and no others.
THEOREM RolloutKeepsOrder == Spec => []RolloutInOrder
<1>1. IInv => RolloutInOrder
  BY DEF IInv
<1> QED
  BY Invariant, <1>1, PTL

\* The nodes a run has turned to are no more than the applies it has sent.
LEMMA CopiesCounted == IInv => NoExtraCopies
<1> SUFFICES ASSUME IInv, NEW m \in Manifest, NEW r \in Run, RunsOf(m) = {r}
             PROVE  Cardinality({n \in Node : m \in running[n]}) <= Replicas[r]
  BY DEF NoExtraCopies
<1> DEFINE Sel == [i \in 1..sent[r] |-> Selected(r)[i]]
           Hosts == {n \in Node : m \in running[n]}
           Reached == {Sel[i] : i \in 1..sent[r]}
<1>1. sent[r] \in Nat /\ Replicas[r] \in Nat /\ sent[r] <= Replicas[r]
  BY PlacementAssumption, Zenon DEF IInv, Typed, Counted
<1>2. Hosts \subseteq Reached
  BY DEF IInv, RolloutInOrder
<1>3. IsFiniteSet(1..sent[r]) /\ Cardinality(1..sent[r]) = sent[r]
  <2>1. ASSUME NEW k \in Nat PROVE IsFiniteSet(1..k) /\ Cardinality(1..k) = k
    BY FS_Interval
  <2> QED BY <1>1, <2>1
<1>4. Sel \in Surjection(1..sent[r], Reached)
  BY DEF Surjection
<1>5. /\ IsFiniteSet(Reached) /\ Cardinality(Reached) \in Nat
      /\ Cardinality(Reached) <= sent[r]
  <2> HIDE DEF Sel, Reached
  <2> QED BY <1>3, <1>4, FS_Surjection, FS_CardinalityType
<1>6. Cardinality(Hosts) \in Nat /\ Cardinality(Hosts) <= Cardinality(Reached)
  <2> HIDE DEF Hosts, Reached
  <2>1. IsFiniteSet(Hosts) /\ Cardinality(Hosts) <= Cardinality(Reached)
    BY <1>2, <1>5, FS_Subset, Zenon
  <2> QED BY <2>1, FS_CardinalityType, Zenon
<1> HIDE DEF Hosts, Reached
<1>7. Cardinality(Hosts) <= Replicas[r]
  BY <1>1, <1>5, <1>6
<1> QED
  BY <1>7 DEF Hosts

\* Retries, losses and late messages never make a run leave more copies of its
\* manifest than it has replicas.
THEOREM CopiesBounded == Spec => []NoExtraCopies
BY Invariant, CopiesCounted, PTL

\* However replies overtake one another, the node that serves the API is the
\* first candidate of every run, unless its scheduling is disabled.
THEOREM OriginComesFirst == Spec => []OriginFirst
<1>1. IInv => OriginFirst
  BY DEF IInv, OriginAnswered, OriginFirst
<1> QED
  BY Invariant, <1>1, PTL

-----------------------------------------------------------------------------
(* Types.  The CLI takes its nodes from the candidates by index, so that the *)
(* messages are well-formed only because it never sends to more nodes than   *)
(* it has candidates.                                                        *)

\* The responders with a key, and how many of them came up to a place.
WithKey(nodes) == {i \in DOMAIN nodes : nodes[i] \notin Keyless}

UpTo(nodes, i) == {j \in WithKey(nodes) : j <= i}

KeyPlace(nodes, i) == Cardinality(UpTo(nodes, i))

\* The candidates are as many nodes as there are responders with a key.
LEMMA KeyedType ==
    ASSUME NEW nodes \in Seq(Node)
    PROVE  Keyed(nodes) \in Seq(Node)
<1> DEFINE K == WithKey(nodes)
           c == Cardinality(K)
<1>1. /\ DOMAIN nodes = 1..Len(nodes) /\ Len(nodes) \in Nat
      /\ \A i \in DOMAIN nodes : nodes[i] \in Node
  OBVIOUS
<1>2. IsFiniteSet(K) /\ c \in Nat /\ K \subseteq 1..Len(nodes)
  <2>1. IsFiniteSet(1..Len(nodes))
    <3>1. ASSUME NEW k \in Nat PROVE IsFiniteSet(1..k)
      BY FS_Interval
    <3> QED BY <1>1, <3>1, Zenon
  <2>2. K \subseteq 1..Len(nodes)
    BY <1>1, Zenon DEF WithKey
  <2> QED BY <2>1, <2>2, FS_Subset, FS_CardinalityType, Zenon
<1>3. ASSUME NEW i \in K
      PROVE  IsFiniteSet(UpTo(nodes, i)) /\ KeyPlace(nodes, i) \in 1..c
  <2>1. UpTo(nodes, i) \subseteq K /\ i \in UpTo(nodes, i)
    BY <1>2 DEF UpTo
  <2>2. IsFiniteSet(UpTo(nodes, i)) /\ Cardinality(UpTo(nodes, i)) <= c
    BY <1>2, <2>1, FS_Subset, Zenon
  <2>3. Cardinality(UpTo(nodes, i)) \in Nat /\ Cardinality(UpTo(nodes, i)) # 0
    BY <2>1, <2>2, FS_CardinalityType, FS_EmptySet, Zenon
  <2> HIDE DEF c
  <2> QED BY <2>2, <2>3, <1>2 DEF KeyPlace
<1>4. ASSUME NEW i \in K, NEW j \in K, i < j
      PROVE  KeyPlace(nodes, i) # KeyPlace(nodes, j)
  <2>1. UpTo(nodes, i) \subseteq UpTo(nodes, j) /\ j \in UpTo(nodes, j) /\ j \notin UpTo(nodes, i)
    BY <1>2, <1>4 DEF UpTo
  <2>2. UpTo(nodes, i) # UpTo(nodes, j)
    BY <2>1, Zenon
  <2> QED BY <1>3, <2>1, <2>2, FS_Subset, Zenon DEF KeyPlace
<1>5. ASSUME NEW i \in K, NEW j \in K, KeyPlace(nodes, i) = KeyPlace(nodes, j)
      PROVE  i = j
  <2>1. i < j \/ j < i \/ i = j
    BY <1>2
  <2> QED BY <1>4, <1>5, <2>1, Zenon
<1> DEFINE place == [i \in K |-> KeyPlace(nodes, i)]
<1>6. place \in Injection(K, 1..c)
  <2>1. place \in [K -> 1..c] /\ \A i \in K : place[i] = KeyPlace(nodes, i)
    BY <1>3, Zenon
  <2> HIDE DEF place
  <2> QED BY <1>5, <2>1, Zenon DEF Injection, IsInjective
<1>7. IsFiniteSet(1..c) /\ Cardinality(1..c) = c
  <2>1. ASSUME NEW k \in Nat PROVE IsFiniteSet(1..k) /\ Cardinality(1..k) = k
    BY FS_Interval
  <2> QED BY <1>2, <2>1, Zenon
<1>8. place \in Surjection(K, 1..c)
  <2> HIDE DEF place
  <2> QED BY <1>2, <1>6, <1>7, FS_Injection, Zenon
<1>9. ASSUME NEW k \in 1..c
      PROVE  nodes[CHOOSE i \in K : KeyPlace(nodes, i) = k] \in Node
  <2>1. \E i \in K : place[i] = k
    <3> HIDE DEF place
    <3> QED BY <1>8, Zenon DEF Surjection
  <2>2. \E i \in K : KeyPlace(nodes, i) = k
    BY <2>1, Zenon
  <2>3. (CHOOSE i \in K : KeyPlace(nodes, i) = k) \in K
    BY <2>2, Zenon
  <2> QED BY <1>1, <1>2, <2>3, Zenon
<1>10. Keyed(nodes) = [k \in 1..c |-> nodes[CHOOSE i \in K : KeyPlace(nodes, i) = k]]
  BY Zenon DEF Keyed, WithKey, KeyPlace, UpTo
<1>11. Keyed(nodes) \in [1..c -> Node]
  BY <1>9, <1>10, Zenon
<1> HIDE DEF c
<1> QED BY <1>2, <1>11

\* The candidates of a run, after its window.
LEMMA CandidatesType ==
    ASSUME IInv, NEW r \in Run
    PROVE  /\ get_candidates(r) \in Seq(Node) /\ Len(get_candidates(r)) \in Nat
           /\ \A i \in 1..Len(get_candidates(r)) : get_candidates(r)[i] \in Node
<1>1. responders[r] \in Seq(Node)
  BY Zenon DEF IInv, Typed
<1>2. get_candidates(r) = Keyed(responders[r])
  BY DEF get_candidates, CandidatesResponse
<1>3. Keyed(responders[r]) \in Seq(Node)
  BY <1>1, KeyedType, Zenon
<1> QED BY <1>2, <1>3

\* The run has a candidate for each of its replicas.
Enough(r) == Replicas[r] <= Len(get_candidates(r))

Past(p) == p \notin Early \cup {"failed"}

\* A run that goes on past its window, or ever did, has enough candidates.
Chosen == \A r \in Run : Past(phase[r]) \/ sent[r] # 0 => Enough(r)

IsTable(t, k) ==
    \E S \in SUBSET Run : t \in [S -> 0..Hold] /\ IsFiniteSet(S) /\ Cardinality(S) <= k

Tabled == DOMAIN table = Node /\ \A n \in Node : IsTable(table[n], Slots[n])

Looping == \A n \in Node : Free(n) \/ loop[n] \in [run : Run, self : BOOLEAN]

Shaped ==
    /\ Chosen /\ Tabled /\ Looping
    /\ running \in [Node -> SUBSET Manifest]
    /\ net \subseteq Message
    /\ asked \in [Run -> 0..(CapWindow + 1)]
    /\ timer \in [Run -> 0..ApplyTimeout]

\* A run turns to nodes only.
LEMMA TurnedToNode ==
    ASSUME IInv, Chosen, NEW r \in Run
    PROVE  /\ \A i \in 1..sent[r] : Selected(r)[i] \in Node
           /\ \A n : Turned(r, n) => n \in Node
<1>1. ASSUME NEW i \in 1..sent[r] PROVE Selected(r)[i] \in Node
  <2>1. sent[r] \in Nat /\ sent[r] <= Replicas[r] /\ Replicas[r] \in Nat
    BY PlacementAssumption, Zenon DEF IInv, Typed, Counted
  <2>2. sent[r] # 0
    BY <1>1, <2>1
  <2>3. Replicas[r] <= Len(get_candidates(r))
    BY <2>2, Zenon DEF Chosen, Enough
  <2>4. i \in 1..Len(get_candidates(r)) /\ i \in 1..Replicas[r]
    BY <1>1, <2>1, <2>3, CandidatesType
  <2>5. Selected(r)[i] = get_candidates(r)[i]
    BY <2>3, <2>4, Zenon DEF Selected
  <2> QED BY <2>4, <2>5, CandidatesType, Zenon
<1> QED BY <1>1, Zenon DEF Turned

\* The candidates are counted once, at the end of the window, and stay.
LEMMA ChosenStep ==
    ASSUME IInv, Chosen, [Next]_vars
    PROVE  Chosen'
<1> SUFFICES ASSUME NEW r \in Run, Past(phase'[r]) \/ sent'[r] # 0
             PROVE  Enough(r)'
  BY DEF Chosen, Past
<1>0. Typed /\ Forward(r)
  BY ForwardStep, Zenon DEF IInv
<1>1. ASSUME responders'[r] = responders[r], Enough(r) PROVE Enough(r)'
  BY <1>1 DEF Enough, get_candidates, CandidatesResponse
<1>2. CASE Past(phase[r]) \/ sent[r] # 0
  <2>1. phase[r] \notin Early
    BY <1>2, Zenon DEF IInv, Counted, Past
  <2> QED BY <1>0, <1>1, <1>2, <2>1, Zenon DEF Forward, Chosen
<1>3. CASE ~Past(phase[r]) /\ sent[r] = 0
  <2>1. CloseWindow(r) /\ Past(phase'[r])
    <3>1. ASSUME NEW x \in Run, Start(x) PROVE ~Past(phase'[r]) /\ sent'[r] = sent[r]
      BY <1>0, <1>3, <3>1 DEF Start, Past, Early, Typed
    <3>2. ASSUME NEW x \in Run, CloseWindow(x) PROVE sent'[r] = sent[r] /\ (x = r \/ phase'[r] = phase[r])
      BY <1>0, <3>2 DEF CloseWindow, Typed
    <3>3. ASSUME NEW x \in Run, SendApply(x) PROVE sent'[r] = sent[r] /\ phase'[r] = phase[r]
      BY <1>0, <1>3, <3>3 DEF SendApply, Past, Early, Typed
    <3>4. ASSUME NEW x \in Run, Complete(x) \/ ApplyTimedOut(x)
          PROVE  sent'[r] = sent[r] /\ phase'[r] = phase[r]
      BY <1>0, <1>3, <3>4 DEF Complete, ApplyTimedOut, Past, Early, Typed
    <3>5. ASSUME NEW n \in Node, HandleSendApply(n) \/ FinishDeployment(n)
          PROVE  sent'[r] = sent[r] /\ phase'[r] = phase[r]
      BY <1>0, <1>3, <3>5 DEF HandleSendApply, FinishDeployment, Past, Early, Typed
    <3> QED
      BY <1>3, <3>1, <3>2, <3>3, <3>4, <3>5, Zenon
         DEF Next, LoopStep, FailQuery, RunStep, HandleQuery, HandleReply, HandleCapacityRequest, HandleApply,
             Lose, Tick, vars
  <2>2. responders' = responders
    BY <2>1 DEF CloseWindow
  <2>3. ~(Len(get_candidates(r)) < Replicas[r])
    BY <1>0, <2>1 DEF CloseWindow, Past, Typed
  <2>4. Enough(r)
    BY <2>3, CandidatesType, PlacementAssumption DEF Enough
  <2> QED BY <1>1, <2>2, <2>4, Zenon
<1> QED BY <1>2, <1>3, Zenon

\* Pruning, ageing and adding a hold where there is room keep a table of holds.
LEMMA TableOperators ==
    ASSUME NEW k \in Nat, NEW t, IsTable(t, k)
    PROVE  /\ IsTable(Prune(t), k) /\ IsTable(Aged(t), k)
           /\ \A r \in Run : Cardinality(DOMAIN t) < k =>
                 IsTable([x \in DOMAIN t \cup {r} |-> IF x = r THEN Hold ELSE t[x]], k)
<1>0. Hold \in Nat
  BY PlacementAssumption
<1>1. PICK S \in SUBSET Run : t \in [S -> 0..Hold] /\ IsFiniteSet(S) /\ Cardinality(S) <= k
  BY Zenon DEF IsTable
<1>2. DOMAIN t = S /\ \A x \in S : t[x] \in 0..Hold
  BY <1>1
<1>3. IsTable(Prune(t), k)
  <2> DEFINE P == {x \in DOMAIN t : t[x] > 0}
  <2>1. P \in SUBSET Run /\ P \subseteq S /\ Prune(t) \in [P -> 0..Hold]
    BY <1>2 DEF Prune
  <2> HIDE DEF P
  <2>2. IsFiniteSet(P) /\ Cardinality(P) <= Cardinality(S) /\ Cardinality(P) \in Nat /\ Cardinality(S) \in Nat
    BY <1>1, <2>1, FS_Subset, FS_CardinalityType
  <2>3. Cardinality(P) <= k
    BY <1>1, <2>2
  <2> QED BY <2>1, <2>2, <2>3, Zenon DEF IsTable
<1>4. IsTable(Aged(t), k)
  <2>1. \A x \in S : (IF t[x] = 0 THEN 0 ELSE t[x] - 1) \in 0..Hold
    BY <1>0, <1>2
  <2>2. Aged(t) \in [S -> 0..Hold]
    BY <1>2, <2>1, Zenon DEF Aged
  <2> QED BY <1>1, <2>2, Zenon DEF IsTable
<1>5. ASSUME NEW r \in Run, Cardinality(DOMAIN t) < k
      PROVE  IsTable([x \in DOMAIN t \cup {r} |-> IF x = r THEN Hold ELSE t[x]], k)
  <2>1. S \cup {r} \in SUBSET Run
    BY Zenon
  <2>2. \A x \in S \cup {r} : (IF x = r THEN Hold ELSE t[x]) \in 0..Hold
    BY <1>0, <1>2
  <2>3. [x \in DOMAIN t \cup {r} |-> IF x = r THEN Hold ELSE t[x]] \in [S \cup {r} -> 0..Hold]
    BY <1>2, <2>2, Zenon
  <2>4. /\ IsFiniteSet(S \cup {r}) /\ Cardinality(S) \in Nat
        /\ Cardinality(S \cup {r}) \in {Cardinality(S), Cardinality(S) + 1}
    BY <1>1, FS_AddElement, FS_CardinalityType
  <2>5. Cardinality(S \cup {r}) <= k
    BY <1>2, <1>5, <2>4
  <2> QED BY <2>1, <2>3, <2>4, <2>5, Zenon DEF IsTable
<1> QED BY <1>3, <1>4, <1>5, Zenon

\* No handler gives a hold more than the hold time, or a node more holds than slots.
LEMMA TabledStep ==
    ASSUME IInv, Tabled, net \subseteq Message, [Next]_vars
    PROVE  Tabled'
<1>0. \A n \in Node : Slots[n] \in Nat
  BY PlacementAssumption
<1>1. ASSUME NEW n \in Node, NEW t, IsTable(t, Slots[n]), table' = [table EXCEPT ![n] = t] PROVE Tabled'
  BY <1>1, Zenon DEF Tabled
<1>2. CASE UNCHANGED table
  BY <1>2, Zenon DEF Tabled
<1>3. ASSUME NEW msg \in net, HandleApply(msg) PROVE Tabled'
  <2>1. msg.node \in Node
    BY DEF Message
  <2>2. table' = [table EXCEPT ![msg.node] = Prune(table[msg.node])]
    BY <1>3, Zenon DEF HandleApply
  <2>3. IsTable(Prune(table[msg.node]), Slots[msg.node])
    BY <1>0, <2>1, TableOperators, Zenon DEF Tabled
  <2> QED BY <1>1, <2>1, <2>2, <2>3, Zenon
<1>4. ASSUME NEW msg \in net, HandleCapacityRequest(msg) PROVE Tabled'
  <2> DEFINE n == msg.node
             t == Prune(table[n])
             held == [r \in DOMAIN t \cup {msg.run} |-> IF r = msg.run THEN Hold ELSE t[r]]
  <2>1. n \in Node /\ msg.run \in Run
    BY DEF Message
  <2>2. \/ UNCHANGED table
        \/ table' = [table EXCEPT ![n] = held] /\ Cardinality(DOMAIN t) < Slots[n]
        \/ table' = [table EXCEPT ![n] = t]
    BY <1>4, Zenon DEF HandleCapacityRequest
  <2>3. IsTable(t, Slots[n])
    BY <1>0, <2>1, TableOperators, Zenon DEF Tabled
  <2>4. Cardinality(DOMAIN t) < Slots[n] => IsTable(held, Slots[n])
    <3> HIDE DEF t
    <3> QED BY <1>0, <2>1, <2>3, TableOperators, Zenon
  <2> HIDE DEF n, t, held
  <2> QED BY <1>1, <1>2, <2>1, <2>2, <2>3, <2>4, Zenon
<1>5. CASE Tick
  <2>1. table' = [n \in Node |-> Aged(table[n])]
    BY <1>5, Zenon DEF Tick
  <2> QED BY <1>0, <2>1, TableOperators, Zenon DEF Tabled
<1> QED
  BY <1>2, <1>3, <1>4, <1>5, Zenon
     DEF Next, LoopStep, FailQuery, Start, RunStep, CloseWindow, SendApply, Complete, ApplyTimedOut,
         HandleQuery, HandleSendApply, HandleReply, FinishDeployment, Lose, vars

\* A loop deploys for a run, from its own queue or from the network.
LEMMA LoopingStep ==
    ASSUME IInv, Looping, [Next]_vars
    PROVE  Looping'
<1>0. DOMAIN loop = Node
  BY Zenon DEF IInv, Typed
<1>1. ASSUME NEW x, NEW job,
             job = Idle \/ job \in [run : Run, self : BOOLEAN], loop' = [loop EXCEPT ![x] = job]
      PROVE  Looping'
  BY <1>0, <1>1, Zenon DEF Looping, Free
<1>2. CASE UNCHANGED loop
  BY <1>2, Zenon DEF Looping, Free
<1>3. ASSUME NEW n \in Node, HandleSendApply(n) PROVE Looping'
  <2>1. Head(control[n]).run \in Run
    BY <1>3, HeadOfQueue, Zenon DEF HandleSendApply
  <2>2. \/ UNCHANGED loop
        \/ loop' = [loop EXCEPT ![n] = [run |-> Head(control[n]).run, self |-> TRUE]]
    BY <1>3, Zenon DEF HandleSendApply, process_enhanced_self_apply_request
  <2>3. [run |-> Head(control[n]).run, self |-> TRUE] \in [run : Run, self : BOOLEAN]
    BY <2>1
  <2> QED BY <1>1, <1>2, <2>2, <2>3, Zenon
<1>4. ASSUME NEW msg \in net, HandleApply(msg) PROVE Looping'
  <2>1. msg.run \in Run
    BY Zenon DEF IInv, Typed
  <2>2. \/ UNCHANGED loop
        \/ loop' = [loop EXCEPT ![msg.node] = [run |-> msg.run, self |-> FALSE]]
    BY <1>4, Zenon DEF HandleApply
  <2>3. [run |-> msg.run, self |-> FALSE] \in [run : Run, self : BOOLEAN]
    BY <2>1
  <2> QED BY <1>1, <1>2, <2>2, <2>3, Zenon
<1>5. ASSUME NEW n \in Node, FinishDeployment(n) PROVE Looping'
  BY <1>1, <1>5, Zenon DEF FinishDeployment
<1> QED
  BY <1>2, <1>3, <1>4, <1>5, Zenon
     DEF Next, LoopStep, FailQuery, Start, RunStep, CloseWindow, SendApply, Complete, ApplyTimedOut,
         HandleQuery, HandleReply, HandleCapacityRequest, Lose, Tick, vars

\* Deployments start and stop manifests only.
LEMMA RunningStep ==
    ASSUME IInv, running \in [Node -> SUBSET Manifest], [Next]_vars
    PROVE  running' \in [Node -> SUBSET Manifest]
<1>1. CASE UNCHANGED running
  BY <1>1
<1>2. ASSUME NEW n \in Node, FinishDeployment(n) PROVE running' \in [Node -> SUBSET Manifest]
  <2> DEFINE r == loop[n].run
  <2>1. r \in Run /\ ManifestOf[r] \in Manifest
    BY <1>2, PlacementAssumption, Zenon DEF FinishDeployment, IInv, InLoop
  <2>2. PICK runs \in DeploymentOutcomes(n, ManifestOf[r]) :
             running' = [running EXCEPT ![n] = runs]
    BY <1>2, Zenon DEF FinishDeployment
  <2>3. runs \subseteq running[n] \cup {ManifestOf[r]}
    BY <2>2 DEF DeploymentOutcomes
  <2> HIDE DEF r
  <2>4. runs \in SUBSET Manifest
    BY <2>1, <2>3
  <2> QED BY <2>2, <2>4
<1> QED
  BY <1>1, <1>2, Zenon
     DEF Next, LoopStep, FailQuery, Start, RunStep, CloseWindow, SendApply, Complete, ApplyTimedOut,
         HandleQuery, HandleSendApply, HandleReply, HandleCapacityRequest, HandleApply, Lose,
         Tick, vars

\* What is on the network goes from a run's node to a node.
LEMMA NetStep ==
    ASSUME IInv, Chosen, net \subseteq Message, [Next]_vars
    PROVE  net' \subseteq Message
<1>1. ASSUME NEW r \in Run, NEW n \in Node
      PROVE  /\ CapacityRequest(r, n) \in Message /\ CapacityReply(r, n) \in Message
             /\ ApplyRequest(r, n) \in Message
  BY DEF CapacityRequest, CapacityReply, ApplyRequest, Message
<1>2. ASSUME net' \subseteq net PROVE net' \subseteq Message
  BY <1>2, Zenon
<1>3. ASSUME NEW n \in Node, HandleQuery(n) PROVE net' \subseteq Message
  <2>1. Head(control[n]).run \in Run
        /\ net' = net \cup broadcast_signed_request_to_peers(Head(control[n]).run, n)
    BY <1>3, QueryForm, Zenon
  <2> QED BY <1>1, <2>1, Zenon DEF broadcast_signed_request_to_peers
<1>4. ASSUME NEW n \in Node, HandleSendApply(n) PROVE net' \subseteq Message
  <2> DEFINE c == Head(control[n])
  <2>1. c.run \in Run /\ c.node \in Node
    BY <1>4, HeadOfQueue, TurnedToNode, Zenon DEF HandleSendApply
  <2>2. UNCHANGED net \/ net' = net \cup {ApplyRequest(c.run, c.node)}
    BY <1>4, Zenon DEF HandleSendApply
  <2>3. ApplyRequest(c.run, c.node) \in Message
    BY <1>1, <2>1, Zenon
  <2> HIDE DEF c
  <2> QED BY <2>2, <2>3
<1>5. ASSUME NEW msg \in net, HandleCapacityRequest(msg) PROVE net' \subseteq Message
  <2>1. msg.run \in Run /\ msg.node \in Node
    BY DEF Message
  <2>2. net' \subseteq net \cup {CapacityReply(msg.run, msg.node)}
    BY <1>5 DEF HandleCapacityRequest
  <2> QED BY <1>1, <2>1, <2>2, Zenon
<1>6. ASSUME NEW msg \in net, HandleReply(msg) \/ HandleApply(msg) \/ Lose(msg)
      PROVE  net' \subseteq net
  BY <1>6, Zenon DEF HandleReply, HandleApply, Lose, Receive
<1> QED
  BY <1>2, <1>3, <1>4, <1>5, <1>6, Zenon
     DEF Next, LoopStep, FailQuery, Start, RunStep, CloseWindow, SendApply, Complete, ApplyTimedOut,
         FinishDeployment, Tick, vars

\* The clocks stop at their bounds.
LEMMA ClockStep ==
    ASSUME IInv, asked \in [Run -> 0..(CapWindow + 1)], timer \in [Run -> 0..ApplyTimeout],
           [Next]_vars
    PROVE  asked' \in [Run -> 0..(CapWindow + 1)] /\ timer' \in [Run -> 0..ApplyTimeout]
<1>0. CapWindow \in Nat /\ ApplyTimeout \in Nat
  BY PlacementAssumption
<1>1. CASE Tick
  <2>1. \A r \in Run : asked[r] > CapWindow \/ asked[r] + 1 \in 0..(CapWindow + 1)
    BY <1>0
  <2>2. \A r \in Run : timer[r] = ApplyTimeout \/ timer[r] + 1 \in 0..ApplyTimeout
    BY <1>0
  <2>3. asked' \in [Run -> 0..(CapWindow + 1)]
    BY <1>1, <2>1, Zenon DEF Tick
  <2>4. timer' \in [Run -> 0..ApplyTimeout]
    BY <1>1, <2>2, Zenon DEF Tick
  <2> QED BY <2>3, <2>4, Zenon
<1>2. asked' = asked \/ Tick \/ \E r : asked' = [asked EXCEPT ![r] = 0]
  BY Zenon
     DEF Next, LoopStep, FailQuery, Start, RunStep, CloseWindow, SendApply, Complete, ApplyTimedOut,
         HandleQuery, HandleSendApply, HandleReply, HandleCapacityRequest, HandleApply,
         FinishDeployment, Lose, vars
<1>3. timer' = timer \/ Tick \/ \E r : timer' = [timer EXCEPT ![r] = 0]
  BY Zenon
     DEF Next, LoopStep, FailQuery, Start, RunStep, CloseWindow, SendApply, Complete, ApplyTimedOut,
         HandleQuery, HandleSendApply, HandleReply, HandleCapacityRequest, HandleApply,
         FinishDeployment, Lose, vars
<1>4. 0 \in 0..(CapWindow + 1) /\ 0 \in 0..ApplyTimeout
  BY <1>0
<1>5. ASSUME NEW r, asked' = [asked EXCEPT ![r] = 0] PROVE asked' \in [Run -> 0..(CapWindow + 1)]
  BY <1>4, <1>5, Zenon
<1>6. ASSUME NEW r, timer' = [timer EXCEPT ![r] = 0] PROVE timer' \in [Run -> 0..ApplyTimeout]
  BY <1>4, <1>6, Zenon
<1> QED BY <1>1, <1>2, <1>3, <1>5, <1>6, Zenon

\* Nothing is reserved, deployed or on its way.
LEMMA ShapedInit == Init => Shaped
<1> SUFFICES ASSUME Init PROVE Shaped
  OBVIOUS
<1>0. CapWindow \in Nat /\ ApplyTimeout \in Nat /\ Hold \in Nat
  BY PlacementAssumption
<1>1. Chosen
  BY DEF Init, Chosen, Past, Early
<1>2. Tabled
  <2>1. [r \in {} |-> 0] \in [{} -> 0..Hold] /\ {} \in SUBSET Run
    BY <1>0
  <2>2. IsFiniteSet({}) /\ Cardinality({}) = 0 /\ \A n \in Node : 0 <= Slots[n]
    BY FS_EmptySet, PlacementAssumption
  <2>3. \A n \in Node : IsTable([r \in {} |-> 0], Slots[n])
    BY <2>1, <2>2, Zenon DEF IsTable
  <2> QED BY <2>3, Zenon DEF Init, Tabled
<1>3. Looping
  BY Zenon DEF Init, Looping, Free
<1>4. running \in [Node -> SUBSET Manifest] /\ net \subseteq Message
  BY DEF Init
<1>5. asked \in [Run -> 0..(CapWindow + 1)] /\ timer \in [Run -> 0..ApplyTimeout]
  BY <1>0 DEF Init
<1> QED BY <1>1, <1>2, <1>3, <1>4, <1>5, Zenon DEF Shaped

\* Every step keeps the shapes.
LEMMA ShapedStep == IInv /\ Shaped /\ [Next]_vars => Shaped'
BY ChosenStep, TabledStep, LoopingStep, RunningStep, NetStep, ClockStep, Zenon DEF Shaped

\* With the invariant the shapes make up the types.
LEMMA ShapedTypes ==
    ASSUME IInv, Shaped
    PROVE  TypeOK
<1>1. ASSUME NEW n \in Node, NEW i \in DOMAIN control[n] PROVE control[n][i] \in Control
  <2> DEFINE c == control[n][i]
  <2>1. c \in Issued(n)
    BY DEF IInv, Queued
  <2>2. ASSUME NEW r \in Run, c = Query(r) PROVE c \in Control
    <3>1. Origin[r] \in Node
      BY PlacementAssumption, Zenon
    <3>2. Query(r) \in Control
      BY <3>1 DEF Query, Control
    <3> QED BY <2>2, <3>2, Zenon
  <2>3. ASSUME NEW r \in Run, NEW j \in 1..sent[r], c = Apply(r, j) PROVE c \in Control
    <3>1. Selected(r)[j] \in Node
      BY TurnedToNode, Zenon DEF Shaped
    <3>2. Apply(r, j) \in Control
      BY <3>1 DEF Apply, Control
    <3> QED BY <2>3, <3>2, Zenon
  <2> HIDE DEF c
  <2>4. c \in Control
    BY <2>1, <2>2, <2>3 DEF Issued
  <2> QED BY <2>4, Zenon DEF c
<1>2. \A r \in Run : \A i \in DOMAIN responders[r] : responders[r][i] \in Node
  <2>1. ASSUME NEW s \in Seq(Node) PROVE \A i \in DOMAIN s : s[i] \in Node
    OBVIOUS
  <2> QED BY <2>1, Zenon DEF IInv, Typed
<1> QED
  BY <1>1, <1>2, Zenon DEF TypeOK, Shaped, Tabled, IsTable, Looping, IInv, Typed

\* Every message, hold and job is well-formed throughout; in particular apply_file
\* never takes a node from beyond the end of its candidates, because it has given
\* up unless there was one for every replica.
THEOREM TypeCorrect == Spec => []TypeOK
BY Invariant, ShapedInit, ShapedStep, ShapedTypes, PTL DEF Spec

=============================================================================
