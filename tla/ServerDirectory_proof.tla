----------------------- MODULE ServerDirectory_proof -----------------------
(***************************************************************************)
(* Proofs about ServerDirectory: type correctness, that at rest a deleted  *)
(* GameServer is forgotten, and that the address of a GameServer or of the *)
(* file, once nothing that passed the test is under way, is kept.          *)
(***************************************************************************)
EXTENDS ServerDirectory, FiniteSetTheorems, SequenceTheorems, TLAPS

Op == {"managed", "config", "dynamic", "remove", "forget"}
CallsOK == calls \in [Proxy -> [Thread -> Seq(Call)]]

(***************************************************************************)
(* The calls of a thread.                                                  *)
(***************************************************************************)
\* A finite set can be listed.
LEMMA SetToSeqType ==
    ASSUME NEW S, IsFiniteSet(S)
    PROVE  SetToSeq(S) \in [1 .. Cardinality(S) -> S] /\ Cardinality(S) \in Nat
<1>1. Cardinality(S) \in Nat /\ ExistsBijection(1 .. Cardinality(S), S)
  BY FS_CardinalityType
<1>2. \E f \in [1 .. Cardinality(S) -> S] : IsInjective(f)
  BY <1>1 DEF ExistsBijection, Bijection, Injection
<1> QED  BY <1>1, <1>2 DEF SetToSeq

LEMMA NewType ==
    ASSUME NEW op \in Op, NEW s \in Server
    PROVE  New(op, s) \in Call
BY DEF New, Op, Call, Stage, Address

LEMMA NewAllType ==
    ASSUME NEW op \in Op, NEW S \in SUBSET Server
    PROVE  NewAll(op, S) \in Seq(Call)
<1>1. IsFiniteSet(S)
  BY ServerAssumption, FS_Subset
<1> DEFINE n == Cardinality(S)
           names == SetToSeq(S)
<1>2. n \in Nat /\ names \in [1 .. n -> S]
  BY <1>1, SetToSeqType
<1>3. NewAll(op, S) = [i \in 1 .. n |-> New(op, names[i])]
  BY <1>2 DEF NewAll
<1>4. \A i \in 1 .. n : New(op, names[i]) \in Call
  BY <1>2, NewType
<1>5. [i \in 1 .. n |-> New(op, names[i])] \in [1 .. n -> Call]
  BY <1>4
<1> HIDE DEF n, names
<1> QED  BY <1>2, <1>3, <1>5, SeqDef

LEMMA AddType ==
    ASSUME CallsOK, NEW x \in Proxy, NEW t \in Thread, NEW new \in Seq(Call), Add(x, t, new)
    PROVE  CallsOK'
<1>1. calls[x][t] \o new \in Seq(Call)
  BY ConcatProperties DEF CallsOK
<1> QED  BY <1>1 DEF CallsOK, Add

LEMMA FirstCall ==
    ASSUME CallsOK, NEW x \in Proxy, NEW t \in Thread, ~Idle(x, t)
    PROVE  /\ calls[x][t][1] \in Call
           /\ 1 \in 1 .. Len(calls[x][t])
           /\ Tail(calls[x][t]) \in Seq(Call)
<1>1. calls[x][t] \in Seq(Call) /\ calls[x][t] # <<>>
  BY DEF CallsOK, Idle
<1>2. Len(calls[x][t]) \in Nat /\ Len(calls[x][t]) # 0
  BY <1>1, EmptySeq, LenProperties
<1>3. calls[x][t][1] \in Call
  BY <1>1, <1>2, ElementOfSeq
<1> QED  BY <1>1, <1>2, <1>3, HeadTailProperties

LEMMA ReturnType ==
    ASSUME CallsOK, NEW x \in Proxy, NEW t \in Thread, ~Idle(x, t), Return(x, t)
    PROVE  CallsOK'
BY FirstCall DEF CallsOK, Return

\* A call that goes on is still a call.
LEMMA ReplaceFirst ==
    ASSUME CallsOK, NEW x \in Proxy, NEW t \in Thread, ~Idle(x, t), NEW c \in Call,
           calls' = [calls EXCEPT ![x][t] = [@ EXCEPT ![1] = c]]
    PROVE  CallsOK'
<1>1. [calls[x][t] EXCEPT ![1] = c] \in Seq(Call)
  BY FirstCall, ExceptSeq DEF CallsOK
<1> QED  BY <1>1 DEF CallsOK

LEMMA GotoType ==
    ASSUME CallsOK, NEW x \in Proxy, NEW t \in Thread, ~Idle(x, t), NEW stage \in Stage,
           Goto(x, t, stage)
    PROVE  CallsOK'
<1> DEFINE c == [calls[x][t][1] EXCEPT !.stage = stage]
<1>1. c \in Call
  BY FirstCall DEF Call
<1>2. calls' = [calls EXCEPT ![x][t] = [@ EXCEPT ![1] = c]]
  BY DEF Goto
<1> QED  BY <1>1, <1>2, ReplaceFirst

\* ... also when it has found an address.
LEMMA GotoLinkType ==
    ASSUME CallsOK, NEW x \in Proxy, NEW t \in Thread, ~Idle(x, t),
           NEW address \in Address, GotoLink(x, t, address)
    PROVE  CallsOK'
<1> DEFINE c == [calls[x][t][1] EXCEPT !.stage = "link", !.address = address]
<1>1. c \in Call
  BY FirstCall DEF Call, Stage
<1>2. calls' = [calls EXCEPT ![x][t] = [@ EXCEPT ![1] = c]]
  BY DEF GotoLink
<1> HIDE DEF c
<1> QED  BY <1>1, <1>2, ReplaceFirst

(***************************************************************************)
(* One lemma per group of actions.                                         *)
(***************************************************************************)
LEMMA ClaimType ==
    ASSUME TypeOK, NEW x \in Proxy, NEW t \in Thread, Claim(x, t)
    PROVE  TypeOK'
<1> DEFINE c == calls[x][t][1]
<1>1. CallsOK /\ ~Idle(x, t)
  BY DEF TypeOK, CallsOK, Claim, At
<1>2. c \in Call /\ c.op \in Address
  BY <1>1, FirstCall DEF Claim, At, Address, Source
<1>3. CallsOK'
  BY <1>1, <1>2, GotoLinkType DEF Claim
<1>4. authoritative' \in [Proxy -> SUBSET Server]
  <2>1. c.server \in Server
    BY <1>2 DEF Call
  <2> QED  BY <2>1 DEF Claim, TypeOK
<1> QED  BY <1>3, <1>4 DEF Claim, TypeOK, CallsOK, cluster, kube, api

LEMMA LinkType ==
    ASSUME TypeOK, NEW x \in Proxy, NEW t \in Thread,
           Link(x, t) \/ AddToProxy(x, t) \/ AddFails(x, t)
    PROVE  TypeOK'
<1> DEFINE c == calls[x][t][1]
<1>1. CallsOK /\ ~Idle(x, t)
  BY DEF TypeOK, CallsOK, Link, AddToProxy, AddFails, At
<1>2. c.server \in Server /\ c.address \in Address
  BY <1>1, FirstCall DEF Call
<1>3. CallsOK'
  BY <1>1, GotoType, ReturnType DEF Link, AddToProxy, AddFails, Stage
<1>4. backend' \in [Proxy -> [Server -> Address]]
  <2>1. backend' = backend \/ backend' = [backend EXCEPT ![x][c.server] = c.address]
    BY DEF Link, AddToProxy, AddFails, directory
  <2>2. backend \in [Proxy -> [Server -> Address]]
    BY DEF TypeOK
  <2> HIDE DEF c
  <2> QED  BY <1>2, <2>1, <2>2
<1> QED  BY <1>3, <1>4 DEF Link, AddToProxy, AddFails, TypeOK, CallsOK, cluster, directory, kube, api

LEMMA DisclaimType ==
    ASSUME TypeOK, NEW x \in Proxy, NEW t \in Thread, Disclaim(x, t)
    PROVE  TypeOK'
<1>1. CallsOK /\ ~Idle(x, t)
  BY DEF TypeOK, CallsOK, Disclaim, At
<1>2. CallsOK'
  BY <1>1, GotoType DEF Disclaim, Stage
<1>3. authoritative' \in [Proxy -> SUBSET Server]
  BY DEF Disclaim, TypeOK
<1> QED  BY <1>2, <1>3 DEF Disclaim, TypeOK, CallsOK, cluster, kube, api

LEMMA UnlinkType ==
    ASSUME TypeOK, NEW x \in Proxy, NEW t \in Thread, Unlink(x, t)
    PROVE  TypeOK'
<1>1. CallsOK /\ ~Idle(x, t)
  BY DEF TypeOK, CallsOK, Unlink, At
<1>2. CallsOK'
  BY <1>1, GotoType DEF Unlink, Stage
<1>3. backend' \in [Proxy -> [Server -> Address]]
  BY DEF Unlink, TypeOK, Address
<1> QED  BY <1>2, <1>3 DEF Unlink, TypeOK, CallsOK, cluster, kube, api

LEMMA DynamicType ==
    ASSUME TypeOK, NEW x \in Proxy, NEW t \in Thread,
           ReceiveDynamic(x, t) \/ LookupDynamic(x, t)
    PROVE  TypeOK'
<1>1. CallsOK /\ ~Idle(x, t)
  BY DEF TypeOK, CallsOK, ReceiveDynamic, LookupDynamic, At
<1>2. CallsOK'
  <2>1. CASE ReceiveDynamic(x, t)
    BY <1>1, <2>1, ReturnType, GotoType DEF ReceiveDynamic, Stage
  <2>2. CASE LookupDynamic(x, t)
    <3> DEFINE s == calls[x][t][1].server
    <3>1. s \in Server
      BY <1>1, FirstCall DEF Call
    <3>2. CASE info[s] = None \/ info[s].address = None
      BY <1>1, <2>2, <3>2, ReturnType DEF LookupDynamic
    <3>3. CASE info[s] # None /\ info[s].address # None
      <4>1. info[s].address \in Address
        BY <3>1, <3>3 DEF TypeOK, Info
      <4> QED  BY <1>1, <2>2, <3>3, <4>1, GotoLinkType DEF LookupDynamic
    <3> QED  BY <3>2, <3>3
  <2> QED  BY <2>1, <2>2
<1> QED  BY <1>2 DEF ReceiveDynamic, LookupDynamic, TypeOK, CallsOK, cluster, directory,
                     kube, api

LEMMA CacheType ==
    ASSUME TypeOK, NEW x \in Proxy, NEW t \in Thread,
           CacheRead(x, t) \/ CacheWrite(x, t) \/ CacheErase(x, t)
    PROVE  TypeOK'
<1> DEFINE c == calls[x][t][1]
<1>1. CallsOK /\ ~Idle(x, t)
  BY DEF TypeOK, CallsOK, CacheRead, CacheWrite, CacheErase, At
<1>2. c \in Call
  BY <1>1, FirstCall
<1>3. CallsOK'
  BY <1>1, ReturnType, GotoType DEF CacheRead, CacheWrite, CacheErase, Stage
<1>4. info' \in [Server -> Info \cup {None}]
  <2>1. CASE CacheRead(x, t)
    BY <2>1 DEF CacheRead, cluster, TypeOK
  <2>2. CASE CacheWrite(x, t)
    <3>1. [source |-> c.op, address |-> c.address] \in Info
      BY <1>2, <2>2 DEF CacheWrite, At, Registers, Call, Info, Source
    <3> QED  BY <2>2, <3>1 DEF CacheWrite, TypeOK
  <2>3. CASE CacheErase(x, t)
    BY <2>3 DEF CacheErase, TypeOK
  <2> QED  BY <2>1, <2>2, <2>3
<1> QED  BY <1>3, <1>4 DEF CacheRead, CacheWrite, CacheErase, TypeOK, CallsOK, world,
                           cluster, directory, kube, api

LEMMA BootType ==
    ASSUME TypeOK, NEW x \in Proxy, Boot(x)
    PROVE  TypeOK'
<1>1. CallsOK
  BY DEF TypeOK, CallsOK
<1>2. CASE ListServers(x)
  <2>1. CallsOK'
    BY <1>1, <1>2, AddType, NewAllType DEF ListServers, Op, Thread
  <2> QED  BY <1>2, <2>1 DEF ListServers, TypeOK, CallsOK, cluster, directory, api
<1>3. CASE StartMonitor(x)
  BY <1>3 DEF StartMonitor, TypeOK, cluster, api
<1>4. CASE ReadFile(x)
  <2>1. CallsOK' /\ external' \in [Proxy -> SUBSET Server]
    <3>1. NewAll("remove", external[x]) \o NewAll("config", file) \in Seq(Call)
      BY NewAllType, ConcatProperties DEF TypeOK, Op
    <3> QED  BY <1>1, <1>4, <3>1, AddType DEF ReadFile, OnExternalServersUpdate, TypeOK, Thread
  <2> QED  BY <1>4, <2>1 DEF ReadFile, TypeOK, CallsOK, cluster, api
<1>5. CASE Subscribe(x)
  BY <1>5 DEF Subscribe, TypeOK, cluster, directory, api
<1>6. CASE ListDynamic(x)
  <2>1. CallsOK'
    BY <1>1, <1>6, AddType, NewAllType DEF ListDynamic, Op, Thread
  <2> QED  BY <1>6, <2>1 DEF ListDynamic, TypeOK, CallsOK, cluster, directory, api
<1> QED  BY <1>2, <1>3, <1>4, <1>5, <1>6 DEF Boot

LEMMA EventType ==
    ASSUME TypeOK, NEW x \in Proxy,
           FileEvent(x) \/ \E s \in Server : InformerEvent(x, s) \/ Resync(x, s)
    PROVE  TypeOK'
<1>1. CallsOK
  BY DEF TypeOK, CallsOK
<1>2. \A s \in Server : \A phase : Reaction(s, phase) \in Seq(Call)
  BY NewType DEF Reaction, Op
<1>3. CASE FileEvent(x)
  <2>1. CallsOK' /\ external' \in [Proxy -> SUBSET Server]
    <3>1. NewAll("remove", external[x]) \o NewAll("config", file) \in Seq(Call)
      BY NewAllType, ConcatProperties DEF TypeOK, Op
    <3> QED  BY <1>1, <1>3, <3>1, AddType DEF FileEvent, OnExternalServersUpdate, TypeOK, Thread
  <2> QED  BY <1>3, <2>1 DEF FileEvent, TypeOK, CallsOK, cluster, kube, api
<1>4. ASSUME NEW s \in Server, InformerEvent(x, s)
      PROVE  TypeOK'
  <2>1. CallsOK'
    BY <1>1, <1>2, <1>4, AddType DEF InformerEvent, Thread
  <2>2. seen' \in [Proxy -> [Server -> Phase]]
    BY <1>4 DEF InformerEvent, TypeOK
  <2> QED  BY <1>4, <2>1, <2>2 DEF InformerEvent, TypeOK, CallsOK, cluster, directory, api
<1>5. ASSUME NEW s \in Server, Resync(x, s)
      PROVE  TypeOK'
  <2>1. CallsOK'
    BY <1>1, <1>2, <1>5, AddType DEF Resync, Thread
  <2> QED  BY <1>5, <2>1 DEF Resync, TypeOK, CallsOK, cluster, directory, kube, api
<1> QED  BY <1>3, <1>4, <1>5

LEMMA ServerLifeType ==
    ASSUME TypeOK, NEW s \in Server, ServerLife(s) \/ EditFile(s)
    PROVE  TypeOK'
<1>1. CASE Starts(s) \/ SetReady(s) \/ Deleted(s)
  BY <1>1 DEF Starts, SetReady, Deleted, Advance, TypeOK, Phase, directory, kube, api
<1>2. CASE RegisterSelfInCache(s)
  <2>1. info' \in [Server -> Info \cup {None}]
    <3>1. [source |-> "managed",
           address |-> IF info[s] = None THEN None ELSE info[s].address] \in Info
      BY DEF TypeOK, Info, Source, Address
    <3> QED  BY <1>2, <3>1 DEF RegisterSelfInCache, TypeOK
  <2> QED  BY <1>2, <2>1 DEF RegisterSelfInCache, Advance, TypeOK, Phase, directory, kube, api
<1>3. CASE AgentShutdown(s)
  BY <1>3 DEF AgentShutdown, Advance, TypeOK, Phase, directory, kube, api
<1>4. CASE EditFile(s)
  BY <1>4, BoundAssumption DEF EditFile, TypeOK, directory, kube
<1> QED  BY <1>1, <1>2, <1>3, <1>4 DEF ServerLife

LEMMA ClientType ==
    ASSUME TypeOK, NEW k \in Client,
           \/ \E s \in Server : RegisterExternalServer(k, s) \/ UnregisterExternalServer(k, s)
           \/ ClientStep(k)
    PROVE  TypeOK'
<1>1. ASSUME NEW s \in Server, RegisterExternalServer(k, s) \/ UnregisterExternalServer(k, s)
      PROVE  TypeOK'
  <2>1. made' \in 0 .. MaxCalls
    BY <1>1, BoundAssumption DEF RegisterExternalServer, UnregisterExternalServer, TypeOK
  <2>2. client' \in [Client -> Request \cup {None}]
    <3> DEFINE register == [op |-> "register", server |-> s, stage |-> "read"]
               unregister == [op |-> "unregister", server |-> s, stage |-> "erase"]
    <3>1. register \in Request /\ unregister \in Request
      BY DEF Request
    <3>2. \/ client' = client
          \/ client' = [client EXCEPT ![k] = register]
          \/ client' = [client EXCEPT ![k] = unregister]
      BY <1>1 DEF RegisterExternalServer, UnregisterExternalServer
    <3> HIDE DEF register, unregister
    <3> QED  BY <3>1, <3>2 DEF TypeOK
  <2> QED  BY <1>1, <2>1, <2>2 DEF RegisterExternalServer, UnregisterExternalServer,
                                   TypeOK, cluster, directory, kube
<1>2. ASSUME client[k] # None, NEW stage \in {"write", "publish"}, ClientGoes(k, stage)
      PROVE  client' \in [Client -> Request \cup {None}]
  <2>1. [client[k] EXCEPT !.stage = stage] \in Request
    BY <1>2 DEF TypeOK, Request
  <2> QED  BY <1>2, <2>1 DEF ClientGoes, TypeOK
<1>3. CASE ClientRead(k)
  BY <1>2, <1>3 DEF ClientRead, ClientAt, TypeOK, cluster, directory, kube
<1>4. CASE ClientWrite(k)
  <2>1. info' \in [Server -> Info \cup {None}]
    <3>1. [source |-> "dynamic", address |-> "dynamic"] \in Info
      BY DEF Info, Source, Address
    <3> QED  BY <1>4, <3>1 DEF ClientWrite, TypeOK
  <2> QED  BY <1>2, <1>4, <2>1 DEF ClientWrite, ClientAt, TypeOK, world, directory, kube
<1>5. CASE ClientErase(k)
  <2>1. info' \in [Server -> Info \cup {None}]
    BY <1>5 DEF ClientErase, TypeOK
  <2> QED  BY <1>2, <1>5, <2>1 DEF ClientErase, ClientAt, TypeOK, world, directory, kube
<1>6. ASSUME NEW D \in SUBSET Proxy, Publish(k, D)
      PROVE  TypeOK'
  <2> DEFINE t == client[k].op
             message == New(IF t = "register" THEN "dynamic" ELSE "forget", client[k].server)
  <2>1. client[k] \in Request
    BY <1>6 DEF Publish, ClientAt, TypeOK
  <2>2. t \in Thread /\ message \in Call
    BY <2>1, NewType DEF Request, Thread, Op
  <2>3. ASSUME NEW x \in Proxy
        PROVE  [calls[x] EXCEPT ![t] = Append(@, message)] \in [Thread -> Seq(Call)]
    BY <2>2, AppendProperties DEF TypeOK
  <2>4. calls' \in [Proxy -> [Thread -> Seq(Call)]]
    <3> HIDE DEF message, t
    <3>1. calls' = [x \in Proxy |-> IF x \in D
                                    THEN [calls[x] EXCEPT ![t] = Append(@, message)]
                                    ELSE calls[x]]
      BY <1>6 DEF Publish, message, t
    <3> QED  BY <2>3, <3>1 DEF TypeOK
  <2>5. client' \in [Client -> Request \cup {None}]
    BY <1>6 DEF Publish, TypeOK
  <2> QED  BY <1>6, <2>4, <2>5 DEF Publish, TypeOK, cluster, directory, kube
<1> QED  BY <1>1, <1>3, <1>4, <1>5, <1>6 DEF ClientStep

\* Every variable of ServerDirectory keeps its type: in particular the calls of a
\* thread are a sequence whose first element knows where it stands.
THEOREM DirectoryTypeCorrect == Spec => []TypeOK
<1>1. Init => TypeOK
  <2> SUFFICES ASSUME Init PROVE TypeOK
    OBVIOUS
  <2>1. <<>> \in Seq(Call)
    OBVIOUS
  <2> QED  BY <2>1, BoundAssumption DEF Init, TypeOK, Phase, Address
<1>2. TypeOK /\ [Next]_vars => TypeOK'
  <2> SUFFICES ASSUME TypeOK, [Next]_vars PROVE TypeOK'
    OBVIOUS
  <2>1. ASSUME NEW x \in Proxy, NEW t \in Thread, ThreadStep(x, t)
        PROVE  TypeOK'
    BY <2>1, ClaimType, LinkType, DisclaimType, UnlinkType, DynamicType, CacheType
       DEF ThreadStep
  <2>2. CASE UNCHANGED vars
    BY <2>2 DEF vars, TypeOK
  <2> QED  BY <2>1, <2>2, BootType, EventType, ServerLifeType, ClientType DEF Next
<1> QED  BY <1>1, <1>2, PTL DEF Spec

(***************************************************************************)
(* DeletedForgotten.  What is still to be done for a name is in the queues *)
(* of the threads; an informer has one call at a time.                     *)
(***************************************************************************)
Has(x, t, op, s) ==
    \E i \in 1 .. Len(calls[x][t]) : calls[x][t][i].op = op /\ calls[x][t][i].server = s

\* A directory that is off knows nothing, and nobody sees an end before it comes.
StartsEmpty ==
    /\ \A x \in Proxy : boot[x] = "off" =>
          /\ \A t \in Thread : calls[x][t] = <<>>
          /\ \A s \in Server : seen[x][s] = "none" /\ backend[x][s] = None
    /\ \A x \in Proxy, s \in Server : seen[x][s] = "gone" => gameServer[s] = "gone"
    /\ \A x \in Proxy : Len(calls[x]["informer"]) <= 1

\* A name that neither the API nor the file has used is a matter of informers, and
\* of the main thread as long as it registers the GameServers it has listed.
OnlyManaged(s) ==
    /\ s \notin file /\ \A x \in Proxy : s \notin external[x]
    /\ \A k \in Client : client[k] # None => client[k].server # s
    /\ info[s] # None => info[s].source = "managed"
    /\ \A x \in Proxy, op \in Op :
          /\ \A t \in {"file", "register", "unregister"} : ~Has(x, t, op, s)
          /\ Has(x, "main", op, s) => op = "managed"
          /\ Has(x, "informer", op, s) => op \in {"managed", "remove"}

\* After the end of a GameServer each proxy that knows it, and some proxy for the
\* cache, has still to see the end or to make the call that removes it.
Forgetting(s) ==
    /\ \A x \in Proxy :
          /\ \A op \in Op : ~Has(x, "main", op, s)
          /\ seen[x][s] = "none" =>
                backend[x][s] = None /\ \A op \in Op : ~Has(x, "informer", op, s)
          /\ seen[x][s] = "gone" =>
                /\ ~Has(x, "informer", "managed", s)
                /\ backend[x][s] # None => /\ Has(x, "informer", "remove", s)
                                           /\ calls[x]["informer"][1].stage \in {"start", "unlink"}
    /\ info[s] # None =>
          \E x \in Proxy : seen[x][s] \notin {"none", "gone"} \/ Has(x, "informer", "remove", s)

ForgetInv ==
    /\ StartsEmpty
    /\ \A s \in Server \ used : OnlyManaged(s)
    /\ \A s \in Server \ (used \cup ghosts) : gameServer[s] = "gone" => Forgetting(s)

\* What the steps of a thread, and those that give it more to do, leave of the queues.
OthersKeep(x, t) ==
    \A y \in Proxy, u \in Thread : y # x \/ u # t => calls'[y][u] = calls[y][u]
Nothing(x, t) == \A op \in Op, s \in Server : Has(x, t, op, s)' => Has(x, t, op, s)

LEMMA HeadHas ==
    ASSUME CallsOK, NEW x \in Proxy, NEW t \in Thread, ~Idle(x, t)
    PROVE  /\ calls[x][t][1] \in Call
           /\ Len(calls[x][t]) \in Nat /\ Len(calls[x][t]) >= 1
           /\ Has(x, t, calls[x][t][1].op, calls[x][t][1].server)
<1>1. calls[x][t][1] \in Call /\ 1 \in 1 .. Len(calls[x][t])
  BY FirstCall
<1>2. Len(calls[x][t]) \in Nat
  BY LenProperties DEF CallsOK
<1> QED  BY <1>1, <1>2 DEF Has

LEMMA ReturnQueue ==
    ASSUME CallsOK, NEW x \in Proxy, NEW t \in Thread, ~Idle(x, t), Return(x, t)
    PROVE  OthersKeep(x, t) /\ Nothing(x, t) /\ Len(calls'[x][t]) = Len(calls[x][t]) - 1
<1> DEFINE q == calls[x][t]
<1>1. q \in Seq(Call) /\ q # <<>> /\ Len(q) \in Nat /\ Len(q) >= 1
  BY HeadHas DEF CallsOK, Idle
<1>2. calls'[x][t] = Tail(q) /\ OthersKeep(x, t)
  BY DEF Return, OthersKeep, CallsOK
<1>3. /\ Len(Tail(q)) = Len(q) - 1
      /\ \A i \in 1 .. Len(Tail(q)) : Tail(q)[i] = q[i + 1] /\ i + 1 \in 1 .. Len(q)
  BY <1>1
<1>4. Nothing(x, t)
  BY <1>2, <1>3 DEF Nothing, Has
<1> QED  BY <1>2, <1>3, <1>4

LEMMA GoesQueue ==
    ASSUME CallsOK, NEW x \in Proxy, NEW t \in Thread, ~Idle(x, t), NEW c \in Call,
           c.op = calls[x][t][1].op, c.server = calls[x][t][1].server,
           calls' = [calls EXCEPT ![x][t] = [@ EXCEPT ![1] = c]]
    PROVE  /\ OthersKeep(x, t) /\ Nothing(x, t)
           /\ Len(calls'[x][t]) = Len(calls[x][t])
           /\ calls'[x][t][1] = c
           /\ \A op \in Op, s \in Server : c.op = op /\ c.server = s => Has(x, t, op, s)'
<1> DEFINE q == calls[x][t]
<1>1. q \in Seq(Call) /\ Len(q) \in Nat /\ Len(q) >= 1
  BY HeadHas DEF CallsOK
<1>2. calls'[x][t] = [q EXCEPT ![1] = c] /\ OthersKeep(x, t)
  BY DEF OthersKeep, CallsOK
<1>3. Len([q EXCEPT ![1] = c]) = Len(q)
  BY <1>1, ExceptSeq
<1>4. \A i \in 1 .. Len(q) : [q EXCEPT ![1] = c][i] = IF i = 1 THEN c ELSE q[i]
  BY <1>1, ExceptSeq
<1>5. Nothing(x, t)
  BY <1>1, <1>2, <1>3, <1>4 DEF Nothing, Has
<1> QED  BY <1>1, <1>2, <1>3, <1>4, <1>5 DEF Has

LEMMA GoesHead ==
    ASSUME CallsOK, NEW x \in Proxy, NEW t \in Thread, ~Idle(x, t), NEW c \in Call,
           calls' = [calls EXCEPT ![x][t] = [@ EXCEPT ![1] = c]]
    PROVE  calls'[x][t][1] = c
<1> DEFINE q == calls[x][t]
<1>1. q \in Seq(Call) /\ Len(q) \in Nat /\ Len(q) >= 1
  BY HeadHas DEF CallsOK
<1>2. calls'[x][t] = [q EXCEPT ![1] = c]
  BY DEF CallsOK
<1>3. [q EXCEPT ![1] = c][1] = c
  BY <1>1, ExceptSeq
<1> QED  BY <1>2, <1>3

LEMMA GotoQueue ==
    ASSUME CallsOK, NEW x \in Proxy, NEW t \in Thread, ~Idle(x, t), NEW stage \in Stage,
           Goto(x, t, stage)
    PROVE  /\ OthersKeep(x, t) /\ Nothing(x, t)
           /\ Len(calls'[x][t]) = Len(calls[x][t])
           /\ calls'[x][t][1].stage = stage
           /\ \A op \in Op, s \in Server :
                 calls[x][t][1].op = op /\ calls[x][t][1].server = s => Has(x, t, op, s)'
<1> DEFINE c == [calls[x][t][1] EXCEPT !.stage = stage]
<1>1. c \in Call /\ c.op = calls[x][t][1].op /\ c.server = calls[x][t][1].server /\ c.stage = stage
  BY FirstCall DEF Call
<1>2. calls' = [calls EXCEPT ![x][t] = [@ EXCEPT ![1] = c]]
  BY DEF Goto
<1> HIDE DEF c
<1>3. /\ OthersKeep(x, t) /\ Nothing(x, t) /\ Len(calls'[x][t]) = Len(calls[x][t])
      /\ calls'[x][t][1] = c
      /\ \A op \in Op, s \in Server : c.op = op /\ c.server = s => Has(x, t, op, s)'
  BY <1>1, <1>2, GoesQueue
<1> QED  BY <1>1, <1>3

LEMMA GotoLinkQueue ==
    ASSUME CallsOK, NEW x \in Proxy, NEW t \in Thread, ~Idle(x, t), NEW address \in Address,
           GotoLink(x, t, address)
    PROVE  /\ OthersKeep(x, t) /\ Nothing(x, t)
           /\ Len(calls'[x][t]) = Len(calls[x][t])
<1> DEFINE c == [calls[x][t][1] EXCEPT !.stage = "link", !.address = address]
<1>1. c \in Call /\ c.op = calls[x][t][1].op /\ c.server = calls[x][t][1].server
  BY FirstCall DEF Call, Stage
<1>2. calls' = [calls EXCEPT ![x][t] = [@ EXCEPT ![1] = c]]
  BY DEF GotoLink
<1> HIDE DEF c
<1> QED  BY <1>1, <1>2, GoesQueue

LEMMA NewAllHas ==
    ASSUME NEW op \in Op, NEW S \in SUBSET Server
    PROVE  \A i \in 1 .. Len(NewAll(op, S)) :
              /\ NewAll(op, S)[i].op = op /\ NewAll(op, S)[i].server \in S
              /\ NewAll(op, S)[i].stage = "start"
<1>1. IsFiniteSet(S)
  BY ServerAssumption, FS_Subset
<1> DEFINE n == Cardinality(S)
           names == SetToSeq(S)
<1>2. n \in Nat /\ names \in [1 .. n -> S]
  BY <1>1, SetToSeqType
<1> DEFINE new == [i \in 1 .. n |-> New(op, names[i])]
<1>3. NewAll(op, S) = new
  BY <1>2 DEF NewAll
<1>4. \A i \in 1 .. n : new[i].op = op /\ new[i].server \in S /\ new[i].stage = "start"
  BY <1>2 DEF New
<1>5. Len(new) = n
  <2>1. new \in Seq(Call) /\ DOMAIN new = 1 .. n
    BY <1>3, NewAllType
  <2> QED  BY <1>2, <2>1, LenProperties
<1> HIDE DEF new
<1> QED  BY <1>3, <1>4, <1>5

LEMMA AddQueue ==
    ASSUME CallsOK, NEW x \in Proxy, NEW t \in Thread, NEW new \in Seq(Call), Add(x, t, new)
    PROVE  /\ OthersKeep(x, t)
           /\ Len(calls'[x][t]) = Len(calls[x][t]) + Len(new)
           /\ \A op \in Op, s \in Server : Has(x, t, op, s)' =>
                 \/ Has(x, t, op, s)
                 \/ \E i \in 1 .. Len(new) : new[i].op = op /\ new[i].server = s
<1> DEFINE q == calls[x][t]
<1>1. q \in Seq(Call) /\ Len(q) \in Nat /\ Len(new) \in Nat
  BY LenProperties DEF CallsOK
<1>2. calls'[x][t] = q \o new /\ OthersKeep(x, t)
  BY DEF Add, OthersKeep, CallsOK
<1>3. /\ Len(q \o new) = Len(q) + Len(new)
      /\ \A i \in 1 .. Len(q \o new) : (q \o new)[i] = IF i <= Len(q) THEN q[i] ELSE new[i - Len(q)]
  BY <1>1, ConcatProperties
<1>4. \A i \in 1 .. Len(q \o new) : i <= Len(q) \/ i - Len(q) \in 1 .. Len(new)
  BY <1>1, <1>3
<1>5. ASSUME NEW op \in Op, NEW s \in Server, Has(x, t, op, s)'
      PROVE  \/ Has(x, t, op, s)
             \/ \E i \in 1 .. Len(new) : new[i].op = op /\ new[i].server = s
  <2>1. PICK i \in 1 .. Len(q \o new) : (q \o new)[i].op = op /\ (q \o new)[i].server = s
    BY <1>2, <1>5 DEF Has
  <2>2. CASE i <= Len(q)
    BY <1>1, <1>3, <2>1, <2>2 DEF Has
  <2>3. CASE ~(i <= Len(q))
    BY <1>1, <1>3, <1>4, <2>1, <2>3
  <2> QED  BY <2>2, <2>3
<1> QED  BY <1>2, <1>3, <1>5

(***************************************************************************)
(* The steps of a thread: at most the name of its first call is affected.  *)
(***************************************************************************)
LEMMA ThreadActive ==
    ASSUME TypeOK, NEW x \in Proxy, NEW t \in Thread, ThreadStep(x, t)
    PROVE  /\ CallsOK /\ ~Idle(x, t) /\ calls[x][t][1] \in Call
           /\ UNCHANGED <<gameServer, file, external, seen, boot, client, used, ghosts>>
<1>1. CallsOK /\ ~Idle(x, t)
  BY DEF TypeOK, CallsOK, ThreadStep, Claim, Link, AddToProxy, AddFails, Disclaim, Unlink, ReceiveDynamic,
         LookupDynamic, CacheRead, CacheWrite, CacheErase, At
<1>2. UNCHANGED <<gameServer, file, external, seen, boot, client, used, ghosts>>
  BY DEF ThreadStep, Claim, Link, AddToProxy, AddFails, Disclaim, Unlink, ReceiveDynamic, LookupDynamic, CacheRead,
         CacheWrite, CacheErase, cluster, world, directory, kube, api
<1> QED  BY <1>1, <1>2, FirstCall

LEMMA ThreadQueue ==
    ASSUME TypeOK, NEW x \in Proxy, NEW t \in Thread, ThreadStep(x, t)
    PROVE  OthersKeep(x, t) /\ Nothing(x, t) /\ Len(calls'[x][t]) <= Len(calls[x][t])
<1> DEFINE c == calls[x][t][1]
<1>1. CallsOK /\ ~Idle(x, t) /\ c \in Call
  BY ThreadActive
<1>2. Len(calls[x][t]) \in Nat
  BY <1>1, HeadHas
<1>3. \/ Return(x, t)
      \/ \E stage \in Stage : Goto(x, t, stage)
      \/ \E address \in Address : GotoLink(x, t, address)
  <2>1. CASE Claim(x, t)
    BY <1>1, <2>1 DEF Claim, At, Address, Source
  <2>2. CASE LookupDynamic(x, t)
    <3>1. CASE info[c.server] = None \/ info[c.server].address = None
      BY <2>2, <3>1 DEF LookupDynamic
    <3>2. CASE ~(info[c.server] = None \/ info[c.server].address = None)
      <4>1. info[c.server].address \in Address
        BY <1>1, <3>2 DEF TypeOK, Info, Call
      <4> QED  BY <2>2, <3>2, <4>1 DEF LookupDynamic
    <3> QED  BY <3>1, <3>2
  <2>3. CASE \/ Link(x, t) \/ AddToProxy(x, t) \/ Disclaim(x, t) \/ Unlink(x, t)
            \/ CacheWrite(x, t) \/ CacheErase(x, t)
    BY <2>3 DEF Link, AddToProxy, Disclaim, Unlink, CacheWrite, CacheErase, Stage
  <2>4. CASE ReceiveDynamic(x, t) \/ AddFails(x, t) \/ CacheRead(x, t)
    BY <2>4 DEF ReceiveDynamic, AddFails, CacheRead, Stage
  <2> QED  BY <2>1, <2>2, <2>3, <2>4 DEF ThreadStep
<1> QED  BY <1>1, <1>2, <1>3, ReturnQueue, GotoQueue, GotoLinkQueue

LEMMA ThreadEffect ==
    ASSUME TypeOK, NEW x \in Proxy, NEW t \in Thread, ThreadStep(x, t)
    PROVE  LET c == calls[x][t][1]
           IN  /\ \A s \in Server \ {c.server} : info'[s] = info[s]
               /\ \/ info'[c.server] \in {info[c.server], None}
                  \/ c.op \in Registers /\ info'[c.server].source = c.op
               /\ \A y \in Proxy, s \in Server :
                     y # x \/ s # c.server => backend'[y][s] = backend[y][s]
<1> DEFINE c == calls[x][t][1]
<1>1. c \in Call
  BY ThreadActive
<1>2. \/ info' = info
      \/ info' = [info EXCEPT ![c.server] = None]
      \/ c.op \in Registers
         /\ info' = [info EXCEPT ![c.server] = [source |-> c.op, address |-> c.address]]
  BY DEF ThreadStep, Claim, Link, AddToProxy, AddFails, Disclaim, Unlink, ReceiveDynamic,
         LookupDynamic, CacheRead, CacheWrite, CacheErase, cluster, At
<1>3. \/ backend' = backend
      \/ backend' = [backend EXCEPT ![x][c.server] = None]
      \/ backend' = [backend EXCEPT ![x][c.server] = c.address]
  BY DEF ThreadStep, Claim, Link, AddToProxy, AddFails, Disclaim, Unlink, ReceiveDynamic,
         LookupDynamic, CacheRead, CacheWrite, CacheErase, directory
<1>4. \A y \in Proxy, s \in Server : y # x \/ s # c.server => backend'[y][s] = backend[y][s]
  BY <1>3 DEF TypeOK
<1>5. \/ info'[c.server] \in {info[c.server], None}
      \/ c.op \in Registers /\ info'[c.server].source = c.op
  BY <1>1, <1>2 DEF TypeOK, Call
<1>6. \A s \in Server \ {c.server} : info'[s] = info[s]
  BY <1>1, <1>2 DEF TypeOK, Call
<1> QED  BY <1>4, <1>5, <1>6

\* A call that removes a name takes it from the proxy before it takes it from the cache.
LEMMA RemoveEffect ==
    ASSUME TypeOK, NEW x \in Proxy, NEW t \in Thread, ThreadStep(x, t), NEW s \in Server,
           calls[x][t][1].op = "remove", calls[x][t][1].server = s
    PROVE  \/ /\ Has(x, t, "remove", s)' /\ info' = info
              /\ \/ backend'[x][s] = None
                 \/ /\ calls[x][t][1].stage = "start" /\ backend' = backend
                    /\ calls'[x][t][1].stage = "unlink"
           \/ calls[x][t][1].stage = "erase" /\ backend' = backend /\ info'[s] = None
<1>1. CallsOK /\ ~Idle(x, t)
  BY ThreadActive
<1>2. Disclaim(x, t) \/ Unlink(x, t) \/ CacheErase(x, t)
  BY DEF ThreadStep, Claim, Link, AddToProxy, AddFails, ReceiveDynamic, LookupDynamic, CacheRead, CacheWrite, At,
         Registers
<1>3. CASE Disclaim(x, t)
  BY <1>1, <1>3, GotoQueue DEF Disclaim, At, cluster, Stage, Op
<1>4. CASE Unlink(x, t)
  <2>1. backend'[x][s] = None
    BY <1>4 DEF Unlink, TypeOK
  <2> QED  BY <1>1, <1>4, <2>1, GotoQueue DEF Unlink, cluster, Stage, Op
<1>5. CASE CacheErase(x, t)
  BY <1>5 DEF CacheErase, At, directory, TypeOK
<1> QED  BY <1>2, <1>3, <1>4, <1>5

\* The queues of other threads are as they were, that of x and t gets no new call.
LEMMA ThreadKeeps ==
    ASSUME TypeOK, NEW x \in Proxy, NEW t \in Thread, ThreadStep(x, t)
    PROVE  \A y \in Proxy, u \in Thread, op \in Op, s \in Server :
              /\ Has(y, u, op, s)' => Has(y, u, op, s)
              /\ y # x \/ u # t => (Has(y, u, op, s)' <=> Has(y, u, op, s))
BY ThreadQueue DEF OthersKeep, Nothing, Has

LEMMA ThreadStarts ==
    ASSUME TypeOK, TypeOK', StartsEmpty, NEW x \in Proxy, NEW t \in Thread, ThreadStep(x, t)
    PROVE  StartsEmpty'
<1>1. /\ calls[x][t] # <<>> /\ UNCHANGED <<gameServer, seen, boot>>
      /\ OthersKeep(x, t) /\ Len(calls'[x][t]) <= Len(calls[x][t])
  BY ThreadActive, ThreadQueue DEF Idle
<1>2. \A y \in Proxy, s \in Server : y # x => backend'[y][s] = backend[y][s]
  BY ThreadEffect
<1>3. boot[x] # "off"
  BY <1>1 DEF StartsEmpty
<1>4. ASSUME NEW y \in Proxy, boot'[y] = "off"
      PROVE  /\ \A u \in Thread : calls'[y][u] = <<>>
             /\ \A s \in Server : seen'[y][s] = "none" /\ backend'[y][s] = None
  BY <1>1, <1>2, <1>3, <1>4 DEF StartsEmpty, OthersKeep
<1>5. ASSUME NEW y \in Proxy
      PROVE  Len(calls'[y]["informer"]) <= 1
  <2>1. calls[y]["informer"] \in Seq(Call) /\ calls'[y]["informer"] \in Seq(Call)
    <3>1. CallsOK /\ CallsOK'
      BY DEF TypeOK, CallsOK
    <3> QED  BY <3>1 DEF CallsOK, Thread
  <2>2. Len(calls[y]["informer"]) \in Nat /\ Len(calls'[y]["informer"]) \in Nat
    BY <2>1, LenProperties
  <2>3. Len(calls'[y]["informer"]) <= Len(calls[y]["informer"])
    BY <1>1, <2>2 DEF OthersKeep, Thread
  <2> QED  BY <2>2, <2>3 DEF StartsEmpty
<1> QED  BY <1>1, <1>4, <1>5 DEF StartsEmpty

LEMMA ThreadManaged ==
    ASSUME TypeOK, NEW x \in Proxy, NEW t \in Thread, ThreadStep(x, t),
           NEW s \in Server, OnlyManaged(s)
    PROVE  OnlyManaged(s)'
<1> DEFINE c == calls[x][t][1]
<1>1. /\ c \in Call /\ Has(x, t, c.op, c.server)
      /\ UNCHANGED <<file, external, client>>
  BY ThreadActive, HeadHas
<1>2. info'[s] # None => info'[s].source = "managed"
  <2>1. CASE s # c.server
    BY <2>1, ThreadEffect DEF OnlyManaged
  <2>2. CASE s = c.server
    <3>1. c.op \in {"managed", "remove"}
      BY <1>1, <2>2 DEF OnlyManaged, Thread, Call, Op
    <3>2. \/ info'[s] \in {info[s], None}
          \/ c.op \in Registers /\ info'[s].source = c.op
      BY <2>2, ThreadEffect
    <3> QED  BY <3>1, <3>2 DEF OnlyManaged, Registers
  <2> QED  BY <2>1, <2>2
<1>3. \A y \in Proxy, u \in Thread, op \in Op : Has(y, u, op, s)' => Has(y, u, op, s)
  BY ThreadKeeps
<1> QED  BY <1>1, <1>2, <1>3 DEF OnlyManaged, Thread

LEMMA OneCall ==
    ASSUME CallsOK, StartsEmpty, NEW x \in Proxy, NEW op \in Op, NEW s \in Server,
           Has(x, "informer", op, s)
    PROVE  /\ ~Idle(x, "informer")
           /\ calls[x]["informer"][1].op = op /\ calls[x]["informer"][1].server = s
<1> DEFINE q == calls[x]["informer"]
<1>1. q \in Seq(Call) /\ Len(q) <= 1
  BY DEF CallsOK, StartsEmpty, Thread
<1>2. Len(q) \in Nat
  BY <1>1, LenProperties
<1>3. PICK i \in 1 .. Len(q) : q[i].op = op /\ q[i].server = s
  BY DEF Has
<1>4. i = 1 /\ q # <<>>
  BY <1>1, <1>2, <1>3, EmptySeq
<1> QED  BY <1>3, <1>4 DEF Idle

\* The step of a thread whose first call is about another name.
LEMMA ElsewhereForgets ==
    ASSUME TypeOK, StartsEmpty, NEW x \in Proxy, NEW t \in Thread, ThreadStep(x, t),
           NEW s \in Server, Forgetting(s), calls[x][t][1].server # s
    PROVE  Forgetting(s)'
<1>1. /\ CallsOK /\ UNCHANGED seen /\ OthersKeep(x, t)
  BY ThreadActive, ThreadQueue
<1>2. info'[s] = info[s] /\ \A y \in Proxy : backend'[y][s] = backend[y][s]
  BY ThreadEffect
<1>3. \A y \in Proxy, u \in Thread, op \in Op : Has(y, u, op, s)' => Has(y, u, op, s)
  BY ThreadKeeps
<1>4. ASSUME NEW y \in Proxy, Has(y, "informer", "remove", s)
      PROVE  Has(y, "informer", "remove", s)' /\ calls'[y]["informer"] = calls[y]["informer"]
  <2>1. y # x \/ "informer" # t
    BY <1>1, <1>4, OneCall DEF Op
  <2>2. calls'[y]["informer"] = calls[y]["informer"]
    BY <1>1, <2>1 DEF OthersKeep, Thread
  <2> QED  BY <1>4, <2>2 DEF Has
<1>5. ASSUME NEW y \in Proxy
      PROVE  /\ \A op \in Op : ~Has(y, "main", op, s)'
             /\ seen'[y][s] = "none" =>
                   backend'[y][s] = None /\ \A op \in Op : ~Has(y, "informer", op, s)'
  BY <1>1, <1>2, <1>3 DEF Forgetting, Thread
<1>6. ASSUME NEW y \in Proxy, seen'[y][s] = "gone"
      PROVE  /\ ~Has(y, "informer", "managed", s)'
             /\ backend'[y][s] # None => /\ Has(y, "informer", "remove", s)'
                                         /\ calls'[y]["informer"][1].stage \in {"start", "unlink"}
  BY <1>1, <1>2, <1>3, <1>4, <1>6 DEF Forgetting, Thread, Op
<1>7. info'[s] # None =>
         \E y \in Proxy : seen'[y][s] \notin {"none", "gone"} \/ Has(y, "informer", "remove", s)'
  BY <1>1, <1>2, <1>4 DEF Forgetting
<1> QED  BY <1>5, <1>6, <1>7 DEF Forgetting

\* ... and of one whose first call is about s: it is an informer, which registers s only
\* as long as it has not seen its end.
LEMMA HereForgets ==
    ASSUME TypeOK, StartsEmpty, NEW x \in Proxy, NEW t \in Thread, ThreadStep(x, t),
           NEW s \in Server, OnlyManaged(s), Forgetting(s), calls[x][t][1].server = s
    PROVE  Forgetting(s)'
<1> DEFINE c == calls[x][t][1]
<1>1. /\ CallsOK /\ UNCHANGED seen /\ OthersKeep(x, t) /\ c \in Call /\ c.op \in Op
      /\ Has(x, t, c.op, s)
  BY ThreadActive, ThreadQueue, HeadHas DEF Call, Op
<1>2. t = "informer" /\ c.op \in {"managed", "remove"}
  BY <1>1 DEF OnlyManaged, Forgetting, Thread
<1>3. \A y \in Proxy \ {x} : /\ backend'[y][s] = backend[y][s]
                             /\ calls'[y]["informer"] = calls[y]["informer"]
  BY <1>1, ThreadEffect DEF OthersKeep, Thread
<1>4. \A y \in Proxy, u \in Thread, op \in Op : Has(y, u, op, s)' => Has(y, u, op, s)
  BY ThreadKeeps
<1>5. seen[x][s] # "none" /\ (c.op = "managed" => seen[x][s] # "gone")
  BY <1>1, <1>2 DEF Forgetting
<1>6. ASSUME NEW y \in Proxy
      PROVE  /\ \A op \in Op : ~Has(y, "main", op, s)'
             /\ seen'[y][s] = "none" =>
                   backend'[y][s] = None /\ \A op \in Op : ~Has(y, "informer", op, s)'
  BY <1>1, <1>3, <1>4, <1>5 DEF Forgetting, Thread
<1>7. ASSUME c.op = "remove"
      PROVE  \/ /\ Has(x, t, "remove", s)'
                /\ \/ backend'[x][s] = None
                   \/ backend' = backend /\ calls'[x][t][1].stage = "unlink"
             \/ c.stage = "erase" /\ backend' = backend /\ info'[s] = None
  BY <1>7, RemoveEffect
<1>8. ASSUME NEW y \in Proxy, seen'[y][s] = "gone"
      PROVE  /\ ~Has(y, "informer", "managed", s)'
             /\ backend'[y][s] # None => /\ Has(y, "informer", "remove", s)'
                                         /\ calls'[y]["informer"][1].stage \in {"start", "unlink"}
  <2>1. CASE y # x
    BY <1>1, <1>3, <1>8, <2>1 DEF Forgetting, Has
  <2>2. CASE y = x
    <3>1. c.op = "remove" /\ ~Has(x, "informer", "managed", s)'
      BY <1>1, <1>2, <1>4, <1>5, <1>8, <2>2 DEF Forgetting, Thread, Op
    <3>2. c.stage = "erase" => backend[x][s] = None
      BY <1>1, <1>2, <1>8, <2>2 DEF Forgetting
    <3> QED  BY <1>2, <1>7, <2>2, <3>1, <3>2
  <2> QED  BY <2>1, <2>2
<1>9. info'[s] # None =>
         \E y \in Proxy : seen'[y][s] \notin {"none", "gone"} \/ Has(y, "informer", "remove", s)'
  BY <1>1, <1>2, <1>5, <1>7
<1> QED  BY <1>6, <1>8, <1>9 DEF Forgetting

LEMMA ThreadForgets ==
    ASSUME TypeOK, TypeOK', ForgetInv, NEW x \in Proxy, NEW t \in Thread, ThreadStep(x, t)
    PROVE  ForgetInv'
<1>1. UNCHANGED <<gameServer, used, ghosts>>
  BY ThreadActive
<1> QED  BY <1>1, ThreadStarts, ThreadManaged, ElsewhereForgets, HereForgets DEF ForgetInv

(***************************************************************************)
(* The steps that give threads more to do, or callers.  Those of the start *)
(* of a directory and of the file concern names that have been used, or    *)
(* GameServers that are ready.                                             *)
(***************************************************************************)
LEMMA MoreForgets ==
    ASSUME ForgetInv,
           UNCHANGED <<gameServer, file, info, backend, seen, used, ghosts>>,
           \A y \in Proxy :
              /\ boot'[y] = "off" => boot[y] = "off" /\ calls'[y] = calls[y]
              /\ calls'[y]["informer"] = calls[y]["informer"]
              /\ external'[y] \subseteq external[y] \cup used,
           \A y \in Proxy, u \in Thread, op \in Op, s \in Server : Has(y, u, op, s)' =>
              \/ Has(y, u, op, s) \/ s \in used
              \/ u = "main" /\ op = "managed" /\ gameServer[s] # "gone",
           \A k \in Client : client'[k] # None =>
              \/ client'[k].server \in used
              \/ client[k] # None /\ client'[k].server = client[k].server
    PROVE  ForgetInv'
<1>1. StartsEmpty'
  BY DEF ForgetInv, StartsEmpty
<1>2. ASSUME NEW s \in Server \ used
      PROVE  OnlyManaged(s)'
  BY DEF ForgetInv, OnlyManaged, Thread
<1>3. ASSUME NEW s \in Server \ (used \cup ghosts), gameServer[s] = "gone"
      PROVE  Forgetting(s)'
  <2>1. Forgetting(s)
    BY <1>3 DEF ForgetInv
  <2>2. \A y \in Proxy, op \in Op : /\ ~Has(y, "main", op, s)'
                                    /\ Has(y, "informer", op, s)' <=> Has(y, "informer", op, s)
    BY <1>3, <2>1 DEF Forgetting, Thread, Has
  <2> QED  BY <2>1, <2>2 DEF Forgetting, Op
<1> QED  BY <1>1, <1>2, <1>3 DEF ForgetInv

LEMMA FileCalls ==
    ASSUME TypeOK, NEW x \in Proxy
    PROVE  LET new == NewAll("remove", external[x]) \o NewAll("config", file)
           IN  /\ new \in Seq(Call)
               /\ \A i \in 1 .. Len(new) :
                     new[i].server \in external[x] \cup file /\ new[i].stage = "start"
<1> DEFINE a == NewAll("remove", external[x])
           b == NewAll("config", file)
<1>1. a \in Seq(Call) /\ b \in Seq(Call)
  BY NewAllType DEF TypeOK, Op
<1>2. /\ \A i \in 1 .. Len(a) : a[i].server \in external[x] /\ a[i].stage = "start"
      /\ \A i \in 1 .. Len(b) : b[i].server \in file /\ b[i].stage = "start"
  <2>1. external[x] \in SUBSET Server /\ file \in SUBSET Server
    BY DEF TypeOK
  <2>2. "remove" \in Op /\ "config" \in Op
    BY DEF Op
  <2> QED  BY <2>1, <2>2, NewAllHas
<1> HIDE DEF a, b
<1>3. /\ a \o b \in Seq(Call) /\ Len(a) \in Nat /\ Len(b) \in Nat
      /\ Len(a \o b) = Len(a) + Len(b)
      /\ \A i \in 1 .. Len(a) + Len(b) : (a \o b)[i] = IF i <= Len(a) THEN a[i] ELSE b[i - Len(a)]
  BY <1>1, ConcatProperties, LenProperties
<1>4. ASSUME NEW i \in 1 .. Len(a \o b)
      PROVE  (a \o b)[i].server \in external[x] \cup file /\ (a \o b)[i].stage = "start"
  <2>1. CASE i <= Len(a)
    BY <1>2, <1>3, <2>1
  <2>2. CASE ~(i <= Len(a))
    <3>1. i - Len(a) \in 1 .. Len(b)
      BY <1>3, <2>2
    <3> QED  BY <1>2, <1>3, <2>2, <3>1
  <2> QED  BY <2>1, <2>2
<1> QED  BY <1>3, <1>4 DEF a, b

\* What is in the file, or came from it or from the API, has been used.
LEMMA UsedNames ==
    ASSUME TypeOK, ForgetInv
    PROVE  /\ file \subseteq used /\ \A x \in Proxy : external[x] \subseteq used
           /\ \A s \in Server : info[s] # None /\ info[s].source = "dynamic" => s \in used
           /\ \A k \in Client : client[k] # None => client[k].server \in used
<1>1. \A k \in Client : client[k] # None => client[k].server \in Server
  BY DEF TypeOK, Request
<1> QED  BY <1>1 DEF ForgetInv, OnlyManaged, TypeOK

LEMMA BootForgets ==
    ASSUME TypeOK, ForgetInv, NEW x \in Proxy, Boot(x) \/ FileEvent(x)
    PROVE  ForgetInv'
<1>1. /\ CallsOK /\ file \subseteq used /\ external[x] \subseteq used
      /\ boot'[x] # "off" /\ \A y \in Proxy \ {x} : boot'[y] = boot[y]
      /\ UNCHANGED <<gameServer, file, info, backend, seen, client, used, ghosts>>
      /\ \A y \in Proxy : external'[y] \subseteq external[y] \cup used
  <2>1. CallsOK /\ file \subseteq used /\ external[x] \subseteq used
    BY UsedNames DEF TypeOK, CallsOK
  <2>2. UNCHANGED <<gameServer, file, info, backend, seen, client, used, ghosts>>
    BY DEF Boot, ListServers, StartMonitor, ReadFile, Subscribe, ListDynamic, FileEvent,
           cluster, directory, api, kube
  <2>3. boot'[x] # "off" /\ \A y \in Proxy \ {x} : boot'[y] = boot[y]
    BY DEF Boot, ListServers, StartMonitor, ReadFile, Subscribe, ListDynamic, FileEvent,
           kube, TypeOK
  <2>4. external' = external \/ external' = [external EXCEPT ![x] = file]
    BY DEF Boot, ListServers, StartMonitor, ReadFile, Subscribe, ListDynamic, FileEvent,
           directory, OnExternalServersUpdate
  <2>5. \A y \in Proxy : external'[y] \subseteq external[y] \cup used
    BY <2>1, <2>4 DEF TypeOK
  <2> QED  BY <2>1, <2>2, <2>3, <2>5
<1>2. ASSUME NEW t \in {"main", "file"}, NEW new \in Seq(Call), Add(x, t, new),
             \A i \in 1 .. Len(new) :
                \/ new[i].server \in used
                \/ t = "main" /\ new[i].op = "managed" /\ gameServer[new[i].server] # "gone"
      PROVE  ForgetInv'
  <2>1. t \in Thread /\ t # "informer"
    BY DEF Thread
  <2>2. /\ OthersKeep(x, t)
        /\ \A op \in Op, s \in Server : Has(x, t, op, s)' =>
              \/ Has(x, t, op, s)
              \/ \E i \in 1 .. Len(new) : new[i].op = op /\ new[i].server = s
    BY <1>1, <1>2, <2>1, AddQueue
  <2>3. \A y \in Proxy, u \in Thread, op \in Op, s \in Server : Has(y, u, op, s)' =>
           \/ Has(y, u, op, s) \/ s \in used
           \/ u = "main" /\ op = "managed" /\ gameServer[s] # "gone"
    BY <1>2, <2>2 DEF OthersKeep, Has
  <2>4. \A y \in Proxy : calls'[y]["informer"] = calls[y]["informer"]
    BY <2>1, <2>2 DEF OthersKeep, Thread
  <2>5. \A y \in Proxy \ {x} : calls'[y] = calls[y]
    BY <1>1, <1>2 DEF Add, CallsOK
  <2> QED  BY <1>1, <2>3, <2>4, <2>5, MoreForgets
<1>3. CASE UNCHANGED calls
  BY <1>1, <1>3, MoreForgets DEF Has
<1>4. CASE ListServers(x)
  <2> DEFINE new == NewAll("managed", {s \in Server : gameServer[s] = "ready"})
  <2>1. new \in Seq(Call) /\ \A i \in 1 .. Len(new) :
           new[i].op = "managed" /\ gameServer[new[i].server] = "ready"
    BY NewAllType, NewAllHas DEF Op
  <2>2. Add(x, "main", new)
    BY <1>4 DEF ListServers
  <2> HIDE DEF new
  <2> QED  BY <1>2, <2>1, <2>2
<1>5. CASE ReadFile(x) \/ FileEvent(x)
  <2> DEFINE new == NewAll("remove", external[x]) \o NewAll("config", file)
  <2>1. new \in Seq(Call) /\ \A i \in 1 .. Len(new) : new[i].server \in used
    BY <1>1, FileCalls
  <2>2. Add(x, "main", new) \/ Add(x, "file", new)
    BY <1>5 DEF ReadFile, FileEvent, OnExternalServersUpdate
  <2> HIDE DEF new
  <2> QED  BY <1>2, <2>1, <2>2
<1>6. CASE ListDynamic(x)
  <2> DEFINE new == NewAll("dynamic", {s \in Server : info[s] # None /\ info[s].source = "dynamic"})
  <2>1. new \in Seq(Call) /\ \A i \in 1 .. Len(new) : new[i].server \in used
    BY UsedNames, NewAllType, NewAllHas DEF Op
  <2>2. Add(x, "main", new)
    BY <1>6 DEF ListDynamic
  <2> HIDE DEF new
  <2> QED  BY <1>2, <2>1, <2>2
<1> QED  BY <1>3, <1>4, <1>5, <1>6 DEF Boot, StartMonitor, Subscribe

LEMMA CallerForgets ==
    ASSUME TypeOK, ForgetInv, NEW k \in Client, ClientStep(k)
    PROVE  ForgetInv'
<1>1. CASE ClientRead(k)
  <2>1. \A j \in Client : client'[j] # None => client[j] # None /\ client'[j].server = client[j].server
    BY <1>1 DEF ClientRead, ClientAt, ClientGoes, TypeOK, Request
  <2> QED  BY <1>1, <2>1, MoreForgets DEF ClientRead, cluster, directory, kube, Has
<1>2. ASSUME NEW D \in SUBSET Proxy, Publish(k, D)
      PROVE  ForgetInv'
  <2> DEFINE t == client[k].op
             message == New(IF t = "register" THEN "dynamic" ELSE "forget", client[k].server)
  <2>1. /\ CallsOK /\ t \in {"register", "unregister"} /\ client[k].server \in used
        /\ message \in Call /\ message.server = client[k].server
    <3>1. client[k] \in Request
      BY <1>2 DEF Publish, ClientAt, TypeOK
    <3> QED  BY <1>2, <3>1, UsedNames, NewType DEF Publish, ClientAt, Request, TypeOK, CallsOK, New, Op
  <2>2. \A y \in Proxy : calls'[y] = IF y \in D THEN [calls[y] EXCEPT ![t] = Append(@, message)]
                                     ELSE calls[y]
    BY <1>2 DEF Publish
  <2>3. /\ \A y \in D : boot[y] # "off"
        /\ UNCHANGED <<gameServer, file, external, info, backend, seen, boot, used, ghosts>>
        /\ \A j \in Client : client'[j] # None => client[j] # None /\ client'[j].server = client[j].server
    BY <1>2 DEF Publish, cluster, directory, kube, TypeOK
  <2> HIDE DEF t, message
  <2>4. ASSUME NEW y \in Proxy, NEW u \in Thread, NEW op \in Op, NEW s \in Server, Has(y, u, op, s)'
        PROVE  Has(y, u, op, s) \/ s \in used
    <3>1. CASE y \in D /\ u = t
      <4> DEFINE q == calls[y][u]
      <4>1. q \in Seq(Call) /\ Len(q) \in Nat
        BY <2>1, LenProperties DEF CallsOK
      <4>2. calls'[y][u] = Append(q, message)
        BY <2>1, <2>2, <3>1 DEF CallsOK
      <4>3. /\ Len(Append(q, message)) = Len(q) + 1
            /\ \A i \in 1 .. Len(q) + 1 : Append(q, message)[i] = IF i = Len(q) + 1 THEN message ELSE q[i]
        BY <2>1, <4>1, AppendProperties
      <4>4. PICK i \in 1 .. Len(q) + 1 : Append(q, message)[i].op = op /\ Append(q, message)[i].server = s
        BY <2>4, <4>2, <4>3 DEF Has
      <4> QED  BY <2>1, <4>1, <4>3, <4>4 DEF Has
    <3>2. CASE ~(y \in D /\ u = t)
      <4>1. calls'[y][u] = calls[y][u]
        BY <2>1, <2>2, <3>2 DEF CallsOK
      <4> QED  BY <2>4, <4>1 DEF Has
    <3> QED  BY <3>1, <3>2
  <2>5. \A y \in Proxy : /\ calls'[y]["informer"] = calls[y]["informer"]
                         /\ boot'[y] = "off" => calls'[y] = calls[y]
    BY <2>1, <2>2, <2>3 DEF CallsOK, Thread
  <2> QED  BY <2>3, <2>4, <2>5, MoreForgets
<1>3. CASE ClientWrite(k) \/ ClientErase(k)
  <2>1. /\ client[k].server \in used /\ client[k] # None
        /\ UNCHANGED <<gameServer, file, external, backend, seen, boot, calls, used, ghosts>>
    BY <1>3, UsedNames DEF ClientWrite, ClientErase, ClientAt, world, directory, kube
  <2>2. \A j \in Client : client'[j] # None => client[j] # None /\ client'[j].server = client[j].server
    <3>1. client[k] # None /\ ClientGoes(k, "publish")
      BY <1>3 DEF ClientWrite, ClientErase, ClientAt
    <3> QED  BY <3>1 DEF ClientGoes, TypeOK, Request
  <2>3. \A s \in Server \ used : info'[s] = info[s]
    BY <1>3, <2>1 DEF ClientWrite, ClientErase, TypeOK
  <2>4. StartsEmpty'
    BY <2>1 DEF ForgetInv, StartsEmpty
  <2>5. ASSUME NEW s \in Server \ used
        PROVE  OnlyManaged(s)' /\ (Forgetting(s) => Forgetting(s)')
    BY <2>1, <2>2, <2>3 DEF ForgetInv, OnlyManaged, Forgetting, Has
  <2> QED  BY <2>1, <2>4, <2>5 DEF ForgetInv
<1> QED  BY <1>1, <1>2, <1>3 DEF ClientStep

LEMMA RequestForgets ==
    ASSUME TypeOK, ForgetInv, NEW k \in Client, NEW s \in Server,
           RegisterExternalServer(k, s) \/ UnregisterExternalServer(k, s)
    PROVE  ForgetInv'
<1>1. /\ UNCHANGED <<gameServer, file, external, info, backend, seen, boot, calls, ghosts>>
      /\ used \subseteq used'
  BY DEF RegisterExternalServer, UnregisterExternalServer, cluster, directory, kube
<1>2. s \in used'
  BY UsedNames DEF RegisterExternalServer, UnregisterExternalServer
<1>3. \A j \in Client : client'[j] # None => client'[j] = client[j] \/ client'[j].server = s
  BY DEF RegisterExternalServer, UnregisterExternalServer, TypeOK
<1>4. StartsEmpty'
  BY <1>1 DEF ForgetInv, StartsEmpty
<1>5. ASSUME NEW r \in Server \ used'
      PROVE  OnlyManaged(r)' /\ (Forgetting(r) => Forgetting(r)')
  BY <1>1, <1>2, <1>3 DEF ForgetInv, OnlyManaged, Forgetting, Has
<1> QED  BY <1>1, <1>4, <1>5 DEF ForgetInv

(***************************************************************************)
(* GameServers, and the file.                                              *)
(***************************************************************************)
LEMMA EditForgets ==
    ASSUME TypeOK, ForgetInv, NEW s \in Server, EditFile(s)
    PROVE  ForgetInv'
<1>1. /\ UNCHANGED <<gameServer, external, info, backend, seen, boot, calls, client, ghosts>>
      /\ used' = used \cup {s} /\ file' \subseteq file \cup {s}
  BY DEF EditFile, directory, kube
<1>2. StartsEmpty'
  BY <1>1 DEF ForgetInv, StartsEmpty
<1>3. ASSUME NEW r \in Server \ used'
      PROVE  OnlyManaged(r)' /\ (Forgetting(r) => Forgetting(r)')
  BY <1>1 DEF ForgetInv, OnlyManaged, Forgetting, Has
<1> QED  BY <1>1, <1>2, <1>3 DEF ForgetInv

LEMMA LifeForgets ==
    ASSUME TypeOK, ForgetInv, NEW s \in Server,
           Starts(s) \/ RegisterSelfInCache(s) \/ SetReady(s) \/ AgentShutdown(s)
    PROVE  ForgetInv'
<1>1. /\ UNCHANGED <<file, external, backend, seen, boot, calls, client, used, ghosts>>
      /\ gameServer[s] # "gone" /\ gameServer'[s] # "gone"
      /\ \A r \in Server \ {s} : gameServer'[r] = gameServer[r]
  BY DEF Starts, RegisterSelfInCache, SetReady, AgentShutdown, Advance, directory, kube, api, TypeOK
<1>2. /\ \A r \in Server \ {s} : info'[r] = info[r]
      /\ info'[s] \in {info[s], None} \/ info'[s].source = "managed"
  BY DEF Starts, RegisterSelfInCache, SetReady, AgentShutdown, TypeOK
<1>3. StartsEmpty'
  BY <1>1 DEF ForgetInv, StartsEmpty
<1>4. ASSUME NEW r \in Server \ used
      PROVE  OnlyManaged(r)'
  BY <1>1, <1>2 DEF ForgetInv, OnlyManaged, Has
<1>5. ASSUME NEW r \in Server \ {s}, Forgetting(r)
      PROVE  Forgetting(r)'
  BY <1>1, <1>2, <1>5 DEF Forgetting, Has
<1> QED  BY <1>1, <1>3, <1>4, <1>5 DEF ForgetInv

\* The end itself: unless it may go unnoticed, the proxies that run have the GameServer
\* from their informers, and one of them at least has.
LEMMA EndForgets ==
    ASSUME TypeOK, ForgetInv, NEW s \in Server, Deleted(s)
    PROVE  ForgetInv'
<1>1. /\ UNCHANGED <<file, external, info, backend, seen, boot, calls, client, used>>
      /\ gameServer[s] # "gone" /\ ghosts \subseteq ghosts'
      /\ \A r \in Server \ {s} : gameServer'[r] = gameServer[r]
  BY DEF Deleted, Advance, directory, kube, api, TypeOK
<1>2. gameServer'[s] = "gone"
  BY DEF Deleted, Advance, TypeOK
<1>3. StartsEmpty'
  BY <1>1, <1>2 DEF ForgetInv, StartsEmpty
<1>4. ASSUME NEW r \in Server \ used
      PROVE  OnlyManaged(r)'
  BY <1>1 DEF ForgetInv, OnlyManaged, Has
<1>5. ASSUME NEW r \in Server \ {s}, Forgetting(r)
      PROVE  Forgetting(r)'
  BY <1>1, <1>5 DEF Forgetting, Has
<1>6. ASSUME s \notin used, s \notin ghosts'
      PROVE  Forgetting(s)
  <2>1. ~Unnoticed(s) /\ OnlyManaged(s) /\ StartsEmpty
    BY <1>6 DEF Deleted, ForgetInv
  <2>2. PICK y \in Proxy : seen[y][s] # "none"
    BY <2>1 DEF Unnoticed
  <2>3. seen[y][s] \notin {"none", "gone"}
    BY <1>1, <2>1, <2>2 DEF StartsEmpty
  <2>4. ASSUME NEW x \in Proxy
        PROVE  \A op \in Op : ~Has(x, "main", op, s)
    <3>1. DOMAIN calls[x]["main"] = 1 .. Len(calls[x]["main"])
      BY DEF TypeOK, Thread
    <3> QED  BY <2>1, <3>1 DEF Unnoticed, OnlyListed, OnlyManaged, Has
  <2>5. ASSUME NEW x \in Proxy, seen[x][s] = "none"
        PROVE  backend[x][s] = None /\ \A op \in Op : ~Has(x, "informer", op, s)
    <3>1. boot[x] = "off"
      BY <2>1, <2>5 DEF Unnoticed, OnlyListed
    <3>2. calls[x]["informer"] = <<>> /\ backend[x][s] = None
      BY <2>1, <3>1 DEF StartsEmpty, Thread
    <3> QED  BY <3>2 DEF Has
  <2>6. \A x \in Proxy : seen[x][s] # "gone"
    BY <1>1, <2>1 DEF StartsEmpty
  <2> QED  BY <2>3, <2>4, <2>5, <2>6 DEF Forgetting
<1>7. s \notin used \cup ghosts' => Forgetting(s)'
  BY <1>1, <1>6 DEF Forgetting, Has
<1> QED  BY <1>1, <1>3, <1>4, <1>5, <1>7 DEF ForgetInv

(***************************************************************************)
(* The informer has one call at a time, and removes what it has seen end.  *)
(***************************************************************************)
LEMMA ReactionHas ==
    ASSUME TypeOK, NEW x \in Proxy, NEW s \in Server, NEW phase \in Phase,
           Idle(x, "informer"), Add(x, "informer", Reaction(s, phase))
    PROVE  /\ OthersKeep(x, "informer") /\ Len(calls'[x]["informer"]) <= 1
           /\ \A op \in Op, r \in Server :
                 /\ ~Has(x, "informer", op, r)
                 /\ Has(x, "informer", op, r)' =>
                       /\ r = s /\ phase \in {"ready", "gone"}
                       /\ op = IF phase = "ready" THEN "managed" ELSE "remove"
           /\ phase = "gone" => /\ Has(x, "informer", "remove", s)'
                                /\ calls'[x]["informer"][1].stage = "start"
<1> DEFINE new == Reaction(s, phase)
<1>1. CallsOK /\ "informer" \in Thread /\ calls[x]["informer"] = <<>>
  BY DEF TypeOK, CallsOK, Thread, Idle
<1>2. /\ new \in Seq(Call) /\ Len(new) <= 1
      /\ \A i \in 1 .. Len(new) : /\ new[i].server = s /\ phase \in {"ready", "gone"}
                                  /\ new[i].op = IF phase = "ready" THEN "managed" ELSE "remove"
      /\ phase = "gone" => Len(new) = 1 /\ new[1].op = "remove" /\ new[1].server = s
                           /\ new[1].stage = "start"
  BY NewType DEF Reaction, Op, New
<1>3. calls'[x]["informer"] = new /\ OthersKeep(x, "informer")
  <2>1. <<>> \o new = new
    BY <1>2, ConcatEmptySeq
  <2> QED  BY <1>1, <2>1 DEF Add, CallsOK, OthersKeep
<1> HIDE DEF new
<1> QED  BY <1>1, <1>2, <1>3 DEF Has

LEMMA InformerForgets ==
    ASSUME TypeOK, ForgetInv, NEW x \in Proxy, NEW s \in Server,
           InformerEvent(x, s) \/ Resync(x, s)
    PROVE  ForgetInv'
<1>1. PICK phase \in {gameServer[s], "ready"} :
         /\ phase \in Phase /\ Idle(x, "informer") /\ Add(x, "informer", Reaction(s, phase))
         /\ \/ /\ phase = gameServer[s] /\ boot[x] # "off"
               /\ seen[x][s] = "none" => gameServer[s] # "gone"
               /\ seen[x][s] # gameServer[s]
               /\ seen' = [seen EXCEPT ![x][s] = gameServer[s]]
            \/ phase = "ready" /\ seen[x][s] = "ready" /\ seen' = seen
  BY DEF InformerEvent, Resync, Resyncs, kube, TypeOK, Phase
<1>2. UNCHANGED <<gameServer, file, external, info, backend, boot, client, used, ghosts>>
  BY DEF InformerEvent, Resync, cluster, directory, kube, api
<1>3. /\ OthersKeep(x, "informer") /\ Len(calls'[x]["informer"]) <= 1
      /\ \A op \in Op, r \in Server :
            /\ ~Has(x, "informer", op, r)
            /\ Has(x, "informer", op, r)' =>
                  /\ r = s /\ phase \in {"ready", "gone"}
                  /\ op = IF phase = "ready" THEN "managed" ELSE "remove"
      /\ phase = "gone" => /\ Has(x, "informer", "remove", s)'
                           /\ calls'[x]["informer"][1].stage = "start"
  BY <1>1, ReactionHas
<1>4. StartsEmpty /\ boot[x] # "off"
  BY <1>1 DEF ForgetInv, StartsEmpty
<1>5. \A y \in Proxy, r \in Server :
         seen'[y][r] = IF y = x /\ r = s /\ phase = gameServer[s] THEN gameServer[s] ELSE seen[y][r]
  BY <1>1 DEF TypeOK
<1>6. StartsEmpty'
  BY <1>2, <1>3, <1>4, <1>5 DEF StartsEmpty, OthersKeep, Thread
<1>7. \A y \in Proxy, u \in Thread, op \in Op, r \in Server :
         y # x \/ u # "informer" => (Has(y, u, op, r)' <=> Has(y, u, op, r))
  BY <1>3 DEF OthersKeep, Has
<1>8. ASSUME NEW r \in Server \ used
      PROVE  OnlyManaged(r)'
  <2>1. OnlyManaged(r)
    BY DEF ForgetInv
  <2> QED  BY <1>2, <1>3, <1>7, <2>1 DEF OnlyManaged, Thread, Op
<1>9. ASSUME NEW r \in Server, gameServer[r] = "gone", Forgetting(r)
      PROVE  Forgetting(r)'
  <2>1. ASSUME NEW y \in Proxy
        PROVE  \A op \in Op : ~Has(y, "main", op, r)'
    BY <1>7, <1>9 DEF Forgetting, Thread, Op
  <2>2. ASSUME NEW y \in Proxy, seen'[y][r] = "none"
        PROVE  backend'[y][r] = None /\ \A op \in Op : ~Has(y, "informer", op, r)'
    <3>1. CASE y # x
      BY <1>2, <1>5, <1>7, <1>9, <2>2, <3>1 DEF Forgetting, Thread
    <3>2. CASE y = x /\ r # s
      BY <1>2, <1>3, <1>5, <1>9, <2>2, <3>2 DEF Forgetting
    <3>3. CASE y = x /\ r = s
      BY <1>1, <1>5, <1>9, <2>2, <3>3
    <3> QED  BY <3>1, <3>2, <3>3
  <2>3. ASSUME NEW y \in Proxy, seen'[y][r] = "gone"
        PROVE  /\ ~Has(y, "informer", "managed", r)'
               /\ backend'[y][r] # None => /\ Has(y, "informer", "remove", r)'
                                           /\ calls'[y]["informer"][1].stage \in {"start", "unlink"}
    <3>1. CASE y # x
      <4>1. calls'[y]["informer"] = calls[y]["informer"]
        BY <1>3, <3>1 DEF OthersKeep, Thread
      <4> QED  BY <1>2, <1>5, <1>7, <1>9, <2>3, <3>1, <4>1 DEF Forgetting, Thread, Op
    <3>2. CASE y = x /\ r # s
      BY <1>2, <1>3, <1>5, <1>9, <2>3, <3>2 DEF Forgetting, Op
    <3>3. CASE y = x /\ r = s
      <4>1. phase = "gone"
        BY <1>1, <1>5, <1>9, <2>3, <3>3
      <4> QED  BY <1>3, <3>3, <4>1 DEF Op
    <3> QED  BY <3>1, <3>2, <3>3
  <2>4. ASSUME info'[r] # None
        PROVE  \E y \in Proxy : seen'[y][r] \notin {"none", "gone"} \/ Has(y, "informer", "remove", r)'
    <3>1. PICK y \in Proxy : seen[y][r] \notin {"none", "gone"} \/ Has(y, "informer", "remove", r)
      BY <1>2, <1>9, <2>4 DEF Forgetting
    <3>2. CASE y # x \/ r # s
      BY <1>3, <1>5, <1>7, <3>1, <3>2 DEF Thread, Op
    <3>3. CASE y = x /\ r = s
      <4>1. CASE phase = "gone"
        BY <1>3, <3>3, <4>1
      <4>2. CASE phase # "gone"
        BY <1>1, <1>5, <1>9, <3>3, <4>2
      <4> QED  BY <4>1, <4>2
    <3> QED  BY <3>2, <3>3
  <2> QED  BY <2>1, <2>2, <2>3, <2>4 DEF Forgetting
<1> QED  BY <1>2, <1>6, <1>8, <1>9 DEF ForgetInv

\* What a name that has been used neither by the API nor by the file owes to
\* whom: as long as the end of its GameServer has not reached every proxy that knows
\* the name, a call that removes it is still to come, from the proxy and from the cache.
THEOREM ForgetAlways == Spec => []ForgetInv
<1>1. Init => ForgetInv
  <2> SUFFICES ASSUME Init PROVE ForgetInv
    OBVIOUS
  <2>1. \A x \in Proxy, t \in Thread, op \in Op, s \in Server : ~Has(x, t, op, s)
    BY DEF Init, Has
  <2>2. StartsEmpty
    BY DEF Init, StartsEmpty, Thread
  <2> QED  BY <2>1, <2>2 DEF Init, ForgetInv, OnlyManaged, Thread
<1>2. TypeOK /\ TypeOK' /\ ForgetInv /\ [Next]_vars => ForgetInv'
  <2> SUFFICES ASSUME TypeOK, TypeOK', ForgetInv, [Next]_vars PROVE ForgetInv'
    OBVIOUS
  <2>1. CASE UNCHANGED vars
    BY <2>1 DEF vars, ForgetInv, StartsEmpty, OnlyManaged, Forgetting, Has
  <2>2. ASSUME NEW s \in Server, ServerLife(s)
        PROVE  ForgetInv'
    BY <2>2, LifeForgets, EndForgets DEF ServerLife
  <2> QED  BY <2>1, <2>2, ThreadForgets, BootForgets, InformerForgets, EditForgets,
              RequestForgets, CallerForgets DEF Next
<1> QED  BY <1>1, <1>2, DirectoryTypeCorrect, PTL DEF Spec

\* DeletedForgotten, for any proxies, servers and callers and any number of calls and
\* changes of the file: at rest the cache and the proxies have forgotten a GameServer
\* that is deleted, because the last proxy to see its end removes the name after every
\* registration of it.
THEOREM DeletedIsForgotten == Spec => []DeletedForgotten
<1>1. TypeOK /\ ForgetInv => DeletedForgotten
  <2> SUFFICES ASSUME TypeOK, ForgetInv, NEW s \in Server,
                      gameServer[s] = "gone", s \notin used \cup ghosts,
                      \A x \in Proxy :
                         boot[x] = "off" \/ (AtRest(x) /\ seen[x][s] \in {"none", "gone"})
               PROVE  info[s] = None /\ \A x \in Proxy : backend[x][s] = None
    BY DEF DeletedForgotten
  <2>1. Forgetting(s) /\ StartsEmpty
    BY DEF ForgetInv
  <2>2. ASSUME NEW x \in Proxy
        PROVE  seen[x][s] \in {"none", "gone"} /\ ~Has(x, "informer", "remove", s)
    <3>1. calls[x]["informer"] = <<>>
      BY <2>1 DEF StartsEmpty, AtRest, Idle, Thread
    <3> QED  BY <2>1, <3>1 DEF StartsEmpty, Has
  <2> QED  BY <2>1, <2>2 DEF Forgetting
<1> QED  BY <1>1, DirectoryTypeCorrect, ForgetAlways, PTL

(***************************************************************************)
(* AuthoritativeKept.  Only the first call of a thread has begun, and a    *)
(* call of an owner that has begun carries the address of that owner.      *)
(***************************************************************************)
Owner == {"managed", "config"}
Sound(c) == c.op \in Owner /\ c.stage # "start" => c.address = c.op

QueueInv ==
    \A x \in Proxy, t \in Thread : \A i \in 1 .. Len(calls[x][t]) :
        /\ Sound(calls[x][t][i])
        /\ i > 1 => calls[x][t][i].stage = "start"

\* The first call of a thread is the one it was, or it has not begun.
HeadKept(x, t) ==
    calls'[x][t] # <<>> => \/ calls'[x][t][1].stage = "start"
                           \/ ~Idle(x, t) /\ calls'[x][t][1] = calls[x][t][1]

LEMMA QueueGrows ==
    ASSUME NEW q \in Seq(Call), NEW new \in Seq(Call),
           \A i \in 1 .. Len(new) : new[i].stage = "start",
           \A i \in 1 .. Len(q) : Sound(q[i]) /\ (i > 1 => q[i].stage = "start")
    PROVE  LET r == q \o new
           IN  /\ \A i \in 1 .. Len(r) : Sound(r[i]) /\ (i > 1 => r[i].stage = "start")
               /\ r # <<>> => r[1].stage = "start" \/ (q # <<>> /\ r[1] = q[1])
<1> DEFINE r == q \o new
<1>1. Len(q) \in Nat /\ Len(new) \in Nat /\ r \in Seq(Call)
  BY LenProperties, ConcatProperties
<1>2. /\ Len(r) = Len(q) + Len(new)
      /\ \A i \in 1 .. Len(r) : r[i] = IF i <= Len(q) THEN q[i] ELSE new[i - Len(q)]
  BY ConcatProperties
<1> HIDE DEF r
<1>3. \A i \in 1 .. Len(r) :
         \/ i \in 1 .. Len(q) /\ r[i] = q[i]
         \/ r[i].stage = "start"
  <2> SUFFICES ASSUME NEW i \in 1 .. Len(r), ~(i <= Len(q))
               PROVE  r[i].stage = "start"
    BY <1>1, <1>2
  <2>1. i - Len(q) \in 1 .. Len(new) /\ r[i] = new[i - Len(q)]
    BY <1>1, <1>2
  <2> QED  BY <2>1
<1>4. ASSUME r # <<>>
      PROVE  r[1].stage = "start" \/ (q # <<>> /\ r[1] = q[1])
  <2>1. 1 \in 1 .. Len(r)
    BY <1>1, <1>4, EmptySeq, LenProperties
  <2>2. 1 \in 1 .. Len(q) => q # <<>>
    OBVIOUS
  <2> QED  BY <1>3, <2>1, <2>2
<1> QED  BY <1>3, <1>4 DEF r, Sound

LEMMA CallsGrow ==
    ASSUME TypeOK, QueueInv,
           \A y \in Proxy, u \in Thread :
              \/ calls'[y][u] = calls[y][u]
              \/ \E new \in Seq(Call) : /\ \A i \in 1 .. Len(new) : new[i].stage = "start"
                                        /\ calls'[y][u] = calls[y][u] \o new
    PROVE  QueueInv' /\ \A y \in Proxy, u \in Thread : HeadKept(y, u)
<1> SUFFICES ASSUME NEW y \in Proxy, NEW u \in Thread
             PROVE  /\ \A i \in 1 .. Len(calls'[y][u]) :
                          /\ Sound(calls'[y][u][i])
                          /\ i > 1 => calls'[y][u][i].stage = "start"
                    /\ HeadKept(y, u)
  BY DEF QueueInv, Sound
<1>1. CASE calls'[y][u] = calls[y][u]
  BY <1>1 DEF QueueInv, HeadKept, Idle
<1>2. ASSUME NEW new \in Seq(Call), \A i \in 1 .. Len(new) : new[i].stage = "start",
             calls'[y][u] = calls[y][u] \o new
      PROVE  /\ \A i \in 1 .. Len(calls'[y][u]) :
                   /\ Sound(calls'[y][u][i])
                   /\ i > 1 => calls'[y][u][i].stage = "start"
             /\ HeadKept(y, u)
  <2>1. calls[y][u] \in Seq(Call)
    BY DEF TypeOK
  <2>2. \A i \in 1 .. Len(calls[y][u]) :
           Sound(calls[y][u][i]) /\ (i > 1 => calls[y][u][i].stage = "start")
    BY DEF QueueInv
  <2> DEFINE q == calls[y][u]
             r == q \o new
  <2>3. /\ \A i \in 1 .. Len(r) : Sound(r[i]) /\ (i > 1 => r[i].stage = "start")
        /\ r # <<>> => r[1].stage = "start" \/ (q # <<>> /\ r[1] = q[1])
    <3> HIDE DEF q
    <3> QED  BY <1>2, <2>1, <2>2, QueueGrows DEF q
  <2>4. calls'[y][u] = r
    BY <1>2
  <2> QED  BY <2>3, <2>4 DEF HeadKept, Idle
<1> QED  BY <1>1, <1>2

LEMMA AddGrows ==
    ASSUME TypeOK, NEW x \in Proxy, NEW t \in Thread, NEW new \in Seq(Call), Add(x, t, new),
           \A i \in 1 .. Len(new) : new[i].stage = "start", QueueInv
    PROVE  QueueInv' /\ \A y \in Proxy, u \in Thread : HeadKept(y, u)
<1>1. \A y \in Proxy, u \in Thread :
         \/ calls'[y][u] = calls[y][u]
         \/ calls'[y][u] = calls[y][u] \o new
  BY DEF Add, TypeOK
<1> QED  BY <1>1, CallsGrow

\* The steps that no thread takes change no address and nothing that is authoritative,
\* and begin no call.
LEMMA OthersWait ==
    ASSUME TypeOK, QueueInv, [Next]_vars,
           ~ \E x \in Proxy, t \in Thread : ThreadStep(x, t)
    PROVE  /\ QueueInv' /\ \A y \in Proxy, u \in Thread : HeadKept(y, u)
           /\ UNCHANGED <<backend, authoritative>>
<1> DEFINE Wait == /\ QueueInv' /\ \A y \in Proxy, u \in Thread : HeadKept(y, u)
                   /\ UNCHANGED <<backend, authoritative>>
<1>1. ASSUME UNCHANGED <<calls, backend, authoritative>>
      PROVE  Wait
  BY <1>1, CallsGrow
<1>2. ASSUME NEW x \in Proxy, Boot(x) \/ FileEvent(x)
      PROVE  Wait
  <2>1. UNCHANGED <<backend, authoritative>>
    BY <1>2 DEF Boot, ListServers, StartMonitor, ReadFile, Subscribe, ListDynamic,
                FileEvent, directory
  <2>2. CASE StartMonitor(x) \/ Subscribe(x)
    BY <1>1, <2>1, <2>2 DEF StartMonitor, Subscribe
  <2>3. CASE ListServers(x) \/ ListDynamic(x)
    <3>1. PICK op \in Op, S \in SUBSET Server : Add(x, "main", NewAll(op, S))
      BY <2>3 DEF ListServers, ListDynamic, Op
    <3>2. /\ NewAll(op, S) \in Seq(Call)
          /\ \A i \in 1 .. Len(NewAll(op, S)) : NewAll(op, S)[i].stage = "start"
      BY NewAllType, NewAllHas
    <3> QED  BY <2>1, <3>1, <3>2, AddGrows DEF Thread
  <2>4. CASE ReadFile(x) \/ FileEvent(x)
    <3> DEFINE new == NewAll("remove", external[x]) \o NewAll("config", file)
    <3>1. new \in Seq(Call) /\ \A i \in 1 .. Len(new) : new[i].stage = "start"
      BY FileCalls
    <3>2. Add(x, "main", new) \/ Add(x, "file", new)
      BY <2>4 DEF ReadFile, FileEvent, OnExternalServersUpdate
    <3> HIDE DEF new
    <3> QED  BY <2>1, <3>1, <3>2, AddGrows DEF Thread
  <2> QED  BY <1>2, <2>2, <2>3, <2>4 DEF Boot
<1>3. ASSUME NEW x \in Proxy, NEW s \in Server, InformerEvent(x, s) \/ Resync(x, s)
      PROVE  Wait
  <2>1. UNCHANGED <<backend, authoritative>>
    BY <1>3 DEF InformerEvent, Resync, directory
  <2>2. PICK phase : Add(x, "informer", Reaction(s, phase))
    BY <1>3 DEF InformerEvent, Resync
  <2>3. /\ Reaction(s, phase) \in Seq(Call)
        /\ \A i \in 1 .. Len(Reaction(s, phase)) : Reaction(s, phase)[i].stage = "start"
    BY NewType DEF Reaction, Op, New
  <2> QED  BY <2>1, <2>2, <2>3, AddGrows DEF Thread
<1>4. ASSUME NEW s \in Server, ServerLife(s) \/ EditFile(s)
      PROVE  Wait
  BY <1>1, <1>4 DEF ServerLife, Starts, RegisterSelfInCache, SetReady, AgentShutdown, Deleted,
                    EditFile, directory
<1>5. ASSUME NEW k \in Client, NEW s \in Server,
             RegisterExternalServer(k, s) \/ UnregisterExternalServer(k, s)
      PROVE  Wait
  BY <1>1, <1>5 DEF RegisterExternalServer, UnregisterExternalServer, directory
<1>6. ASSUME NEW k \in Client, ClientRead(k) \/ ClientWrite(k) \/ ClientErase(k)
      PROVE  Wait
  BY <1>1, <1>6 DEF ClientRead, ClientWrite, ClientErase, directory
<1>7. ASSUME NEW k \in Client, NEW D \in SUBSET Proxy, Publish(k, D)
      PROVE  Wait
  <2> DEFINE t == client[k].op
             message == New(IF t = "register" THEN "dynamic" ELSE "forget", client[k].server)
  <2>1. client[k] \in Request
    BY <1>7 DEF Publish, ClientAt, TypeOK
  <2>2. t \in Thread /\ message \in Call /\ message.stage = "start"
    BY <2>1, NewType DEF Request, Thread, Op, New
  <2>3. /\ UNCHANGED <<backend, authoritative>>
        /\ calls' = [x \in Proxy |-> IF x \in D
                                     THEN [calls[x] EXCEPT ![t] = Append(@, message)]
                                     ELSE calls[x]]
    BY <1>7 DEF Publish, directory
  <2> HIDE DEF message, t
  <2>4. <<message>> \in Seq(Call) /\ \A i \in 1 .. Len(<<message>>) : <<message>>[i].stage = "start"
    BY <2>2
  <2>5. \A y \in Proxy, u \in Thread :
           calls'[y][u] = calls[y][u] \/ calls'[y][u] = calls[y][u] \o <<message>>
    <3> SUFFICES ASSUME NEW y \in Proxy, NEW u \in Thread, y \in D, u = t
                 PROVE  calls'[y][u] = calls[y][u] \o <<message>>
      BY <2>2, <2>3 DEF TypeOK
    <3>1. calls'[y][u] = Append(calls[y][u], message) /\ calls[y][u] \in Seq(Call)
      BY <2>2, <2>3 DEF TypeOK
    <3> QED  BY <2>2, <3>1, AppendIsConcat
  <2> QED  BY <2>3, <2>4, <2>5, CallsGrow
<1>8. CASE UNCHANGED vars
  BY <1>1, <1>8 DEF vars
<1> QED  BY <1>2, <1>3, <1>4, <1>5, <1>6, <1>7, <1>8 DEF Next, ClientStep

\* A step of a thread: its first call goes on, or the next one, which has not begun, is
\* first.
LEMMA ThreadGoes ==
    ASSUME TypeOK, QueueInv, NEW x \in Proxy, NEW t \in Thread, ThreadStep(x, t)
    PROVE  \/ Return(x, t)
           \/ \E c \in Call : /\ Sound(c) /\ c.op = calls[x][t][1].op
                              /\ c.server = calls[x][t][1].server
                              /\ calls' = [calls EXCEPT ![x][t] = [@ EXCEPT ![1] = c]]
<1> DEFINE h == calls[x][t][1]
<1>1. /\ CallsOK /\ ~Idle(x, t) /\ h \in Call /\ Sound(h)
  BY ThreadActive, FirstCall DEF QueueInv
<1>2. ASSUME NEW stage \in Stage, Goto(x, t, stage), h.op \notin Owner \/ h.stage # "start"
      PROVE  \E c \in Call : /\ Sound(c) /\ c.op = h.op /\ c.server = h.server
                             /\ calls' = [calls EXCEPT ![x][t] = [@ EXCEPT ![1] = c]]
  <2> DEFINE c == [h EXCEPT !.stage = stage]
  <2>1. c \in Call /\ c.op = h.op /\ c.server = h.server /\ c.address = h.address
    BY <1>1 DEF Call
  <2>2. Sound(c)
    BY <1>1, <1>2, <2>1 DEF Sound
  <2>3. calls' = [calls EXCEPT ![x][t] = [@ EXCEPT ![1] = c]]
    BY <1>2 DEF Goto
  <2> HIDE DEF c
  <2> QED  BY <2>1, <2>2, <2>3
<1>3. ASSUME NEW address \in Address, GotoLink(x, t, address), h.op \in Owner => address = h.op
      PROVE  \E c \in Call : /\ Sound(c) /\ c.op = h.op /\ c.server = h.server
                             /\ calls' = [calls EXCEPT ![x][t] = [@ EXCEPT ![1] = c]]
  <2> DEFINE c == [h EXCEPT !.stage = "link", !.address = address]
  <2>1. c \in Call /\ c.op = h.op /\ c.server = h.server /\ c.address = address
    BY <1>1 DEF Call, Stage
  <2>2. Sound(c)
    BY <1>3, <2>1 DEF Sound
  <2>3. calls' = [calls EXCEPT ![x][t] = [@ EXCEPT ![1] = c]]
    BY <1>3 DEF GotoLink
  <2> HIDE DEF c
  <2> QED  BY <2>1, <2>2, <2>3
<1>4. CASE Claim(x, t)
  BY <1>3, <1>4 DEF Claim, At, Address, Source
<1>5. CASE LookupDynamic(x, t)
  <2>1. h.op \notin Owner
    BY <1>5 DEF LookupDynamic, At, Owner
  <2>2. CASE info[h.server] = None \/ info[h.server].address = None
    BY <1>5, <2>2 DEF LookupDynamic
  <2>3. CASE ~(info[h.server] = None \/ info[h.server].address = None)
    <3>1. info[h.server].address \in Address
      BY <1>1, <2>3 DEF TypeOK, Info, Call
    <3>2. GotoLink(x, t, info[h.server].address)
      BY <1>5, <2>3 DEF LookupDynamic
    <3> QED  BY <1>3, <2>1, <3>1, <3>2
  <2> QED  BY <2>2, <2>3
<1>6. CASE Link(x, t) \/ AddToProxy(x, t) \/ AddFails(x, t) \/ Unlink(x, t) \/ CacheRead(x, t)
  BY <1>2, <1>6 DEF Link, AddToProxy, AddFails, Unlink, CacheRead, At, Stage
<1>7. CASE Disclaim(x, t) \/ ReceiveDynamic(x, t)
  BY <1>2, <1>7 DEF Disclaim, ReceiveDynamic, At, Stage, Owner
<1>8. CASE CacheWrite(x, t) \/ CacheErase(x, t)
  BY <1>8 DEF CacheWrite, CacheErase
<1> QED  BY <1>4, <1>5, <1>6, <1>7, <1>8 DEF ThreadStep

LEMMA ThreadQueueInv ==
    ASSUME TypeOK, QueueInv, NEW x \in Proxy, NEW t \in Thread, ThreadStep(x, t)
    PROVE  QueueInv' /\ (calls'[x][t] # <<>> => \/ calls'[x][t][1].stage = "start"
                                                \/ ~Return(x, t))
<1> DEFINE q == calls[x][t]
<1>1. /\ CallsOK /\ ~Idle(x, t) /\ q \in Seq(Call) /\ q # <<>>
      /\ Len(q) \in Nat /\ Len(q) >= 1 /\ OthersKeep(x, t)
  BY ThreadActive, ThreadQueue, HeadHas DEF CallsOK, Idle
<1>2. \A i \in 1 .. Len(q) : Sound(q[i]) /\ (i > 1 => q[i].stage = "start")
  BY DEF QueueInv
<1>3. ASSUME Return(x, t)
      PROVE  \A i \in 1 .. Len(calls'[x][t]) : calls'[x][t][i].stage = "start"
  <2>1. calls'[x][t] = Tail(q)
    BY <1>1, <1>3 DEF Return, CallsOK
  <2>2. \A i \in 1 .. Len(Tail(q)) : Tail(q)[i] = q[i + 1] /\ i + 1 \in 1 .. Len(q) /\ i + 1 > 1
    BY <1>1
  <2> HIDE DEF q
  <2> QED  BY <1>2, <2>1, <2>2
<1>4. ASSUME NEW c \in Call, Sound(c), calls' = [calls EXCEPT ![x][t] = [@ EXCEPT ![1] = c]]
      PROVE  \A i \in 1 .. Len(calls'[x][t]) :
                Sound(calls'[x][t][i]) /\ (i > 1 => calls'[x][t][i].stage = "start")
  <2>1. calls'[x][t] = [q EXCEPT ![1] = c]
    BY <1>1, <1>4 DEF CallsOK
  <2>2. /\ Len([q EXCEPT ![1] = c]) = Len(q)
        /\ \A i \in 1 .. Len(q) : [q EXCEPT ![1] = c][i] = IF i = 1 THEN c ELSE q[i]
    BY <1>1, ExceptSeq
  <2> DEFINE r == [q EXCEPT ![1] = c]
  <2>3. \A i \in 1 .. Len(r) :
           r[i] = IF i = 1 THEN c ELSE q[i]
    BY <2>2
  <2>4. calls'[x][t] = r /\ Len(r) = Len(q)
    BY <2>1, <2>2
  <2> HIDE DEF q, r
  <2>5. \A i \in 1 .. Len(r) : Sound(r[i]) /\ (i > 1 => r[i].stage = "start")
    <3> SUFFICES ASSUME NEW i \in 1 .. Len(r)
                 PROVE  Sound(r[i]) /\ (i > 1 => r[i].stage = "start")
      OBVIOUS
    <3>1. CASE i = 1
      BY <1>4, <2>3, <3>1
    <3>2. CASE i # 1
      BY <1>2, <2>3, <2>4, <3>2
    <3> QED  BY <3>1, <3>2
  <2> QED  BY <2>4, <2>5
<1>5. \A i \in 1 .. Len(calls'[x][t]) :
         Sound(calls'[x][t][i]) /\ (i > 1 => calls'[x][t][i].stage = "start")
  BY <1>3, <1>4, ThreadGoes DEF Sound
<1>6. QueueInv'
  BY <1>1, <1>5 DEF QueueInv, OthersKeep, Sound
<1>7. ASSUME calls'[x][t] # <<>>, Return(x, t)
      PROVE  calls'[x][t][1].stage = "start"
  <2>1. calls'[x][t] \in Seq(Call)
    BY <1>1, <1>7, ReturnType DEF CallsOK
  <2>2. 1 \in 1 .. Len(calls'[x][t])
    BY <1>7, <2>1, EmptySeq, LenProperties
  <2> QED  BY <1>3, <1>7, <2>2
<1> QED  BY <1>6, <1>7

\* What a thread does to a name that its first call is about, and to all others.
LEMMA ThreadNames ==
    ASSUME TypeOK, NEW x \in Proxy, NEW t \in Thread, ThreadStep(x, t),
           NEW y \in Proxy, NEW s \in Server,
           y # x \/ calls[x][t][1].server # s \/ calls[x][t][1].op \in Owner
    PROVE  /\ s \in authoritative[y] => s \in authoritative'[y]
           /\ \/ backend'[y][s] = backend[y][s]
              \/ /\ calls[x][t][1].op \in Owner /\ calls[x][t][1].stage # "start"
                 /\ backend'[y][s] = calls[x][t][1].address
<1> DEFINE c == calls[x][t][1]
<1>1. c \in Call
  BY ThreadActive
<1>2. \/ UNCHANGED <<authoritative, backend>>
      \/ /\ authoritative' = [authoritative EXCEPT ![x] = @ \cup {c.server}]
         /\ UNCHANGED backend
      \/ /\ c.op \notin Owner /\ UNCHANGED backend
         /\ authoritative' = [authoritative EXCEPT ![x] = @ \ {c.server}]
      \/ /\ c.op \notin Owner /\ UNCHANGED authoritative
         /\ backend' = [backend EXCEPT ![x][c.server] = None]
      \/ /\ c.stage # "start" /\ UNCHANGED authoritative
         /\ backend' = [backend EXCEPT ![x][c.server] = c.address]
  BY DEF ThreadStep, Claim, ReceiveDynamic, LookupDynamic, Link, AddToProxy, AddFails, Disclaim,
         Unlink, CacheRead, CacheWrite, CacheErase, At, directory, Owner, Removes
<1>3. c.server \in Server
  BY <1>1 DEF Call
<1>4. /\ backend \in [Proxy -> [Server -> Address]]
      /\ authoritative \in [Proxy -> SUBSET Server]
  BY DEF TypeOK
<1> HIDE DEF c
<1>5. y # x \/ c.server # s \/ c.op \in Owner
  BY DEF c
<1>6. /\ s \in authoritative[y] => s \in authoritative'[y]
      /\ \/ backend'[y][s] = backend[y][s]
         \/ c.op \in Owner /\ c.stage # "start" /\ backend'[y][s] = c.address
  BY <1>2, <1>3, <1>4, <1>5
<1> QED  BY <1>6 DEF c

LEMMA ThreadSecures ==
    ASSUME TypeOK, QueueInv, NEW y \in Proxy, NEW t \in Thread, ThreadStep(y, t),
           NEW x \in Proxy, NEW s \in Server, Secured(x, s), ~Ending(x, s)
    PROVE  Secured(x, s)'
<1> DEFINE c == calls[y][t][1]
<1>1. /\ CallsOK /\ ~Idle(y, t) /\ c \in Call /\ Sound(c) /\ OthersKeep(y, t)
  BY ThreadActive, ThreadQueue, FirstCall DEF QueueInv
<1>2. CASE y = x /\ c.server = s /\ c.op \notin Owner
  <2>1. c.op \in {"dynamic", "forget"} /\ c.stage \in {"start", "failed"}
    BY <1>1, <1>2 DEF Ending, Secured, Challenged, Running, Call, Owner
  <2>2. ReceiveDynamic(y, t)
    BY <1>1, <2>1 DEF ThreadStep, Claim, LookupDynamic, Link, AddToProxy, AddFails, Disclaim, Unlink,
                      CacheRead, CacheWrite, CacheErase, At, Registers, Removes
  <2>3. Return(y, t) /\ UNCHANGED <<backend, authoritative>>
    BY <1>2, <2>2 DEF ReceiveDynamic, Ignores, Secured, directory
  <2>4. calls'[y][t] # <<>> => calls'[y][t][1].stage = "start"
    BY <2>3, ThreadQueueInv
  <2> QED  BY <1>1, <1>2, <2>3, <2>4 DEF Secured, Challenged, Running, OthersKeep, Idle
<1>3. CASE ~(y = x /\ c.server = s /\ c.op \notin Owner)
  <2>1. s \in authoritative'[x] /\ backend'[x][s] \in {"managed", "config"}
    BY <1>1, <1>3, ThreadNames DEF Secured, Sound, Owner
  <2>2. ASSUME Challenged(x, s)'
        PROVE  FALSE
    <3>1. PICK u \in Thread : /\ Running(x, u, {"dynamic", "forget"}, s)'
                              /\ calls'[x][u][1].stage \notin {"start", "failed"}
      BY <2>2 DEF Challenged
    <3>2. CASE y # x \/ u # t
      BY <1>1, <3>1, <3>2 DEF OthersKeep, Secured, Challenged, Running, Idle
    <3>3. CASE y = x /\ u = t
      <4>1. ~Return(y, t)
        BY <3>1, <3>3, ThreadQueueInv DEF Running, Idle
      <4>2. PICK d \in Call : /\ d.op = c.op /\ d.server = c.server
                              /\ calls' = [calls EXCEPT ![y][t] = [@ EXCEPT ![1] = d]]
        BY <4>1, ThreadGoes
      <4>3. calls'[y][t][1] = d
        <5>1. CallsOK /\ ~Idle(y, t)
          BY <1>1
        <5>2. calls' = [calls EXCEPT ![y][t] = [@ EXCEPT ![1] = d]]
          BY <4>2
        <5> HIDE DEF c
        <5> QED  BY <5>1, <5>2, GoesHead
      <4> QED  BY <1>3, <3>1, <3>3, <4>2, <4>3 DEF Running, Owner
    <3> QED  BY <3>2, <3>3
  <2> QED  BY <2>1, <2>2 DEF Secured
<1> QED  BY <1>2, <1>3

\* AuthoritativeKept, for any proxies of either software, servers and callers and any
\* number of calls and changes of the file: a name that a proxy reaches at its owner's
\* address, with no call of the API past the test of authoritativeServers, stays so until
\* an owner takes it away, whatever the interleaving of the threads and of the test of
\* hasServer with the registrations.
THEOREM AuthoritativeIsKept == Spec => AuthoritativeKept
<1> DEFINE Step == \A x \in Proxy, s \in Server :
        Secured(x, s) /\ ~Ending(x, s) => Secured(x, s)'
<1>1. Init => QueueInv
  <2> SUFFICES ASSUME Init PROVE QueueInv
    OBVIOUS
  <2>1. \A x \in Proxy, t \in Thread : Len(calls[x][t]) = 0
    BY DEF Init
  <2> QED  BY <2>1 DEF QueueInv
<1>2. TypeOK /\ QueueInv /\ [Next]_vars => QueueInv' /\ Step
  <2> SUFFICES ASSUME TypeOK, QueueInv, [Next]_vars PROVE QueueInv' /\ Step
    OBVIOUS
  <2>1. CASE \E x \in Proxy, t \in Thread : ThreadStep(x, t)
    BY <2>1, ThreadQueueInv, ThreadSecures
  <2>2. CASE ~ \E x \in Proxy, t \in Thread : ThreadStep(x, t)
    BY <2>2, OthersWait DEF Secured, Challenged, Running, HeadKept, Idle
  <2> QED  BY <2>1, <2>2
<1> QED  BY <1>1, <1>2, DirectoryTypeCorrect, PTL DEF Spec, AuthoritativeKept
=============================================================================
