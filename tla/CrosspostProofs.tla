--------------------------- MODULE CrosspostProofs ---------------------------
(***************************************************************************)
(* OAuth flows, tokens and the history, for any number of flows, requests  *)
(* and faults.  A code is redeemed once because its state leaves the store *)
(* with the callback; the history is true because a request has nothing    *)
(* published on a platform it has still to try; and the stored token is    *)
(* live because a token on its way to be stored is known to nobody else.   *)
(***************************************************************************)
EXTENDS Crosspost, FiniteSetTheorems, TLAPS

FlowPcs == {"new", "pending", "redeem", "pages", "upsert", "replace", "recreate", "done"}
Flow == [platform : Platforms \cup {""}, pc : FlowPcs,
         age : Int, grant : Nat, redeemed : Nat]

FlowTyped == flow \in [Flows -> Flow] /\ issued \in [Platforms -> Nat]

\* A state that is still in the store was not redeemed before its callback
FlowOnce ==
  \A f \in Flows :
    /\ flow[f].redeemed <= 1
    /\ flow[f].pc \in {"new", "pending"} => flow[f].redeemed = 0
    /\ flow[f].pc = "redeem" => ~ Fresh(f)
    /\ flow[f].pc = "new" => flow[f].age = Never
    /\ flow[f].pc # "new" => flow[f].platform \in Platforms

StoreBounded == \A p \in Platforms : Cardinality(PendingOn(p)) <= MaxPending

FlowInv == FlowTyped /\ FlowOnce /\ StoreBounded

\* The flows in the store on p, under another assignment of flows
Pending(F, p) == {f \in Flows : F[f].platform = p /\ F[f].age \in 0 .. TTL}

LEMMA FewerPending ==
  ASSUME NEW p, NEW F, Pending(F, p) \subseteq PendingOn(p),
         Cardinality(PendingOn(p)) <= MaxPending
  PROVE  Cardinality(Pending(F, p)) <= MaxPending
<1>1. IsFiniteSet(PendingOn(p))
  BY FS_Subset, CrosspostAssumption DEF PendingOn
<1>2. /\ Cardinality(Pending(F, p)) <= Cardinality(PendingOn(p))
      /\ IsFiniteSet(Pending(F, p))
  BY <1>1, FS_Subset
<1>. QED BY <1>1, <1>2, FS_CardinalityType, CrosspostAssumption

LEMMA OneMorePending ==
  ASSUME NEW p, NEW F, NEW f, Pending(F, p) \subseteq PendingOn(p) \cup {f}, HasRoom(p)
  PROVE  Cardinality(Pending(F, p)) <= MaxPending
<1>1. IsFiniteSet(PendingOn(p))
  BY FS_Subset, CrosspostAssumption DEF PendingOn
<1>2. /\ IsFiniteSet(PendingOn(p) \cup {f})
      /\ Cardinality(PendingOn(p) \cup {f}) <= Cardinality(PendingOn(p)) + 1
  <2>. DEFINE S == PendingOn(p)
  <2>. HIDE DEF S
  <2>1. IsFiniteSet(S) /\ Cardinality(S) \in Nat
    BY <1>1, FS_CardinalityType DEF S
  <2>2. /\ IsFiniteSet(S \cup {f})
        /\ Cardinality(S \cup {f}) = Cardinality(S) \/ Cardinality(S \cup {f}) = Cardinality(S) + 1
    BY <2>1, FS_AddElement
  <2>. QED BY <2>1, <2>2 DEF S
<1>3. /\ IsFiniteSet(Pending(F, p))
      /\ Cardinality(Pending(F, p)) <= Cardinality(PendingOn(p) \cup {f})
  BY <1>2, FS_Subset
<1>. QED BY <1>1, <1>2, <1>3, FS_CardinalityType, CrosspostAssumption DEF HasRoom

\* The store after a step is the flows it had, and f when there was room
LEMMA StoreKept ==
  ASSUME FlowInv, flow' \in [Flows -> Flow], NEW f \in Flows,
         \A g \in Flows \ {f} : flow'[g] = flow[g],
         \/ flow'[f].age \notin 0 .. TTL
         \/ Fresh(f) /\ flow'[f].platform = flow[f].platform
         \/ HasRoom(flow'[f].platform)
  PROVE  StoreBounded'
<1>. SUFFICES ASSUME NEW p \in Platforms PROVE Cardinality(Pending(flow', p)) <= MaxPending
  BY DEF StoreBounded, Pending, PendingOn, Fresh
<1>1. Cardinality(PendingOn(p)) <= MaxPending
  BY DEF FlowInv, StoreBounded
<1>2. Pending(flow', p) \subseteq PendingOn(p) \cup {f}
  BY DEF Pending, PendingOn, Fresh
<1>3. CASE f \notin Pending(flow', p) \/ f \in PendingOn(p)
  <2>1. Pending(flow', p) \subseteq PendingOn(p)
    BY <1>2, <1>3
  <2>. QED BY <1>1, <2>1, FewerPending
<1>4. CASE f \in Pending(flow', p) /\ f \notin PendingOn(p)
  <2>1. HasRoom(p)
    BY <1>4 DEF Pending, PendingOn, Fresh
  <2>. QED BY <1>2, <2>1, OneMorePending
<1>. QED BY <1>3, <1>4

LEMMA FlowInit == Init => FlowInv
<1>. SUFFICES ASSUME Init PROVE FlowInv
  OBVIOUS
<1>1. FlowTyped
  <2>1. NewFlow \in Flow
    BY DEF NewFlow, Flow, FlowPcs, None, Never
  <2>. QED BY <2>1 DEF Init, FlowTyped, None
<1>2. FlowOnce
  <2>1. \A f \in Flows : flow[f] = NewFlow
    BY DEF Init
  <2>2. NewFlow.redeemed = 0 /\ NewFlow.pc = "new" /\ NewFlow.age = Never
    BY DEF NewFlow
  <2>. QED BY <2>1, <2>2 DEF FlowOnce
<1>3. \A p \in Platforms : PendingOn(p) = {}
  BY CrosspostAssumption DEF Init, PendingOn, NewFlow, Never, Fresh
<1>4. StoreBounded
  BY <1>3, FS_EmptySet, CrosspostAssumption DEF StoreBounded
<1>. QED BY <1>1, <1>2, <1>4 DEF FlowInv

\* A flow's steps, and what each leaves of it
Steps(f) ==
  \/ \E p \in Platforms : Authorize(f, p)
  \/ Callback(f) \/ RedeemFails(f) \/ Redeem(f) \/ SelectPage(f)
  \/ Upsert(f) \/ Replace(f) \/ Recreate(f)

\* The new value r of a flow that has taken a step
Stepped(f, r) ==
  /\ r \in Flow
  /\ r.redeemed <= 1
  /\ r.pc # "new" /\ r.platform \in Platforms
  /\ r.pc = "pending" => r.redeemed = 0
  /\ r.pc = "redeem" => r.age \notin 0 .. TTL
  /\ \/ r.age \notin 0 .. TTL
     \/ Fresh(f) /\ r.platform = flow[f].platform
     \/ HasRoom(r.platform)

LEMMA SteppedKeeps ==
  ASSUME FlowInv, NEW f \in Flows, NEW r, Stepped(f, r), flow' = [flow EXCEPT ![f] = r],
         issued' \in [Platforms -> Nat]
  PROVE  FlowInv'
<1>. USE DEF Stepped
<1>1. flow \in [Flows -> Flow]
  BY DEF FlowInv, FlowTyped
<1>2. flow' \in [Flows -> Flow] /\ flow'[f] = r /\ \A g \in Flows \ {f} : flow'[g] = flow[g]
  BY <1>1
<1>3. FlowTyped' /\ StoreBounded'
  BY <1>2, StoreKept DEF FlowTyped
<1>4. FlowOnce'
  <2>. SUFFICES ASSUME NEW g \in Flows
                PROVE  /\ flow'[g].redeemed <= 1
                       /\ flow'[g].pc \in {"new", "pending"} => flow'[g].redeemed = 0
                       /\ flow'[g].pc = "redeem" => flow'[g].age \notin 0 .. TTL
                       /\ flow'[g].pc = "new" => flow'[g].age = Never
                       /\ flow'[g].pc # "new" => flow'[g].platform \in Platforms
    BY DEF FlowOnce, Fresh
  <2>1. CASE g = f
    BY <1>2, <2>1
  <2>2. CASE g # f
    BY <1>2, <2>2 DEF FlowInv, FlowOnce, Fresh
  <2>. QED BY <2>1, <2>2
<1>. QED BY <1>3, <1>4 DEF FlowInv

LEMMA FlowChanged ==
  ASSUME NEW x \in Flow
  PROVE  /\ \A v \in Platforms : [x EXCEPT !.platform = v] \in Flow
         /\ \A v \in FlowPcs : [x EXCEPT !.pc = v] \in Flow
         /\ \A v \in Int : [x EXCEPT !.age = v] \in Flow
         /\ \A v \in Nat : [x EXCEPT !.grant = v] \in Flow
         /\ \A v \in Nat : [x EXCEPT !.redeemed = v] \in Flow
BY DEF Flow

LEMMA PcStepped ==
  ASSUME FlowInv, NEW f \in Flows, flow[f].pc # "new", issued' \in [Platforms -> Nat],
         NEW pc \in {"pages", "upsert", "replace", "recreate", "done"}, FlowTo(f, pc)
  PROVE  FlowInv'
<1>. DEFINE r == [flow[f] EXCEPT !.pc = pc]
<1>1. flow[f] \in Flow /\ flow[f].redeemed <= 1 /\ flow[f].platform \in Platforms
  BY DEF FlowInv, FlowTyped, FlowOnce
<1>2. r \in Flow
  BY <1>1, FlowChanged DEF FlowPcs
<1>3. Stepped(f, r)
  BY <1>1, <1>2 DEF Stepped, Flow, Fresh
<1>4. flow' = [flow EXCEPT ![f] = r]
  BY DEF FlowTo
<1>. QED BY <1>3, <1>4, SteppedKeeps

LEMMA StepsKeep == ASSUME FlowInv, NEW f \in Flows, Steps(f) PROVE FlowInv'
<1>. USE DEF OnlyFlows, OnlyAccounts
<1>1. /\ flow[f] \in Flow /\ flow[f].redeemed <= 1
      /\ flow[f].pc \in {"new", "pending"} => flow[f].redeemed = 0
      /\ flow[f].pc = "redeem" => ~ Fresh(f)
      /\ flow[f].pc # "new" => flow[f].platform \in Platforms
  BY DEF FlowInv, FlowTyped, FlowOnce
<1>2. issued \in [Platforms -> Nat] /\ 0 \in Int /\ -1 \in Int /\ 1 \in Nat
  BY DEF FlowInv, FlowTyped
<1>3. "pending" \in FlowPcs /\ "redeem" \in FlowPcs /\ "pages" \in FlowPcs
      /\ "upsert" \in FlowPcs /\ "done" \in FlowPcs
  BY DEF FlowPcs
<1>4. ASSUME NEW p \in Platforms, Authorize(f, p) PROVE FlowInv'
  <2>. DEFINE x == [flow[f] EXCEPT !.platform = p]
              y == [x EXCEPT !.pc = "pending"]
              r == [flow[f] EXCEPT !.platform = p, !.pc = "pending", !.age = 0]
  <2>1. x \in Flow
    BY <1>1, FlowChanged, Zenon
  <2>2. y \in Flow
    BY <1>3, <2>1, FlowChanged, Zenon
  <2>3. r \in Flow
    BY <1>2, <2>2, FlowChanged, Zenon
  <2>4. r.redeemed = flow[f].redeemed /\ r.pc = "pending" /\ r.age = 0 /\ r.platform = p
    BY <1>1 DEF Flow
  <2>5. flow' = [flow EXCEPT ![f] = r] /\ issued' = issued /\ HasRoom(p) /\ flow[f].pc = "new"
    BY <1>4 DEF Authorize
  <2>. HIDE DEF r
  <2>6. Stepped(f, r)
    BY <1>1, <2>3, <2>4, <2>5 DEF Stepped
  <2>. QED BY <1>2, <2>5, <2>6, SteppedKeeps
<1>5. CASE Callback(f)
  <2>. DEFINE x == [flow[f] EXCEPT !.pc = "redeem"]
              y == [x EXCEPT !.age = -1]
              r == [flow[f] EXCEPT !.pc = "redeem", !.age = -1, !.redeemed = 1]
  <2>1. Fresh(f) /\ flow[f].redeemed = 0 /\ flow[f].platform \in Platforms
    BY <1>1, <1>5 DEF Callback
  <2>2. x \in Flow
    BY <1>1, <1>3, FlowChanged, Zenon
  <2>3. y \in Flow
    BY <1>2, <2>2, FlowChanged, Zenon
  <2>4. r \in Flow
    BY <1>2, <2>3, FlowChanged, Zenon
  <2>5. r.redeemed = 1 /\ r.pc = "redeem" /\ r.age = -1 /\ r.platform = flow[f].platform
    BY <1>1 DEF Flow
  <2>6. [Popped(f, "redeem") EXCEPT !.redeemed = @ + 1] = r
    <3>1. [flow[f] EXCEPT !.pc = "redeem", !.age = -1].redeemed = 0
      BY <1>1, <2>1 DEF Flow
    <3>2. Popped(f, "redeem") = [flow[f] EXCEPT !.pc = "redeem", !.age = -1]
      BY DEF Popped, Never
    <3>3. Popped(f, "redeem").redeemed + 1 = 1
      <4>1. Popped(f, "redeem").redeemed = 0
        BY <3>1, <3>2, Zenon
      <4>. HIDE DEF Popped
      <4>. QED BY <4>1
    <3>4. [Popped(f, "redeem") EXCEPT !.redeemed = @ + 1] = [Popped(f, "redeem") EXCEPT !.redeemed = 1]
      BY <3>3, Zenon
    <3>. QED BY <3>2, <3>4
  <2>7. flow' = [flow EXCEPT ![f] = r] /\ issued' = issued
    BY <1>5, <2>6 DEF Callback
  <2>. HIDE DEF r
  <2>8. Stepped(f, r)
    BY <2>1, <2>4, <2>5, CrosspostAssumption DEF Stepped
  <2>. QED BY <1>2, <2>7, <2>8, SteppedKeeps
<1>6. CASE Redeem(f)
  <2>. DEFINE p == flow[f].platform
              known == [flow[f] EXCEPT !.grant = NextToken(p)]
  <2>1. issued' \in [Platforms -> Nat] /\ NextToken(p) \in Nat /\ flow[f].pc = "redeem" /\ ~ Fresh(f)
    BY <1>1, <1>2, <1>6 DEF Redeem, Granted, NextToken
  <2>2. known \in Flow
    BY <1>1, <2>1, FlowChanged, Zenon
  <2>3. /\ known.redeemed = flow[f].redeemed /\ known.platform = flow[f].platform
        /\ known.age = flow[f].age
    BY <1>1 DEF Flow
  <2>4. \/ flow' = [flow EXCEPT ![f] = [known EXCEPT !.pc = "upsert"]]
        \/ flow' = [flow EXCEPT ![f] = [known EXCEPT !.pc = "done"]]
        \/ HasRoom(p) /\ flow' = [flow EXCEPT ![f] = [known EXCEPT !.pc = "pages", !.age = 0]]
    BY <1>6 DEF Redeem
  <2>. HIDE DEF known
  <2>5. ASSUME NEW pc \in {"upsert", "done"}, flow' = [flow EXCEPT ![f] = [known EXCEPT !.pc = pc]]
        PROVE  FlowInv'
    <3>1. [known EXCEPT !.pc = pc] \in Flow
      BY <1>3, <2>2, FlowChanged DEF FlowPcs
    <3>2. Stepped(f, [known EXCEPT !.pc = pc])
      BY <1>1, <2>1, <2>2, <2>3, <3>1 DEF Stepped, Flow, Fresh
    <3>. QED BY <2>1, <2>5, <3>2, SteppedKeeps
  <2>6. ASSUME HasRoom(p), flow' = [flow EXCEPT ![f] = [known EXCEPT !.pc = "pages", !.age = 0]]
        PROVE  FlowInv'
    <3>. DEFINE x == [known EXCEPT !.pc = "pages"]
                r == [known EXCEPT !.pc = "pages", !.age = 0]
    <3>1. x \in Flow
      BY <1>3, <2>2, FlowChanged, Zenon
    <3>2. r \in Flow
      BY <1>2, <3>1, FlowChanged, Zenon
    <3>3. r.pc = "pages" /\ r.platform = p /\ r.redeemed = known.redeemed
      BY <2>2, <2>3 DEF Flow
    <3>4. flow' = [flow EXCEPT ![f] = r]
      BY <2>6
    <3>. HIDE DEF r
    <3>5. Stepped(f, r)
      BY <1>1, <2>1, <2>3, <2>6, <3>2, <3>3 DEF Stepped
    <3>. QED BY <2>1, <3>4, <3>5, SteppedKeeps
  <2>. QED BY <2>4, <2>5, <2>6
<1>7. CASE SelectPage(f)
  <2>. PICK pc \in {"upsert", "done"} : flow' = [flow EXCEPT ![f] = Popped(f, pc)]
    BY <1>7 DEF SelectPage
  <2>. DEFINE x == [flow[f] EXCEPT !.pc = pc]
              r == [flow[f] EXCEPT !.pc = pc, !.age = -1]
  <2>1. x \in Flow
    BY <1>1, <1>3, FlowChanged
  <2>2. r \in Flow
    BY <1>2, <2>1, FlowChanged, Zenon
  <2>3. r.redeemed = flow[f].redeemed /\ r.pc = pc /\ r.age = -1 /\ r.platform = flow[f].platform
    BY <1>1 DEF Flow
  <2>4. flow' = [flow EXCEPT ![f] = r] /\ issued' = issued /\ flow[f].pc = "pages"
    BY <1>7 DEF SelectPage, Popped, Never
  <2>. HIDE DEF r
  <2>5. Stepped(f, r)
    BY <1>1, <2>2, <2>3, <2>4, CrosspostAssumption DEF Stepped
  <2>. QED BY <1>2, <2>4, <2>5, SteppedKeeps
<1>8. CASE RedeemFails(f) \/ Upsert(f) \/ Replace(f) \/ Recreate(f)
  <2>1. issued' = issued /\ flow[f].pc # "new"
    BY <1>8 DEF RedeemFails, Upsert, Replace, Recreate
  <2>2. \E pc \in {"replace", "recreate", "done"} : FlowTo(f, pc)
    BY <1>8 DEF RedeemFails, Upsert, Replace, Recreate
  <2>. QED BY <1>2, <2>1, <2>2, PcStepped
<1>. QED BY <1>4, <1>5, <1>6, <1>7, <1>8 DEF Steps

LEMMA TickKeeps == ASSUME FlowInv, Tick PROVE FlowInv'
<1>. DEFINE age(f) == IF Fresh(f) THEN flow[f].age + 1 ELSE flow[f].age
<1>1. flow \in [Flows -> Flow]
  BY DEF FlowInv, FlowTyped
<1>2. \A f \in Flows : flow'[f] = [flow[f] EXCEPT !.age = age(f)]
  BY DEF Tick
<1>3. issued' = issued /\ flow' = [f \in Flows |-> flow'[f]]
  BY DEF Tick, OnlyFlows
<1>4. ASSUME NEW f \in Flows
      PROVE  /\ flow'[f] \in Flow
             /\ flow'[f].pc = flow[f].pc /\ flow'[f].platform = flow[f].platform
             /\ flow'[f].redeemed = flow[f].redeemed
             /\ Fresh(f)' => Fresh(f)
             /\ ~ Fresh(f) => flow'[f].age = flow[f].age
  <2>1. flow[f] \in Flow /\ age(f) \in Int
    <3>1. flow[f] \in Flow
      BY <1>1
    <3>2. flow[f].age \in Int
      BY <3>1 DEF Flow
    <3>. QED BY <3>1, <3>2
  <2>2. flow'[f] \in Flow
    BY <1>2, <2>1, FlowChanged, ZenonT(30)
  <2>3. /\ flow'[f].pc = flow[f].pc /\ flow'[f].platform = flow[f].platform
        /\ flow'[f].redeemed = flow[f].redeemed /\ flow'[f].age = age(f)
    BY <1>2, <2>1 DEF Flow
  <2>. QED BY <2>2, <2>3 DEF Fresh
<1>5. FlowTyped'
  BY <1>3, <1>4 DEF FlowInv, FlowTyped
<1>6. FlowOnce'
  <2>. SUFFICES ASSUME NEW f \in Flows
                PROVE  /\ flow'[f].redeemed <= 1
                       /\ flow'[f].pc \in {"new", "pending"} => flow'[f].redeemed = 0
                       /\ flow'[f].pc = "redeem" => ~ Fresh(f)'
                       /\ flow'[f].pc = "new" => flow'[f].age = Never
                       /\ flow'[f].pc # "new" => flow'[f].platform \in Platforms
    BY DEF FlowOnce
  <2>1. flow[f].pc = "new" => ~ Fresh(f)
    BY CrosspostAssumption DEF FlowInv, FlowOnce, Fresh, Never
  <2>. QED BY <1>4, <2>1 DEF FlowInv, FlowOnce
<1>7. StoreBounded'
  <2>. SUFFICES ASSUME NEW p \in Platforms PROVE Cardinality(Pending(flow', p)) <= MaxPending
    BY DEF StoreBounded, Pending, PendingOn, Fresh
  <2>1. Pending(flow', p) \subseteq PendingOn(p)
    BY <1>4 DEF Pending, PendingOn, Fresh
  <2>. QED BY <2>1, FewerPending DEF FlowInv, StoreBounded
<1>. QED BY <1>5, <1>6, <1>7 DEF FlowInv

LEMMA FlowKept == FlowInv /\ [Next]_vars => FlowInv'
<1>. SUFFICES ASSUME FlowInv, [Next]_vars PROVE FlowInv'
  OBVIOUS
<1>1. CASE \E f \in Flows : Steps(f)
  BY <1>1, StepsKeep
<1>2. CASE Tick
  BY <1>2, TickKeeps
<1>3. ASSUME NEW r \in Requests, Refresh(r) PROVE FlowInv'
  <2>1. flow' = flow /\ issued' \in [Platforms -> Nat]
    BY <1>3 DEF Refresh, Rotated, NextToken, Connecting, FlowInv, FlowTyped
  <2>. QED BY <2>1 DEF FlowInv, FlowTyped, FlowOnce, StoreBounded, PendingOn, Fresh
<1>4. CASE flow' = flow /\ issued' = issued
  BY <1>4 DEF FlowInv, FlowTyped, FlowOnce, StoreBounded, PendingOn, Fresh
<1>5. ASSUME Next PROVE \/ \E f \in Flows : Steps(f)
                        \/ Tick
                        \/ \E r \in Requests : Refresh(r)
                        \/ flow' = flow /\ issued' = issued
  BY <1>5 DEF Next, Steps, Expire, Disconnect, StartPost, NextPlatform, Authenticate, Post, Commit,
    CommitFails, Connecting, OnlyAccounts
<1>. QED BY <1>1, <1>2, <1>3, <1>4, <1>5 DEF vars

\* However often the browser calls back, a code is redeemed once, and the store
\* of pending flows stays within its limit (OAuthStateStore.pop, set).
THEOREM CodesAreRedeemedOnce == Spec => []CodeRedeemedOnce
<1>1. FlowInv => CodeRedeemedOnce
  BY DEF FlowInv, FlowOnce, StoreBounded, CodeRedeemedOnce
<1>. QED BY <1>1, FlowInit, FlowKept, PTL DEF Spec
-----------------------------------------------------------------------------
(* The history *)

Fields == {"pc", "todo", "at", "cred", "row", "fresh", "results"}
Trying == {"auth", "post", "refresh", "repost"}

ReqTyped ==
  /\ req = [r \in Requests |-> req[r]]
  /\ published \in [Requests -> [Platforms -> Nat]]
  /\ \A r \in Requests :
       /\ DOMAIN req[r] = Fields
       /\ req[r].todo \subseteq Platforms
       /\ req[r].pc \in Trying => req[r].at \in Platforms /\ req[r].at \notin req[r].todo
       /\ req[r].results \subseteq Platforms \X {"posted", "failed"}

\* A platform the request has still to try
Untried(r, p) ==
  \/ req[r].pc = "new"
  \/ p \in req[r].todo
  \/ p = req[r].at /\ req[r].pc \in Trying

True(r, p) ==
  /\ published[r][p] \in {0, 1}
  /\ Untried(r, p) => published[r][p] = 0
  /\ <<p, "posted">> \in req[r].results => published[r][p] = 1
  /\ published[r][p] = 1 /\ r \notin faulty => <<p, "posted">> \in req[r].results
  /\ <<r, p>> \in recorded => published[r][p] = 1
  /\ req[r].pc = "done" /\ r \notin faulty /\ published[r][p] = 1 => <<r, p>> \in recorded

HistInv == ReqTyped /\ \A r \in Requests, p \in Platforms : True(r, p)

LEMMA HistInit == Init => HistInv
<1>. SUFFICES ASSUME Init PROVE HistInv
  OBVIOUS
<1>1. \A r \in Requests : req[r] = NewReq /\ \A p \in Platforms : published[r][p] = 0
  BY DEF Init
<1>2. NewReq.pc = "new" /\ NewReq.todo = {} /\ NewReq.results = {} /\ DOMAIN NewReq = Fields
  BY DEF NewReq, Fields
<1>3. ReqTyped
  <2>1. published \in [Requests -> [Platforms -> Nat]] /\ req = [r \in Requests |-> req[r]]
    BY DEF Init
  <2>. QED BY <1>1, <1>2, <2>1 DEF ReqTyped, Trying
<1>4. recorded = {}
  BY DEF Init
<1>. QED BY <1>1, <1>2, <1>3, <1>4 DEF HistInv, True

\* Only the request r moves
Moves(r) ==
  /\ req' = [s \in Requests |-> req'[s]]
  /\ published' \in [Requests -> [Platforms -> Nat]]
  /\ \A s \in Requests \ {r} : req'[s] = req[s] /\ published'[s] = published[s]
  /\ \A s \in Requests \ {r} : s \in faulty' <=> s \in faulty
  /\ \A s \in Requests \ {r}, p \in Platforms : <<s, p>> \in recorded' <=> <<s, p>> \in recorded
  /\ DOMAIN req'[r] = Fields
  /\ req'[r].todo \subseteq Platforms
  /\ req'[r].pc \in Trying => req'[r].at \in Platforms /\ req'[r].at \notin req'[r].todo
  /\ req'[r].results \subseteq Platforms \X {"posted", "failed"}

LEMMA MovesKeep ==
  ASSUME HistInv, NEW r \in Requests, Moves(r), \A p \in Platforms : True(r, p)'
  PROVE  HistInv'
<1>1. ReqTyped'
  <2>. SUFFICES ASSUME NEW s \in Requests
                PROVE  /\ DOMAIN req'[s] = Fields
                       /\ req'[s].todo \subseteq Platforms
                       /\ req'[s].pc \in Trying => req'[s].at \in Platforms /\ req'[s].at \notin req'[s].todo
                       /\ req'[s].results \subseteq Platforms \X {"posted", "failed"}
    BY DEF ReqTyped, Moves
  <2>1. CASE s = r
    BY <2>1 DEF Moves
  <2>2. CASE s # r
    BY <2>2 DEF Moves, HistInv, ReqTyped
  <2>. QED BY <2>1, <2>2
<1>2. ASSUME NEW s \in Requests, NEW p \in Platforms PROVE True(s, p)'
  <2>1. CASE s = r
    BY <2>1
  <2>2. CASE s # r
    BY <2>2 DEF Moves, HistInv, True, Untried
  <2>. QED BY <2>1, <2>2
<1>. QED BY <1>1, <1>2 DEF HistInv

\* What a request holds after its program counter moves
LEMMA ReqToSays ==
  ASSUME ReqTyped, NEW r \in Requests, NEW pc, ReqTo(r, pc)
  PROVE  /\ req' = [s \in Requests |-> req'[s]]
         /\ \A s \in Requests \ {r} : req'[s] = req[s]
         /\ DOMAIN req'[r] = Fields
         /\ req'[r].pc = pc
         /\ req'[r].todo = req[r].todo
         /\ req'[r].at = req[r].at
         /\ req'[r].results = req[r].results
         /\ req'[r].cred = req[r].cred /\ req'[r].row = req[r].row
         /\ req'[r].fresh = req[r].fresh
<1>1. req' = [req EXCEPT ![r] = [req[r] EXCEPT !.pc = pc]]
  BY DEF ReqTo
<1>2. DOMAIN req = Requests /\ DOMAIN req[r] = Fields
  BY DEF ReqTyped
<1>3. req'[r] = [req[r] EXCEPT !.pc = pc]
  BY <1>1, <1>2
<1>. QED BY <1>1, <1>2, <1>3 DEF Fields

\* What a request holds after the outcome of its platform is known
LEMMA ResultSays ==
  ASSUME ReqTyped, NEW r \in Requests, NEW outcome, Result(r, outcome)
  PROVE  /\ req' = [s \in Requests |-> req'[s]]
         /\ \A s \in Requests \ {r} : req'[s] = req[s]
         /\ DOMAIN req'[r] = Fields
         /\ req'[r].pc = "next"
         /\ req'[r].todo = req[r].todo
         /\ req'[r].at = req[r].at
         /\ req'[r].results = req[r].results \cup {<<req[r].at, outcome>>}
         /\ req'[r].cred = req[r].cred /\ req'[r].row = req[r].row
         /\ req'[r].fresh = req[r].fresh
<1>. DEFINE one == [req EXCEPT ![r] = [req[r] EXCEPT !.pc = "next"]]
<1>1. DOMAIN req = Requests /\ DOMAIN req[r] = Fields
  BY DEF ReqTyped
<1>2. one[r] = [req[r] EXCEPT !.pc = "next"] /\ DOMAIN one = Requests
  BY <1>1
<1>3. req' = [one EXCEPT ![r] = [one[r] EXCEPT
                 !.results = one[r].results \cup {<<req[r].at, outcome>>}]]
  BY <1>1, <1>2 DEF Result, Fields
<1>4. \A s \in Requests \ {r} : one[s] = req[s]
  BY <1>1
<1>5. one[r].results = req[r].results /\ DOMAIN one[r] = Fields /\ one[r].pc = "next"
        /\ one[r].todo = req[r].todo /\ one[r].at = req[r].at
        /\ one[r].cred = req[r].cred /\ one[r].row = req[r].row /\ one[r].fresh = req[r].fresh
  BY <1>1, <1>2 DEF Fields
<1>. HIDE DEF one
<1>6. req'[r] = [one[r] EXCEPT !.results = one[r].results \cup {<<req[r].at, outcome>>}]
  BY <1>2, <1>3
<1>7. req' = [s \in Requests |-> req'[s]] /\ \A s \in Requests \ {r} : req'[s] = req[s]
  BY <1>2, <1>3, <1>4
<1>. QED BY <1>5, <1>6, <1>7 DEF Fields

\* Nothing but the requests moves, and r has given up its platform
LEMMA GivenUpKeeps ==
  ASSUME HistInv, NEW r \in Requests, req[r].pc \in Trying, Result(r, "failed"),
         published' = published, recorded' = recorded,
         faulty' = faulty \/ faulty' = faulty \cup {r}
  PROVE  HistInv'
<1>1. ReqTyped
  BY DEF HistInv
<1>2. Moves(r)
  BY <1>1, ResultSays DEF Moves, ReqTyped, Trying
<1>3. ASSUME NEW p \in Platforms PROVE True(r, p)'
  BY <1>1, ResultSays DEF HistInv, True, Untried, Trying, ReqTyped
<1>. QED BY <1>2, <1>3, MovesKeep

\* Nothing but the requests moves, and r goes on trying the same platform
LEMMA StillTryingKeeps ==
  ASSUME HistInv, NEW r \in Requests, req[r].pc \in Trying,
         NEW pc \in Trying, ReqTo(r, pc),
         published' = published, recorded' = recorded, faulty' = faulty
  PROVE  HistInv'
<1>1. ReqTyped
  BY DEF HistInv
<1>2. Moves(r)
  BY <1>1, ReqToSays DEF Moves, ReqTyped
<1>3. ASSUME NEW p \in Platforms PROVE True(r, p)'
  BY <1>1, ReqToSays DEF HistInv, True, Untried, Trying, ReqTyped
<1>. QED BY <1>2, <1>3, MovesKeep

LEMMA AuthenticateKeeps ==
  ASSUME HistInv, NEW r \in Requests, Authenticate(r)
  PROVE  HistInv'
<1>1. req[r].pc \in Trying /\ published' = published /\ recorded' = recorded
  BY DEF Authenticate, Trying
<1>2. CASE ReqTo(r, "post") /\ Answered
  BY <1>1, <1>2, StillTryingKeeps DEF Answered, Trying
<1>3. CASE Result(r, "failed") /\ (Answered \/ Lost(r))
  BY <1>1, <1>3, GivenUpKeeps DEF Answered, Lost
<1>. QED BY <1>2, <1>3 DEF Authenticate

\* The post goes out: the platform holds it, and the request knows or is faulty
LEMMA PublishedKeeps ==
  ASSUME HistInv, NEW r \in Requests, req[r].pc \in Trying, Publish(r),
         recorded' = recorded,
         \/ Result(r, "posted") /\ faulty' = faulty
         \/ Result(r, "failed") /\ faulty' = faulty \cup {r}
  PROVE  HistInv'
<1>1. ReqTyped /\ req[r].at \in Platforms /\ req[r].at \notin req[r].todo
  BY DEF HistInv, ReqTyped
<1>2. published[r][req[r].at] = 0
  BY <1>1 DEF HistInv, True, Untried
<1>3. /\ published' \in [Requests -> [Platforms -> Nat]]
      /\ \A s \in Requests \ {r} : published'[s] = published[s]
      /\ \A p \in Platforms :
           published'[r][p] = IF p = req[r].at THEN 1 ELSE published[r][p]
  BY <1>1, <1>2 DEF Publish, ReqTyped
<1>4. PICK outcome \in {"posted", "failed"} :
        /\ Result(r, outcome)
        /\ \/ outcome = "posted" /\ faulty' = faulty
           \/ outcome = "failed" /\ faulty' = faulty \cup {r}
  OBVIOUS
<1>5. Moves(r)
  BY <1>1, <1>3, <1>4, ResultSays DEF Moves, ReqTyped, Trying
<1>6. ASSUME NEW p \in Platforms PROVE True(r, p)'
  <2>1. True(r, p) /\ (p \in req[r].todo => published[r][p] = 0)
    BY DEF HistInv, True, Untried
  <2>2. /\ req'[r].pc = "next" /\ req'[r].todo = req[r].todo
        /\ req'[r].results = req[r].results \cup {<<req[r].at, outcome>>}
    BY <1>1, <1>4, ResultSays
  <2>3. CASE p = req[r].at
    BY <1>1, <1>2, <1>3, <1>4, <2>1, <2>2, <2>3 DEF True, Untried, Trying
  <2>4. CASE p # req[r].at
    BY <1>1, <1>3, <1>4, <2>1, <2>2, <2>4 DEF True, Untried, Trying
  <2>. QED BY <2>3, <2>4
<1>. QED BY <1>5, <1>6, MovesKeep

LEMMA PostKeeps ==
  ASSUME HistInv, NEW r \in Requests, Post(r)
  PROVE  HistInv'
<1>1. req[r].pc \in Trying /\ recorded' = recorded
  BY DEF Post, Trying
<1>2. CASE Result(r, "posted") /\ Publish(r) /\ Answered
  BY <1>1, <1>2, PublishedKeeps DEF Answered
<1>3. CASE Refused(r) /\ UNCHANGED published /\ Answered
  <2>1. CASE ReqTo(r, "refresh")
    BY <1>1, <1>3, <2>1, StillTryingKeeps DEF Answered, Trying
  <2>2. CASE Result(r, "failed")
    BY <1>1, <1>3, <2>2, GivenUpKeeps DEF Answered
  <2>. QED BY <1>3, <2>1, <2>2 DEF Refused
<1>4. CASE Unanswered(r)
  <2>1. CASE Result(r, "failed") /\ Publish(r) /\ Lost(r)
    BY <1>1, <2>1, PublishedKeeps DEF Lost
  <2>2. CASE Result(r, "failed") /\ UNCHANGED published /\ Lost(r)
    BY <1>1, <2>2, GivenUpKeeps DEF Lost
  <2>. QED BY <1>4, <2>1, <2>2 DEF Unanswered
<1>. QED BY <1>2, <1>3, <1>4 DEF Post

LEMMA RefreshKeeps ==
  ASSUME HistInv, NEW r \in Requests, Refresh(r)
  PROVE  HistInv'
<1>1. req[r].pc \in Trying /\ published' = published /\ recorded' = recorded
  BY DEF Refresh, Trying
<1>2. CASE Result(r, "failed") /\ (Answered \/ Lost(r))
  BY <1>1, <1>2, GivenUpKeeps DEF Answered, Lost
<1>3. CASE Renewed(r, NextToken(req[r].at)) /\ Answered
  <2>. DEFINE p == req[r].at
              t == NextToken(p)
              one == [req EXCEPT ![r] = [req[r] EXCEPT !.pc = "repost"]]
  <2>1. ReqTyped /\ DOMAIN req = Requests /\ DOMAIN req[r] = Fields
    BY DEF HistInv, ReqTyped
  <2>2. one[r] = [req[r] EXCEPT !.pc = "repost"] /\ DOMAIN one = Requests
    BY <2>1
  <2>3. req' = [one EXCEPT ![r] = [one[r] EXCEPT !.fresh = [one[r].fresh EXCEPT ![p] = t]]]
    BY <1>3, <2>1, <2>2 DEF Renewed, Fields
  <2>4. \A s \in Requests \ {r} : one[s] = req[s]
    BY <2>1
  <2>5. /\ DOMAIN one[r] = Fields /\ one[r].pc = "repost"
        /\ one[r].todo = req[r].todo /\ one[r].at = req[r].at
        /\ one[r].results = req[r].results
    BY <2>1, <2>2 DEF Fields
  <2>. HIDE DEF one, t
  <2>6. req'[r] = [one[r] EXCEPT !.fresh = [one[r].fresh EXCEPT ![p] = t]]
    BY <2>2, <2>3
  <2>7. req' = [s \in Requests |-> req'[s]] /\ \A s \in Requests \ {r} : req'[s] = req[s]
    BY <2>2, <2>3, <2>4
  <2>8. /\ DOMAIN req'[r] = Fields /\ req'[r].pc = "repost"
        /\ req'[r].todo = req[r].todo /\ req'[r].at = req[r].at
        /\ req'[r].results = req[r].results
    BY <2>5, <2>6 DEF Fields
  <2>9. Moves(r)
    BY <1>1, <1>3, <2>1, <2>7, <2>8 DEF Moves, ReqTyped, Answered
  <2>10. ASSUME NEW q \in Platforms PROVE True(r, q)'
    BY <1>1, <1>3, <2>8 DEF HistInv, True, Untried, Trying, Answered
  <2>. QED BY <2>9, <2>10, MovesKeep
<1>. QED BY <1>2, <1>3 DEF Refresh

LEMMA StartPostKeeps ==
  ASSUME HistInv, NEW r \in Requests, NEW S \in SUBSET Platforms, StartPost(r, S)
  PROVE  HistInv'
<1>. DEFINE missing == {p \in S : accounts[p] = NoAccount}
            C == [p \in Platforms |-> accounts[p].token]
            R == [p \in Platforms |-> accounts[p].grant]
            new == [req[r] EXCEPT !.pc = "next", !.todo = S \ missing, !.cred = C,
                                  !.row = R,
                                  !.results = {<<p, "failed">> : p \in missing}]
<1>1. DOMAIN req = Requests /\ DOMAIN req[r] = Fields
  BY DEF HistInv, ReqTyped
<1>2. /\ req[r].pc = "new" /\ req' = [req EXCEPT ![r] = new]
      /\ published' = published /\ recorded' = recorded /\ faulty' = faulty
  BY DEF StartPost
<1>. HIDE DEF missing, C, R
<1>3. /\ DOMAIN new = Fields /\ new.pc = "next" /\ new.todo = S \ missing
      /\ new.results = {<<p, "failed">> : p \in missing}
  BY <1>1 DEF Fields
<1>. HIDE DEF new
<1>4. req'[r] = new /\ \A s \in Requests \ {r} : req'[s] = req[s]
  BY <1>1, <1>2
<1>5. missing \subseteq Platforms
  BY DEF missing
<1>6. new.results \subseteq Platforms \X {"posted", "failed"}
  BY <1>3, <1>5
<1>7. Moves(r)
  BY <1>1, <1>2, <1>3, <1>4, <1>5, <1>6 DEF Moves, HistInv, ReqTyped, Trying
<1>8. ASSUME NEW p \in Platforms PROVE True(r, p)'
  <2>1. published[r][p] = 0 /\ <<r, p>> \notin recorded
    <3>1. True(r, p) /\ Untried(r, p)
      BY <1>2 DEF HistInv, Untried
    <3>. QED BY <3>1 DEF True
  <2>2. <<p, "posted">> \notin new.results
    BY <1>3
  <2>. QED BY <1>2, <1>3, <1>4, <2>1, <2>2 DEF True, Untried
<1>. QED BY <1>7, <1>8, MovesKeep

LEMMA NextPlatformKeeps ==
  ASSUME HistInv, NEW r \in Requests, NextPlatform(r)
  PROVE  HistInv'
<1>1. /\ DOMAIN req = Requests /\ DOMAIN req[r] = Fields /\ req[r].pc = "next"
      /\ ReqTyped /\ published' = published /\ recorded' = recorded /\ faulty' = faulty
  BY DEF HistInv, ReqTyped, NextPlatform
<1>2. CASE req[r].todo = {} /\ ReqTo(r, "commit")
  <2>1. Moves(r)
    BY <1>1, <1>2, ReqToSays DEF Moves, ReqTyped, Trying
  <2>2. ASSUME NEW p \in Platforms PROVE True(r, p)'
    BY <1>1, <1>2, ReqToSays DEF HistInv, True, Untried, Trying
  <2>. QED BY <2>1, <2>2, MovesKeep
<1>3. ASSUME NEW p \in req[r].todo, NEW pc \in {"auth", "post"},
             req' = [req EXCEPT ![r].at = p, ![r].todo = @ \ {p}, ![r].pc = pc]
      PROVE  HistInv'
  <2>. DEFINE T == req[r].todo \ {p}
              new == [req[r] EXCEPT !.at = p, !.todo = T, !.pc = pc]
  <2>1. req' = [req EXCEPT ![r] = new]
    BY <1>1, <1>3 DEF Fields
  <2>2. /\ DOMAIN new = Fields /\ new.pc = pc /\ new.at = p /\ new.todo = T
        /\ new.results = req[r].results
    BY <1>1 DEF Fields
  <2>. HIDE DEF new
  <2>3. req'[r] = new /\ \A s \in Requests \ {r} : req'[s] = req[s]
    BY <1>1, <2>1
  <2>4. Moves(r)
    BY <1>1, <2>1, <2>2, <2>3 DEF Moves, ReqTyped
  <2>5. ASSUME NEW q \in Platforms PROVE True(r, q)'
    BY <1>1, <2>2, <2>3 DEF HistInv, True, Untried, Trying
  <2>. QED BY <2>4, <2>5, MovesKeep
<1>4. CASE req[r].todo = {}
  BY <1>2, <1>4 DEF NextPlatform, ReqTo
<1>5. CASE req[r].todo # {}
  <2>1. PICK p \in req[r].todo :
          req' = [req EXCEPT ![r].at = p, ![r].todo = @ \ {p},
                             ![r].pc = IF p \in Probing THEN "auth" ELSE "post"]
    BY <1>5 DEF NextPlatform
  <2>2. CASE p \in Probing
    BY <2>1, <2>2, <1>3
  <2>3. CASE p \notin Probing
    BY <2>1, <2>3, <1>3
  <2>. QED BY <2>2, <2>3
<1>. QED BY <1>4, <1>5

LEMMA CommitKeeps ==
  ASSUME HistInv, NEW r \in Requests, Commit(r)
  PROVE  HistInv'
<1>1. /\ ReqTyped /\ req[r].pc = "commit" /\ ReqTo(r, "done")
      /\ published' = published /\ faulty' = faulty
  BY DEF HistInv, Commit, Answered
<1>2. \A s \in Requests, p \in Platforms :
        <<s, p>> \in recorded' <=>
          <<s, p>> \in recorded \/ (s = r /\ <<p, "posted">> \in req[r].results)
  <2>. SUFFICES ASSUME NEW s \in Requests, NEW p \in Platforms
                PROVE  <<s, p>> \in recorded' <=>
                         <<s, p>> \in recorded \/ (s = r /\ <<p, "posted">> \in req[r].results)
    OBVIOUS
  <2>1. recorded' = recorded \cup
          {<<r, x[1]>> : x \in {y \in req[r].results : y[2] = "posted"}}
    BY DEF Commit, RowsOf
  <2>2. req[r].results \subseteq Platforms \X {"posted", "failed"}
    BY <1>1 DEF ReqTyped
  <2>3. <<s, p>> \in {<<r, x[1]>> : x \in {y \in req[r].results : y[2] = "posted"}}
          <=> s = r /\ <<p, "posted">> \in req[r].results
    BY <2>2
  <2>. QED BY <2>1, <2>3
<1>3. Moves(r)
  <2>1. \A s \in Requests \ {r}, p \in Platforms :
          <<s, p>> \in recorded' <=> <<s, p>> \in recorded
    BY <1>2
  <2>2. published' \in [Requests -> [Platforms -> Nat]] /\ "done" \notin Trying
    BY <1>1 DEF ReqTyped, Trying
  <2>3. req[r].todo \subseteq Platforms /\ req[r].results \subseteq Platforms \X {"posted", "failed"}
    BY <1>1 DEF ReqTyped
  <2>. QED BY <1>1, <2>1, <2>2, <2>3, ReqToSays DEF Moves
<1>4. ASSUME NEW p \in Platforms PROVE True(r, p)'
  BY <1>1, <1>2, ReqToSays DEF HistInv, True, Untried, Trying
<1>. QED BY <1>3, <1>4, MovesKeep

LEMMA CommitFailsKeeps ==
  ASSUME HistInv, NEW r \in Requests, CommitFails(r)
  PROVE  HistInv'
<1>1. /\ ReqTyped /\ req[r].pc = "commit" /\ ReqTo(r, "done")
      /\ published' = published /\ recorded' = recorded
      /\ faulty' = faulty \cup {r}
  BY DEF HistInv, CommitFails, Lost
<1>2. Moves(r)
  BY <1>1, ReqToSays DEF Moves, ReqTyped, Trying
<1>3. ASSUME NEW p \in Platforms PROVE True(r, p)'
  BY <1>1, ReqToSays DEF HistInv, True, Untried, Trying
<1>. QED BY <1>2, <1>3, MovesKeep

\* Expiring tokens, connecting and disconnecting leave the requests alone
LEMMA ElsewhereKeeps ==
  ASSUME HistInv, UNCHANGED <<req, published, recorded, faulty>>
  PROVE  HistInv'
BY DEF HistInv, ReqTyped, True, Untried

LEMMA HistNext == HistInv /\ [Next]_vars => HistInv'
<1>. SUFFICES ASSUME HistInv, [Next]_vars PROVE HistInv'
  OBVIOUS
<1>1. ASSUME NEW p \in Platforms, Expire(p) PROVE HistInv'
  BY <1>1, ElsewhereKeeps DEF Expire
<1>2. ASSUME NEW f \in Flows, NEW p \in Platforms, Authorize(f, p) PROVE HistInv'
  BY <1>2, ElsewhereKeeps DEF Authorize, OnlyFlows
<1>3. ASSUME NEW f \in Flows, Callback(f) PROVE HistInv'
  BY <1>3, ElsewhereKeeps DEF Callback, OnlyFlows
<1>4. ASSUME NEW f \in Flows, RedeemFails(f) PROVE HistInv'
  BY <1>4, ElsewhereKeeps DEF RedeemFails, OnlyFlows
<1>5. ASSUME NEW f \in Flows, Redeem(f) PROVE HistInv'
  BY <1>5, ElsewhereKeeps DEF Redeem
<1>6. ASSUME NEW f \in Flows, SelectPage(f) PROVE HistInv'
  BY <1>6, ElsewhereKeeps DEF SelectPage, OnlyFlows
<1>7. ASSUME NEW f \in Flows, Upsert(f) PROVE HistInv'
  BY <1>7, ElsewhereKeeps DEF Upsert, OnlyAccounts
<1>8. ASSUME NEW f \in Flows, Replace(f) PROVE HistInv'
  BY <1>8, ElsewhereKeeps DEF Replace, OnlyAccounts
<1>9. ASSUME NEW f \in Flows, Recreate(f) PROVE HistInv'
  BY <1>9, ElsewhereKeeps DEF Recreate, OnlyAccounts
<1>10. ASSUME NEW p \in Platforms, Disconnect(p) PROVE HistInv'
  BY <1>10, ElsewhereKeeps DEF Disconnect, OnlyAccounts
<1>11. CASE Tick
  BY <1>11, ElsewhereKeeps DEF Tick, OnlyFlows
<1>12. ASSUME NEW r \in Requests, NEW S \in (SUBSET Platforms) \ {{}}, StartPost(r, S)
       PROVE  HistInv'
  BY <1>12, StartPostKeeps
<1>13. ASSUME NEW r \in Requests,
              \/ NextPlatform(r) \/ Authenticate(r) \/ Post(r) \/ Refresh(r)
              \/ Commit(r) \/ CommitFails(r)
       PROVE  HistInv'
  BY <1>13, NextPlatformKeeps, AuthenticateKeeps, PostKeeps, RefreshKeeps,
     CommitKeeps, CommitFailsKeeps
<1>14. CASE UNCHANGED vars
  BY <1>14, ElsewhereKeeps DEF vars
<1>. QED BY <1>1, <1>2, <1>3, <1>4, <1>5, <1>6, <1>7, <1>8, <1>9, <1>10, <1>11,
            <1>12, <1>13, <1>14 DEF Next

\* A request publishes at most once on a platform, and the history of
\* cross-posts says what the platforms hold, but for requests that lost an
\* answer or their commit (cross_post in crosspost_service.py)
THEOREM TheHistoryIsTrue == Spec => []HistoryIsTrue
<1>1. HistInv => HistoryIsTrue
  <2>. SUFFICES ASSUME HistInv, NEW r \in Requests, NEW p \in Platforms
                PROVE  /\ published[r][p] <= 1
                       /\ <<r, p>> \in recorded => published[r][p] = 1
                       /\ req[r].pc = "done" /\ r \notin faulty /\ published[r][p] = 1
                            => <<r, p>> \in recorded
    BY DEF HistoryIsTrue
  <2>1. True(r, p)
    BY DEF HistInv
  <2>. QED BY <2>1 DEF True
<1>. QED BY <1>1, HistInit, HistNext, PTL DEF Spec
-----------------------------------------------------------------------------
(* The tokens of one platform *)

\* The flow f holds a token of p that it has still to store
Waits(f, p) ==
  flow[f].platform = p /\ flow[f].pc \in {"pages", "upsert", "replace", "recreate"}

\* The request r holds a token of p that it has still to store
Holds(r, p) == req[r].pc # "done" /\ req[r].fresh[p] # 0

\* The request r may renew its token of p, now or later
Unrenewed(r, p) ==
  \/ req[r].pc = "new"
  \/ p \in req[r].todo
  \/ p = req[r].at /\ req[r].pc \in {"auth", "post", "refresh"}

\* Tokens are numbered as issued
Numbered(p) ==
  /\ issued[p] \in Nat
  /\ provider[p].refresh \subseteq 1 .. issued[p]
  /\ accounts[p].grant \in 0 .. issued[p] /\ accounts[p].token \in 0 .. issued[p]
  /\ \A r \in Requests : /\ req[r].cred[p] \in 0 .. issued[p]
                         /\ req[r].row[p] \in 0 .. issued[p]
                         /\ req[r].fresh[p] \in 0 .. issued[p]

\* A token a flow has still to store is live and known to nobody else
WaitersApart(p) ==
  \A f \in Flows : Waits(f, p) =>
    LET g == flow[f].grant
    IN  /\ g \in provider[p].refresh
        /\ g # accounts[p].grant /\ g # accounts[p].token
        /\ \A e \in Flows : Waits(e, p) /\ flow[e].grant = g => e = f
        /\ \A r \in Requests :
             g # req[r].cred[p] /\ g # req[r].row[p] /\ g # req[r].fresh[p]

\* A token a request has still to store is live and known to nobody else
HoldersApart(p) ==
  \A r \in Requests : Holds(r, p) =>
    LET t == req[r].fresh[p]
    IN  /\ t \in provider[p].refresh /\ t # accounts[p].token
        /\ \A s \in Requests : /\ t # req[s].cred[p]
                               /\ Holds(s, p) /\ req[s].fresh[p] = t => s = r

\* A request that holds the stored token read it from the row that is there, and
\* one that may renew it has not yet done so
ReadersKnow(p) ==
  \A r \in Requests :
    /\ req[r].cred[p] = accounts[p].token /\ accounts[p].token # 0
         => req[r].row[p] = accounts[p].grant
    /\ Unrenewed(r, p) => req[r].fresh[p] = 0

\* The stored token is live, or a request is on its way to replace it
StoredKept(p) ==
  accounts[p] # NoAccount /\ p \notin astray =>
    \/ accounts[p].token \in provider[p].refresh
    \/ \E r \in Requests : Holds(r, p) /\ req[r].row[p] = accounts[p].grant

Consistent(p) ==
  Numbered(p) /\ WaitersApart(p) /\ HoldersApart(p) /\ ReadersKnow(p) /\ StoredKept(p)

TokenTyped ==
  /\ accounts \in [Platforms -> [grant : Nat, token : Nat]]
  /\ provider \in [Platforms -> [access : SUBSET Nat, refresh : SUBSET Nat]]
  /\ \A r \in Requests : /\ req[r].cred \in [Platforms -> Nat]
                         /\ req[r].row \in [Platforms -> Nat]
                         /\ req[r].fresh \in [Platforms -> Nat]

TokenInv == TokenTyped /\ \A p \in Platforms : Consistent(p)

\* What a step leaves of the tokens of p
FlowsKeep(p) ==
  \A f \in Flows : Waits(f, p)' => Waits(f, p) /\ flow'[f].grant = flow[f].grant

ReqKeeps(r, p) ==
  /\ req'[r].cred[p] = req[r].cred[p]
  /\ req'[r].row[p] = req[r].row[p]
  /\ req'[r].fresh[p] = req[r].fresh[p]
  /\ Unrenewed(r, p)' => Unrenewed(r, p)
  /\ Holds(r, p)' => Holds(r, p)

LiveKeeps(p) ==
  issued'[p] = issued[p] /\ provider'[p].refresh = provider[p].refresh

\* The request r may stop, if what it has still to store is of another row or lost
StopsWell(r, p) ==
  Holds(r, p) => Holds(r, p)' \/ req[r].row[p] # accounts[p].grant \/ p \in astray'

LEMMA NothingNew ==
  ASSUME NEW p \in Platforms, Consistent(p), LiveKeeps(p), FlowsKeep(p),
         \A r \in Requests : ReqKeeps(r, p) /\ StopsWell(r, p),
         accounts'[p] = accounts[p], astray \subseteq astray'
  PROVE  Consistent(p)'
<1>1. Numbered(p)'
  BY DEF Consistent, Numbered, LiveKeeps, ReqKeeps
<1>2. WaitersApart(p)'
  BY DEF Consistent, WaitersApart, LiveKeeps, ReqKeeps, FlowsKeep
<1>3. HoldersApart(p)'
  BY DEF Consistent, HoldersApart, LiveKeeps, ReqKeeps
<1>4. ReadersKnow(p)'
  BY DEF Consistent, ReadersKnow, ReqKeeps
<1>5. StoredKept(p)'
  BY DEF Consistent, StoredKept, LiveKeeps, ReqKeeps, StopsWell
<1>. QED BY <1>1, <1>2, <1>3, <1>4, <1>5 DEF Consistent

LEMMA RowRemoved ==
  ASSUME NEW p \in Platforms, Consistent(p), LiveKeeps(p), FlowsKeep(p),
         \A r \in Requests : ReqKeeps(r, p), accounts'[p] = NoAccount
  PROVE  Consistent(p)'
<1>. USE DEF NoAccount, None
<1>1. Numbered(p)'
  BY DEF Consistent, Numbered, LiveKeeps, ReqKeeps
<1>2. WaitersApart(p)'
  BY DEF Consistent, Numbered, WaitersApart, LiveKeeps, ReqKeeps, FlowsKeep
<1>3. HoldersApart(p)'
  BY DEF Consistent, HoldersApart, LiveKeeps, ReqKeeps, Holds
<1>4. ReadersKnow(p)'
  BY DEF Consistent, ReadersKnow, ReqKeeps
<1>5. StoredKept(p)'
  BY DEF StoredKept
<1>. QED BY <1>1, <1>2, <1>3, <1>4, <1>5 DEF Consistent

\* A flow stores its token in a row of its own
LEMMA RowCreated ==
  ASSUME NEW p \in Platforms, Consistent(p), LiveKeeps(p), FlowsKeep(p),
         \A r \in Requests : ReqKeeps(r, p),
         NEW f \in Flows, Waits(f, p), ~ Waits(f, p)',
         accounts'[p] = [grant |-> flow[f].grant, token |-> flow[f].grant]
  PROVE  Consistent(p)'
<1>. DEFINE g == flow[f].grant
<1>0. /\ g \in provider[p].refresh
      /\ \A e \in Flows : Waits(e, p) /\ flow[e].grant = g => e = f
      /\ \A r \in Requests : g # req[r].cred[p] /\ g # req[r].row[p] /\ g # req[r].fresh[p]
      /\ accounts'[p].grant = g /\ accounts'[p].token = g
  BY DEF Consistent, WaitersApart
<1>. HIDE DEF g
<1>1. Numbered(p)'
  BY <1>0 DEF Consistent, Numbered, LiveKeeps, ReqKeeps
<1>2. WaitersApart(p)'
  BY <1>0 DEF Consistent, WaitersApart, LiveKeeps, ReqKeeps, FlowsKeep
<1>3. HoldersApart(p)'
  BY <1>0 DEF Consistent, HoldersApart, LiveKeeps, ReqKeeps
<1>4. ReadersKnow(p)'
  BY <1>0 DEF Consistent, ReadersKnow, ReqKeeps
<1>5. StoredKept(p)'
  BY <1>0 DEF StoredKept, LiveKeeps
<1>. QED BY <1>1, <1>2, <1>3, <1>4, <1>5 DEF Consistent

\* The request r stores its token in the row it read
LEMMA TokenStored ==
  ASSUME NEW p \in Platforms, Consistent(p), LiveKeeps(p), FlowsKeep(p),
         \A s \in Requests : ReqKeeps(s, p),
         NEW r \in Requests, Holds(r, p), ~ Holds(r, p)',
         accounts'[p].grant = accounts[p].grant, accounts'[p].token = req[r].fresh[p]
  PROVE  Consistent(p)'
<1>. DEFINE t == req[r].fresh[p]
<1>0. /\ t \in provider[p].refresh /\ accounts'[p].token = t
      /\ \A s \in Requests : /\ t # req[s].cred[p]
                             /\ Holds(s, p) /\ req[s].fresh[p] = t => s = r
      /\ \A f \in Flows : Waits(f, p) => flow[f].grant # t
  BY DEF Consistent, HoldersApart, WaitersApart
<1>. HIDE DEF t
<1>1. Numbered(p)'
  BY <1>0 DEF Consistent, Numbered, LiveKeeps, ReqKeeps
<1>2. WaitersApart(p)'
  BY <1>0 DEF Consistent, WaitersApart, LiveKeeps, ReqKeeps, FlowsKeep
<1>3. HoldersApart(p)'
  BY <1>0 DEF Consistent, HoldersApart, LiveKeeps, ReqKeeps
<1>4. ReadersKnow(p)'
  BY <1>0 DEF Consistent, ReadersKnow, ReqKeeps
<1>5. StoredKept(p)'
  BY <1>0 DEF StoredKept, LiveKeeps
<1>. QED BY <1>1, <1>2, <1>3, <1>4, <1>5 DEF Consistent

\* A new request reads the row that is there
LEMMA RowRead ==
  ASSUME NEW p \in Platforms, Consistent(p), LiveKeeps(p), FlowsKeep(p),
         NEW r \in Requests, \A s \in Requests \ {r} : ReqKeeps(s, p) /\ StopsWell(s, p),
         req[r].pc = "new", req'[r].fresh[p] = req[r].fresh[p],
         req'[r].cred[p] = accounts[p].token, req'[r].row[p] = accounts[p].grant,
         accounts'[p] = accounts[p], astray' = astray
  PROVE  Consistent(p)'
<1>0. req[r].fresh[p] = 0 /\ ~ Holds(r, p) /\ ~ Holds(r, p)'
  BY DEF Consistent, ReadersKnow, Unrenewed, Holds
<1>1. Numbered(p)'
  BY <1>0 DEF Consistent, Numbered, LiveKeeps, ReqKeeps
<1>2. WaitersApart(p)'
  BY <1>0 DEF Consistent, WaitersApart, LiveKeeps, ReqKeeps, FlowsKeep
<1>3. HoldersApart(p)'
  BY <1>0 DEF Consistent, HoldersApart, LiveKeeps, ReqKeeps
<1>4. ReadersKnow(p)'
  BY <1>0 DEF Consistent, ReadersKnow, ReqKeeps
<1>5. StoredKept(p)'
  BY <1>0 DEF Consistent, StoredKept, LiveKeeps, ReqKeeps, StopsWell
<1>. QED BY <1>1, <1>2, <1>3, <1>4, <1>5 DEF Consistent

\* A code is redeemed: the flow f holds a new token
LEMMA TokenGranted ==
  ASSUME NEW p \in Platforms, Consistent(p),
         issued'[p] = issued[p] + 1,
         provider'[p].refresh = provider[p].refresh \cup {issued[p] + 1},
         \A s \in Requests : ReqKeeps(s, p) /\ StopsWell(s, p),
         NEW f \in Flows, Waits(f, p)' => flow'[f].grant = issued[p] + 1,
         \A e \in Flows \ {f} : Waits(e, p)' => Waits(e, p) /\ flow'[e].grant = flow[e].grant,
         accounts'[p] = accounts[p], astray' = astray
  PROVE  Consistent(p)'
<1>. DEFINE n == issued[p] + 1
<1>0. /\ n \notin provider[p].refresh /\ n # accounts[p].grant /\ n # accounts[p].token
      /\ \A r \in Requests : n # req[r].cred[p] /\ n # req[r].row[p] /\ n # req[r].fresh[p]
      /\ \A e \in Flows : Waits(e, p) => flow[e].grant # n
  BY DEF Consistent, Numbered, WaitersApart
<1>1. Numbered(p)'
  BY DEF Consistent, Numbered, ReqKeeps
<1>. HIDE DEF n
<1>n. provider'[p].refresh = provider[p].refresh \cup {n} /\ (Waits(f, p)' => flow'[f].grant = n)
  BY DEF n
<1>2. WaitersApart(p)'
  BY <1>0, <1>n DEF Consistent, WaitersApart, ReqKeeps
<1>3. HoldersApart(p)'
  BY <1>n DEF Consistent, HoldersApart, ReqKeeps
<1>4. ReadersKnow(p)'
  BY DEF Consistent, ReadersKnow, ReqKeeps
<1>5. StoredKept(p)'
  BY <1>n DEF Consistent, StoredKept, ReqKeeps, StopsWell
<1>. QED BY <1>1, <1>2, <1>3, <1>4, <1>5 DEF Consistent

\* The request r has its token replaced by a new one, which it holds, or loses
LEMMA TokenRotated ==
  ASSUME NEW p \in Platforms, Consistent(p), FlowsKeep(p),
         NEW r \in Requests, Unrenewed(r, p), req[r].cred[p] \in provider[p].refresh,
         issued'[p] = issued[p] + 1,
         provider'[p].refresh = (provider[p].refresh \ {req[r].cred[p]}) \cup {issued[p] + 1},
         \A s \in Requests \ {r} : ReqKeeps(s, p) /\ StopsWell(s, p),
         req'[r].cred[p] = req[r].cred[p], req'[r].row[p] = req[r].row[p], ~ Unrenewed(r, p)',
         \/ req'[r].fresh[p] = issued[p] + 1 /\ Holds(r, p)' /\ astray' = astray
         \/ req'[r].fresh[p] = req[r].fresh[p] /\ p \in astray',
         accounts'[p] = accounts[p]
  PROVE  Consistent(p)'
<1>. DEFINE n == issued[p] + 1  t == req[r].cred[p]
<1>0. /\ n \notin provider[p].refresh /\ n # accounts[p].grant /\ n # accounts[p].token
      /\ \A s \in Requests : n # req[s].cred[p] /\ n # req[s].row[p] /\ n # req[s].fresh[p]
      /\ \A e \in Flows : Waits(e, p) => flow[e].grant # n /\ flow[e].grant # t
      /\ \A s \in Requests : Holds(s, p) => req[s].fresh[p] # t
      /\ t # 0 /\ (t = accounts[p].token => req[r].row[p] = accounts[p].grant)
      /\ req[r].fresh[p] = 0
  BY DEF Consistent, Numbered, WaitersApart, HoldersApart, ReadersKnow
<1>1. Numbered(p)'
  BY DEF Consistent, Numbered, ReqKeeps
<1>. HIDE DEF n, t
<1>n. /\ provider'[p].refresh = (provider[p].refresh \ {t}) \cup {n}
      /\ \/ req'[r].fresh[p] = n /\ Holds(r, p)' /\ astray' = astray
         \/ req'[r].fresh[p] = req[r].fresh[p] /\ p \in astray'
  BY DEF n, t
<1>2. WaitersApart(p)'
  BY <1>0, <1>n DEF Consistent, WaitersApart, ReqKeeps, FlowsKeep
<1>3. HoldersApart(p)'
  BY <1>0, <1>n DEF Consistent, HoldersApart, ReqKeeps, Holds
<1>4. ReadersKnow(p)'
  BY <1>0, <1>n DEF Consistent, ReadersKnow, ReqKeeps
<1>5. StoredKept(p)'
  BY <1>0, <1>n DEF Consistent, StoredKept, ReqKeeps, StopsWell
<1>. QED BY <1>1, <1>2, <1>3, <1>4, <1>5 DEF Consistent

-----------------------------------------------------------------------------
(* The steps *)

AllInv == FlowInv /\ HistInv /\ TokenInv

LEMMA ReqsStill ==
  ASSUME req' = req, NEW p
  PROVE  \A r \in Requests : ReqKeeps(r, p) /\ StopsWell(r, p)
BY DEF ReqKeeps, StopsWell, Unrenewed, Holds

LEMMA FlowsStill == ASSUME flow' = flow, NEW p PROVE FlowsKeep(p)
BY DEF FlowsKeep, Waits

\* One flow moves, and comes to hold no token it did not hold
LEMMA FlowMoves ==
  ASSUME FlowTyped, NEW f \in Flows, NEW x, flow' = [flow EXCEPT ![f] = x],
         x.pc \in {"pages", "upsert", "replace", "recreate"} =>
           Waits(f, x.platform) /\ x.grant = flow[f].grant,
         NEW p
  PROVE  FlowsKeep(p)
<1>1. flow'[f] = x /\ \A g \in Flows \ {f} : flow'[g] = flow[g]
  BY DEF FlowTyped
<1>. QED BY <1>1 DEF FlowsKeep, Waits

LEMMA FlowGoesOn ==
  ASSUME FlowTyped, NEW f \in Flows, NEW pc, FlowTo(f, pc),
         pc \in {"pages", "upsert", "replace", "recreate"} =>
           flow[f].pc \in {"pages", "upsert", "replace", "recreate"},
         NEW p
  PROVE  FlowsKeep(p)
<1>. DEFINE x == [flow[f] EXCEPT !.pc = pc]
<1>1. flow' = [flow EXCEPT ![f] = x]
  BY DEF FlowTo
<1>2. flow[f] \in Flow
  BY DEF FlowTyped
<1>3. x.pc = pc /\ x.platform = flow[f].platform /\ x.grant = flow[f].grant
  BY <1>2 DEF Flow
<1>. HIDE DEF x
<1>. QED BY <1>1, <1>3, FlowMoves DEF Waits

\* Only flows move, or only access tokens
LEMMA FlowsOnlyKeep ==
  ASSUME TokenInv, OnlyFlows, \A p \in Platforms : FlowsKeep(p)
  PROVE  TokenInv'
<1>1. TokenTyped'
  BY DEF TokenInv, TokenTyped, OnlyFlows
<1>2. ASSUME NEW p \in Platforms PROVE Consistent(p)'
  <2>1. \A r \in Requests : ReqKeeps(r, p) /\ StopsWell(r, p)
    BY ReqsStill DEF OnlyFlows
  <2>2. Consistent(p) /\ LiveKeeps(p) /\ accounts'[p] = accounts[p] /\ astray \subseteq astray'
    BY DEF TokenInv, LiveKeeps, OnlyFlows
  <2>. QED BY <2>1, <2>2, NothingNew
<1>. QED BY <1>1, <1>2 DEF TokenInv

LEMMA AuthorizeTokens ==
  ASSUME AllInv, NEW f \in Flows, NEW q \in Platforms, Authorize(f, q) PROVE TokenInv'
<1>. DEFINE x == [flow[f] EXCEPT !.platform = q, !.pc = "pending", !.age = 0]
<1>1. FlowTyped /\ TokenInv /\ OnlyFlows /\ flow[f] \in Flow
  BY DEF AllInv, FlowInv, FlowTyped, Authorize
<1>2. flow' = [flow EXCEPT ![f] = x] /\ x.pc = "pending"
  BY <1>1 DEF Authorize, Flow, FlowTyped
<1>. HIDE DEF x
<1>3. \A p \in Platforms : FlowsKeep(p)
  BY <1>1, <1>2, FlowMoves
<1>. QED BY <1>1, <1>3, FlowsOnlyKeep

LEMMA CallbackTokens ==
  ASSUME AllInv, NEW f \in Flows, Callback(f) PROVE TokenInv'
<1>. DEFINE x == [Popped(f, "redeem") EXCEPT !.redeemed = @ + 1]
<1>1. FlowTyped /\ TokenInv /\ OnlyFlows /\ flow[f] \in Flow
  BY DEF AllInv, FlowInv, FlowTyped, Callback
<1>2. flow' = [flow EXCEPT ![f] = x] /\ x.pc = "redeem"
  BY <1>1 DEF Callback, Flow, Popped
<1>. HIDE DEF x
<1>3. \A p \in Platforms : FlowsKeep(p)
  BY <1>1, <1>2, FlowMoves
<1>. QED BY <1>1, <1>3, FlowsOnlyKeep

LEMMA RedeemFailsTokens ==
  ASSUME AllInv, NEW f \in Flows, RedeemFails(f) PROVE TokenInv'
<1>1. FlowTyped /\ TokenInv /\ OnlyFlows /\ FlowTo(f, "done")
  BY DEF AllInv, FlowInv, RedeemFails
<1>2. \A p \in Platforms : FlowsKeep(p)
  BY <1>1, FlowGoesOn
<1>. QED BY <1>1, <1>2, FlowsOnlyKeep

LEMMA SelectPageTokens ==
  ASSUME AllInv, NEW f \in Flows, SelectPage(f) PROVE TokenInv'
<1>. PICK pc \in {"upsert", "done"} : flow' = [flow EXCEPT ![f] = Popped(f, pc)]
  BY DEF SelectPage
<1>. DEFINE x == Popped(f, pc)
<1>1. FlowTyped /\ TokenInv /\ OnlyFlows /\ flow[f] \in Flow /\ flow[f].pc = "pages"
  BY DEF AllInv, FlowInv, FlowTyped, SelectPage
<1>2. /\ flow' = [flow EXCEPT ![f] = x] /\ x.platform = flow[f].platform
      /\ x.grant = flow[f].grant
  BY <1>1 DEF Flow, Popped
<1>. HIDE DEF x
<1>3. \A p \in Platforms : FlowsKeep(p)
  BY <1>1, <1>2, FlowMoves DEF Waits
<1>. QED BY <1>1, <1>3, FlowsOnlyKeep

LEMMA TickTokens == ASSUME AllInv, Tick PROVE TokenInv'
<1>1. TokenInv /\ OnlyFlows /\ FlowTyped
  BY DEF AllInv, FlowInv, Tick
<1>2. ASSUME NEW f \in Flows
      PROVE  /\ flow'[f].pc = flow[f].pc /\ flow'[f].platform = flow[f].platform
             /\ flow'[f].grant = flow[f].grant
  <2>1. flow[f] \in Flow
    BY <1>1 DEF FlowTyped
  <2>2. flow'[f] = [flow[f] EXCEPT !.age = IF Fresh(f) THEN flow[f].age + 1 ELSE flow[f].age]
    BY DEF Tick
  <2>. QED BY <2>1, <2>2 DEF Flow
<1>3. \A p \in Platforms : FlowsKeep(p)
  BY <1>2 DEF FlowsKeep, Waits
<1>. QED BY <1>1, <1>3, FlowsOnlyKeep

LEMMA ExpireTokens ==
  ASSUME AllInv, NEW q \in Platforms, Expire(q) PROVE TokenInv'
<1>. PICK t \in provider[q].access :
       provider' = [provider EXCEPT ![q] = [provider[q] EXCEPT !.access = provider[q].access \ {t}]]
  BY DEF Expire
<1>1. provider \in [Platforms -> [access : SUBSET Nat, refresh : SUBSET Nat]]
  BY DEF AllInv, TokenInv, TokenTyped
<1>2. /\ provider' \in [Platforms -> [access : SUBSET Nat, refresh : SUBSET Nat]]
      /\ \A p \in Platforms : provider'[p].refresh = provider[p].refresh
  BY <1>1
<1>3. UNCHANGED <<flow, accounts, issued, req, astray>>
  BY DEF Expire
<1>4. TokenTyped'
  BY <1>2, <1>3 DEF AllInv, TokenInv, TokenTyped
<1>5. ASSUME NEW p \in Platforms PROVE Consistent(p)'
  BY <1>2, <1>3, ReqsStill, FlowsStill, NothingNew DEF AllInv, TokenInv, LiveKeeps
<1>. QED BY <1>4, <1>5 DEF TokenInv

\* A code is redeemed: a new token, which f holds if it waits
LEMMA RedeemTokens ==
  ASSUME AllInv, NEW f \in Flows, Redeem(f) PROVE TokenInv'
<1>. DEFINE q == flow[f].platform
            n == issued[q] + 1
            known == [flow[f] EXCEPT !.grant = n]
<1>1. /\ flow \in [Flows -> Flow] /\ flow[f] \in Flow /\ issued \in [Platforms -> Nat]
      /\ flow[f].pc = "redeem" /\ q \in Platforms
      /\ provider \in [Platforms -> [access : SUBSET Nat, refresh : SUBSET Nat]]
      /\ UNCHANGED <<accounts, req, astray>>
  BY DEF AllInv, FlowInv, FlowTyped, FlowOnce, TokenInv, TokenTyped, Redeem
<1>2. /\ issued' = [issued EXCEPT ![q] = n]
      /\ provider' = [provider EXCEPT ![q].access = @ \cup {n}, ![q].refresh = @ \cup {n}]
  BY DEF Redeem, Granted, NextToken
<1>3. /\ n \in Nat /\ issued'[q] = n /\ \A p \in Platforms \ {q} : issued'[p] = issued[p]
      /\ provider' \in [Platforms -> [access : SUBSET Nat, refresh : SUBSET Nat]]
      /\ provider'[q].refresh = provider[q].refresh \cup {n}
      /\ \A p \in Platforms \ {q} : provider'[p].refresh = provider[p].refresh
  BY <1>1, <1>2
<1>4. /\ known.platform = q /\ known.grant = n
      /\ DOMAIN known = {"platform", "pc", "age", "grant", "redeemed"}
  <2>1. DOMAIN flow[f] = {"platform", "pc", "age", "grant", "redeemed"}
    BY <1>1 DEF Flow
  <2>. QED BY <2>1
<1>5. \/ flow' = [flow EXCEPT ![f] = [known EXCEPT !.pc = "upsert"]]
      \/ flow' = [flow EXCEPT ![f] = [known EXCEPT !.pc = "done"]]
      \/ flow' = [flow EXCEPT ![f] = [known EXCEPT !.pc = "pages", !.age = 0]]
  BY DEF Redeem, NextToken
<1>. HIDE DEF known
<1>6. /\ flow'[f].platform = q /\ flow'[f].grant = n
      /\ \A e \in Flows \ {f} : flow'[e] = flow[e]
  BY <1>1, <1>4, <1>5
<1>7. TokenTyped'
  BY <1>1, <1>3 DEF AllInv, TokenInv, TokenTyped
<1>. HIDE DEF q, n
<1>8. ASSUME NEW p \in Platforms PROVE Consistent(p)'
  <2>1. Consistent(p) /\ \A r \in Requests : ReqKeeps(r, p) /\ StopsWell(r, p)
    BY <1>1, ReqsStill DEF AllInv, TokenInv
  <2>2. \A e \in Flows \ {f} : Waits(e, p)' => Waits(e, p) /\ flow'[e].grant = flow[e].grant
    BY <1>6 DEF Waits
  <2>3. CASE p = q
    BY <1>1, <1>3, <1>6, <2>1, <2>2, <2>3, TokenGranted DEF n
  <2>4. CASE p # q
    <3>1. FlowsKeep(p)
      BY <1>6, <2>2, <2>4 DEF FlowsKeep, Waits
    <3>2. LiveKeeps(p)
      BY <1>3, <2>4 DEF LiveKeeps
    <3>. QED BY <1>1, <2>1, <3>1, <3>2, NothingNew
  <2>. QED BY <2>3, <2>4
<1>. QED BY <1>7, <1>8 DEF TokenInv

\* Only the row of q changes: it goes, or is the token f had to store
LEMMA RowTokens ==
  ASSUME AllInv, NEW q \in Platforms, NEW a, SetAccount(q, a), OnlyAccounts,
         \A p \in Platforms : FlowsKeep(p),
         \/ a = NoAccount
         \/ \E f \in Flows : /\ Waits(f, q) /\ ~ Waits(f, q)'
                             /\ a = [grant |-> flow[f].grant, token |-> flow[f].grant]
  PROVE  TokenInv'
<1>. USE DEF OnlyAccounts
<1>1. a \in [grant : Nat, token : Nat]
  <2>1. NoAccount \in [grant : Nat, token : Nat]
    BY DEF NoAccount, None
  <2>2. \A f \in Flows : flow[f].grant \in Nat
    BY DEF AllInv, FlowInv, FlowTyped, Flow
  <2>. QED BY <2>1, <2>2
<1>2. /\ accounts' \in [Platforms -> [grant : Nat, token : Nat]] /\ accounts'[q] = a
      /\ \A p \in Platforms \ {q} : accounts'[p] = accounts[p]
  BY <1>1 DEF SetAccount, AllInv, TokenInv, TokenTyped
<1>3. TokenTyped'
  BY <1>2 DEF AllInv, TokenInv, TokenTyped
<1>4. ASSUME NEW p \in Platforms PROVE Consistent(p)'
  <2>1. /\ Consistent(p) /\ FlowsKeep(p) /\ LiveKeeps(p) /\ astray \subseteq astray'
        /\ \A r \in Requests : ReqKeeps(r, p) /\ StopsWell(r, p)
    BY ReqsStill DEF AllInv, TokenInv, LiveKeeps
  <2>2. CASE p # q
    BY <1>2, <2>1, <2>2, NothingNew
  <2>3. CASE p = q /\ a = NoAccount
    BY <1>2, <2>1, <2>3, RowRemoved
  <2>4. CASE p = q /\ a # NoAccount
    BY <1>2, <2>1, <2>4, RowCreated
  <2>. QED BY <2>2, <2>3, <2>4
<1>. QED BY <1>3, <1>4 DEF TokenInv

\* Only the flow f moves, on an account's way
LEMMA OnlyPcTokens ==
  ASSUME AllInv, \A p \in Platforms : FlowsKeep(p), OnlyAccounts, UNCHANGED accounts
  PROVE  TokenInv'
<1>. USE DEF OnlyAccounts
<1>1. TokenTyped'
  BY DEF AllInv, TokenInv, TokenTyped
<1>2. ASSUME NEW p \in Platforms PROVE Consistent(p)'
  BY ReqsStill, NothingNew DEF AllInv, TokenInv, LiveKeeps
<1>. QED BY <1>1, <1>2 DEF TokenInv

LEMMA ConnectTokens ==
  ASSUME AllInv, NEW f \in Flows, Upsert(f) \/ Replace(f) \/ Recreate(f) PROVE TokenInv'
<1>1. FlowTyped /\ flow[f] \in Flow /\ flow[f].platform \in Platforms /\ OnlyAccounts
  BY DEF AllInv, FlowInv, FlowTyped, FlowOnce, Upsert, Replace, Recreate
<1>. PICK q \in Platforms : q = flow[f].platform
  BY <1>1
<1>. PICK own : own = [grant |-> flow[f].grant, token |-> flow[f].grant]
  OBVIOUS
<1>2. /\ FlowTo(f, "done") \/ FlowTo(f, "replace") \/ FlowTo(f, "recreate")
      /\ Waits(f, q) /\ flow[f].pc # "pages"
  BY DEF Upsert, Replace, Recreate, Waits
<1>3. \A p \in Platforms : FlowsKeep(p)
  BY <1>1, <1>2, FlowGoesOn DEF Waits
<1>4. FlowTo(f, "done") => ~ Waits(f, q)'
  BY <1>1 DEF FlowTo, Waits, FlowTyped, Flow
<1>5. \/ SetAccount(q, own) /\ FlowTo(f, "done")
      \/ SetAccount(q, NoAccount)
      \/ UNCHANGED accounts
  BY DEF Upsert, Replace, Recreate
<1>6. CASE SetAccount(q, own) /\ FlowTo(f, "done")
  BY <1>1, <1>2, <1>3, <1>4, <1>6, RowTokens
<1>7. CASE SetAccount(q, NoAccount)
  BY <1>1, <1>3, <1>7, RowTokens
<1>8. CASE UNCHANGED accounts
  BY <1>1, <1>3, <1>8, OnlyPcTokens
<1>. QED BY <1>5, <1>6, <1>7, <1>8

LEMMA DisconnectTokens ==
  ASSUME AllInv, NEW q \in Platforms, Disconnect(q) PROVE TokenInv'
<1>1. \A p \in Platforms : FlowsKeep(p)
  BY FlowsStill DEF Disconnect
<1>. QED BY <1>1, RowTokens DEF Disconnect

\* What the steps of a request have in common
ReqMoves(r) ==
  /\ req[r].pc # "done"
  /\ \A s \in Requests \ {r} : req'[s] = req[s]
  /\ req'[r].cred = req[r].cred /\ req'[r].row = req[r].row /\ req'[r].fresh = req[r].fresh
  /\ \A p \in Platforms : Unrenewed(r, p)' => Unrenewed(r, p)

LEMMA ReqMovesKeep ==
  ASSUME NEW r \in Requests, ReqMoves(r), NEW p \in Platforms
  PROVE  /\ \A s \in Requests : ReqKeeps(s, p)
         /\ \A s \in Requests \ {r} : StopsWell(s, p)
         /\ req'[r].pc # "done" => StopsWell(r, p)
BY DEF ReqMoves, ReqKeeps, StopsWell, Unrenewed, Holds

LEMMA ReqMovesTyped ==
  ASSUME AllInv, NEW r \in Requests, ReqMoves(r),
         accounts' \in [Platforms -> [grant : Nat, token : Nat]],
         provider' \in [Platforms -> [access : SUBSET Nat, refresh : SUBSET Nat]]
  PROVE  TokenTyped'
BY DEF AllInv, TokenInv, TokenTyped, ReqMoves

\* A request goes on, and no token moves
LEMMA ReqGoesOn ==
  ASSUME AllInv, NEW r \in Requests, ReqMoves(r), req'[r].pc # "done",
         UNCHANGED <<flow, accounts, provider, issued, astray>>
  PROVE  TokenInv'
<1>1. TokenTyped'
  BY ReqMovesTyped DEF AllInv, TokenInv, TokenTyped
<1>2. ASSUME NEW p \in Platforms PROVE Consistent(p)'
  <2>1. LiveKeeps(p) /\ FlowsKeep(p) /\ Consistent(p)
    BY FlowsStill DEF LiveKeeps, AllInv, TokenInv
  <2>2. \A s \in Requests : ReqKeeps(s, p) /\ StopsWell(s, p)
    BY ReqMovesKeep
  <2>. QED BY <2>1, <2>2, NothingNew
<1>. QED BY <1>1, <1>2 DEF TokenInv

\* The program counter moves on, or the outcome of the platform is known
LEMMA PcMoves ==
  ASSUME AllInv, NEW r \in Requests, NEW pc, ReqTo(r, pc),
         req[r].pc \notin {"new", "done"}, pc # "new",
         pc \in {"auth", "post", "refresh"} => req[r].pc \in {"auth", "post", "refresh"}
  PROVE  ReqMoves(r) /\ req'[r].pc = pc
BY ReqToSays DEF ReqMoves, Unrenewed, AllInv, HistInv

LEMMA ResultMoves ==
  ASSUME AllInv, NEW r \in Requests, NEW outcome, Result(r, outcome),
         req[r].pc \notin {"new", "done"}
  PROVE  ReqMoves(r) /\ req'[r].pc = "next"
BY ResultSays DEF ReqMoves, Unrenewed, AllInv, HistInv

LEMMA StartPostTokens ==
  ASSUME AllInv, NEW r \in Requests, NEW S \in SUBSET Platforms, StartPost(r, S)
  PROVE  TokenInv'
<1>. DEFINE missing == {p \in S : accounts[p] = NoAccount}
            C == [p \in Platforms |-> accounts[p].token]
            R == [p \in Platforms |-> accounts[p].grant]
            new == [req[r] EXCEPT !.pc = "next", !.todo = S \ missing, !.cred = C,
                                  !.row = R,
                                  !.results = {<<p, "failed">> : p \in missing}]
<1>1. DOMAIN req = Requests /\ DOMAIN req[r] = Fields /\ TokenTyped
  BY DEF AllInv, TokenInv, HistInv, ReqTyped
<1>2. /\ req[r].pc = "new" /\ req' = [req EXCEPT ![r] = new]
      /\ UNCHANGED <<flow, accounts, provider, issued, astray>>
  BY DEF StartPost, Connecting
<1>3. C \in [Platforms -> Nat] /\ R \in [Platforms -> Nat]
  BY <1>1 DEF TokenTyped
<1>4. \A p \in Platforms : C[p] = accounts[p].token /\ R[p] = accounts[p].grant
  OBVIOUS
<1>. HIDE DEF missing, C, R
<1>5. new.cred = C /\ new.row = R /\ new.fresh = req[r].fresh
  BY <1>1 DEF Fields
<1>. HIDE DEF new
<1>6. req'[r] = new /\ \A s \in Requests \ {r} : req'[s] = req[s]
  BY <1>1, <1>2
<1>7. TokenTyped'
  BY <1>1, <1>2, <1>3, <1>5, <1>6 DEF TokenTyped
<1>8. ASSUME NEW p \in Platforms PROVE Consistent(p)'
  <2>1. LiveKeeps(p) /\ FlowsKeep(p) /\ Consistent(p)
    BY <1>2, FlowsStill DEF LiveKeeps, AllInv, TokenInv
  <2>2. \A s \in Requests \ {r} : ReqKeeps(s, p) /\ StopsWell(s, p)
    BY <1>6 DEF ReqKeeps, StopsWell, Unrenewed, Holds
  <2>. QED BY <1>2, <1>4, <1>5, <1>6, <2>1, <2>2, RowRead
<1>. QED BY <1>7, <1>8 DEF TokenInv

LEMMA NextPlatformTokens ==
  ASSUME AllInv, NEW r \in Requests, NextPlatform(r) PROVE TokenInv'
<1>1. /\ DOMAIN req = Requests /\ DOMAIN req[r] = Fields /\ req[r].pc = "next"
      /\ UNCHANGED <<flow, accounts, provider, issued, astray>>
  BY DEF AllInv, HistInv, ReqTyped, NextPlatform, Connecting
<1>2. CASE req[r].todo = {}
  <2>1. ReqTo(r, "commit")
    BY <1>2 DEF NextPlatform, ReqTo
  <2>. QED BY <1>1, <2>1, PcMoves, ReqGoesOn
<1>3. CASE req[r].todo # {}
  <2>1. PICK p \in req[r].todo, pc \in {"auth", "post"} :
          req' = [req EXCEPT ![r].at = p, ![r].todo = @ \ {p}, ![r].pc = pc]
    BY <1>3 DEF NextPlatform
  <2>. DEFINE T == req[r].todo \ {p}
              new == [req[r] EXCEPT !.at = p, !.todo = T, !.pc = pc]
  <2>2. req' = [req EXCEPT ![r] = new]
    BY <1>1, <2>1 DEF Fields
  <2>3. /\ new.pc = pc /\ new.at = p /\ new.todo = T
        /\ new.cred = req[r].cred /\ new.row = req[r].row /\ new.fresh = req[r].fresh
    BY <1>1 DEF Fields
  <2>. HIDE DEF new
  <2>4. req'[r] = new /\ \A s \in Requests \ {r} : req'[s] = req[s]
    BY <1>1, <2>2
  <2>5. ReqMoves(r)
    BY <1>1, <2>3, <2>4 DEF ReqMoves, Unrenewed
  <2>. QED BY <1>1, <2>3, <2>4, <2>5, ReqGoesOn
<1>. QED BY <1>2, <1>3

LEMMA AuthenticateTokens ==
  ASSUME AllInv, NEW r \in Requests, Authenticate(r) PROVE TokenInv'
<1>1. /\ req[r].pc = "auth" /\ (ReqTo(r, "post") \/ Result(r, "failed"))
      /\ UNCHANGED <<flow, accounts, provider, issued, astray>>
  BY DEF Authenticate, Connecting
<1>. QED BY <1>1, PcMoves, ResultMoves, ReqGoesOn DEF Authenticate

LEMMA PostTokens ==
  ASSUME AllInv, NEW r \in Requests, Post(r) PROVE TokenInv'
<1>1. /\ \/ req[r].pc = "post" /\ ReqTo(r, "refresh")
         \/ \E outcome \in {"posted", "failed"} : Result(r, outcome)
      /\ req[r].pc \in {"post", "repost"}
      /\ UNCHANGED <<flow, accounts, provider, issued, astray>>
  BY DEF Post, Connecting, Refused, Unanswered
<1>. QED BY <1>1, PcMoves, ResultMoves, ReqGoesOn

\* What a request holds after its token was renewed
LEMMA RenewedSays ==
  ASSUME ReqTyped, NEW r \in Requests, req[r].fresh \in [Platforms -> Nat],
         req[r].at \in Platforms, NEW t \in Nat, Renewed(r, t)
  PROVE  /\ \A s \in Requests \ {r} : req'[s] = req[s]
         /\ req'[r].pc = "repost" /\ req'[r].todo = req[r].todo /\ req'[r].at = req[r].at
         /\ req'[r].cred = req[r].cred /\ req'[r].row = req[r].row
         /\ req'[r].fresh \in [Platforms -> Nat]
         /\ req'[r].fresh[req[r].at] = t
         /\ \A q \in Platforms \ {req[r].at} : req'[r].fresh[q] = req[r].fresh[q]
<1>. DEFINE p == req[r].at
            one == [req EXCEPT ![r] = [req[r] EXCEPT !.pc = "repost"]]
            F == [req[r].fresh EXCEPT ![p] = t]
<1>1. DOMAIN req = Requests /\ DOMAIN req[r] = Fields
  BY DEF ReqTyped
<1>2. one[r] = [req[r] EXCEPT !.pc = "repost"] /\ DOMAIN one = Requests
  BY <1>1
<1>3. req' = [one EXCEPT ![r] = [one[r] EXCEPT !.fresh = [one[r].fresh EXCEPT ![p] = t]]]
  BY <1>1, <1>2 DEF Renewed, Fields
<1>4. \A s \in Requests \ {r} : one[s] = req[s]
  BY <1>1
<1>5. /\ DOMAIN one[r] = Fields /\ one[r].pc = "repost"
      /\ one[r].todo = req[r].todo /\ one[r].at = req[r].at
      /\ one[r].cred = req[r].cred /\ one[r].row = req[r].row /\ one[r].fresh = req[r].fresh
  BY <1>1, <1>2 DEF Fields
<1>6. F \in [Platforms -> Nat] /\ F[p] = t /\ \A q \in Platforms \ {p} : F[q] = req[r].fresh[q]
  OBVIOUS
<1>. HIDE DEF one, F
<1>7. req'[r] = [one[r] EXCEPT !.fresh = F]
  BY <1>2, <1>3, <1>5 DEF F
<1>8. \A s \in Requests \ {r} : req'[s] = req[s]
  BY <1>2, <1>3, <1>4
<1>9. /\ req'[r].pc = "repost" /\ req'[r].todo = req[r].todo /\ req'[r].at = req[r].at
      /\ req'[r].cred = req[r].cred /\ req'[r].row = req[r].row /\ req'[r].fresh = F
  BY <1>5, <1>7 DEF Fields
<1>. QED BY <1>6, <1>8, <1>9

LEMMA RefreshTokens ==
  ASSUME AllInv, NEW r \in Requests, Refresh(r) PROVE TokenInv'
<1>1. /\ ReqTyped /\ TokenTyped /\ req[r].pc = "refresh" /\ issued \in [Platforms -> Nat]
      /\ req[r].at \in Platforms /\ req[r].at \notin req[r].todo /\ req[r].fresh \in [Platforms -> Nat]
      /\ UNCHANGED <<flow, accounts>>
  BY DEF AllInv, HistInv, ReqTyped, Trying, TokenInv, TokenTyped, FlowInv, FlowTyped, Refresh,
         Connecting
<1>. PICK p \in Platforms : p = req[r].at
  BY <1>1
<1>. PICK n \in Nat : n = issued[p] + 1
  BY <1>1
<1>. PICK t : t = req[r].cred[p]
  OBVIOUS
<1>2. Unrenewed(r, p) /\ Token(r) = t
  <2>1. Unrenewed(r, p)
    BY <1>1 DEF Unrenewed
  <2>2. req[r].fresh[p] = 0
    BY <2>1 DEF AllInv, TokenInv, Consistent, ReadersKnow
  <2>. QED BY <2>1, <2>2 DEF Token, None
<1>3. CASE /\ t \in provider[p].refresh /\ Rotated(p, t)
           /\ \/ Renewed(r, n) /\ UNCHANGED astray
              \/ Result(r, "failed") /\ astray' = astray \cup {p}
  <2>1. /\ issued' = [issued EXCEPT ![p] = n]
        /\ provider' = [provider EXCEPT ![p].access = (@ \ {t}) \cup {n},
                                        ![p].refresh = (@ \ {t}) \cup {n}]
    BY <1>3 DEF Rotated, NextToken
  <2>2. /\ issued'[p] = n /\ \A q \in Platforms \ {p} : issued'[q] = issued[q]
        /\ provider' \in [Platforms -> [access : SUBSET Nat, refresh : SUBSET Nat]]
        /\ provider'[p].refresh = (provider[p].refresh \ {t}) \cup {n}
        /\ \A q \in Platforms \ {p} : provider'[q].refresh = provider[q].refresh
    <3>1. provider \in [Platforms -> [access : SUBSET Nat, refresh : SUBSET Nat]]
      BY <1>1 DEF TokenTyped
    <3>. DEFINE A == (provider[p].access \ {t}) \cup {n}
                R == (provider[p].refresh \ {t}) \cup {n}
                half == [provider EXCEPT ![p] = [provider[p] EXCEPT !.access = A]]
    <3>2. A \in SUBSET Nat /\ R \in SUBSET Nat
      BY <3>1
    <3>. HIDE DEF A
    <3>3. /\ half \in [Platforms -> [access : SUBSET Nat, refresh : SUBSET Nat]]
          /\ half[p].refresh = provider[p].refresh
          /\ \A q \in Platforms \ {p} : half[q] = provider[q]
      BY <3>1, <3>2
    <3>4. provider' = [half EXCEPT ![p] = [half[p] EXCEPT !.refresh = R]]
      BY <2>1, <3>1, <3>3 DEF A
    <3>. HIDE DEF half, R
    <3>5. /\ provider' \in [Platforms -> [access : SUBSET Nat, refresh : SUBSET Nat]]
          /\ provider'[p].refresh = R
          /\ \A q \in Platforms \ {p} : provider'[q].refresh = provider[q].refresh
      BY <3>2, <3>3, <3>4
    <3>6. issued'[p] = n /\ \A q \in Platforms \ {p} : issued'[q] = issued[q]
      BY <1>1, <2>1
    <3>. QED BY <3>5, <3>6 DEF R
  <2>3. /\ \A s \in Requests \ {r} : req'[s] = req[s]
        /\ req'[r].pc \in {"repost", "next"} /\ req'[r].todo = req[r].todo /\ req'[r].at = p
        /\ req'[r].cred = req[r].cred /\ req'[r].row = req[r].row
        /\ req'[r].fresh \in [Platforms -> Nat]
        /\ \A q \in Platforms \ {p} : req'[r].fresh[q] = req[r].fresh[q]
        /\ \/ req'[r].fresh[p] = n /\ UNCHANGED astray
           \/ req'[r].fresh[p] = req[r].fresh[p] /\ astray' = astray \cup {p}
    BY <1>1, <1>3, RenewedSays, ResultSays
  <2>4. TokenTyped'
    BY <1>1, <2>2, <2>3 DEF TokenTyped
  <2>5. ASSUME NEW q \in Platforms PROVE Consistent(q)'
    <3>1. Consistent(q) /\ FlowsKeep(q) /\ accounts'[q] = accounts[q] /\ astray \subseteq astray'
      BY <1>1, <2>3, FlowsStill DEF AllInv, TokenInv
    <3>2. \A s \in Requests \ {r} : ReqKeeps(s, q) /\ StopsWell(s, q)
      BY <2>3 DEF ReqKeeps, StopsWell, Unrenewed, Holds
    <3>3. CASE q = p
      <4>1. ~ Unrenewed(r, p)'
        BY <1>1, <2>3 DEF Unrenewed
      <4>2. req'[r].fresh[p] = n => Holds(r, p)'
        BY <1>1, <2>3 DEF Holds
      <4>. QED BY <1>2, <1>3, <2>2, <2>3, <3>1, <3>2, <3>3, <4>1, <4>2, TokenRotated
    <3>4. CASE q # p
      <4>1. LiveKeeps(q)
        BY <2>2, <3>4 DEF LiveKeeps
      <4>2. ReqKeeps(r, q) /\ StopsWell(r, q)
        BY <1>1, <2>3, <3>4 DEF ReqKeeps, StopsWell, Unrenewed, Holds
      <4>. QED BY <3>1, <3>2, <4>1, <4>2, NothingNew
    <3>. QED BY <3>3, <3>4
  <2>. QED BY <2>4, <2>5 DEF TokenInv
<1>4. CASE Result(r, "failed") /\ UNCHANGED <<provider, issued, astray>>
  BY <1>1, <1>4, ResultMoves, ReqGoesOn
<1>. QED BY <1>2, <1>3, <1>4 DEF Refresh, NextToken

LEMMA CommitTokens ==
  ASSUME AllInv, NEW r \in Requests, Commit(r) PROVE TokenInv'
<1>1. /\ TokenTyped /\ req[r].pc = "commit" /\ ReqTo(r, "done")
      /\ UNCHANGED <<flow, provider, issued, astray>>
  BY DEF AllInv, TokenInv, Commit
<1>2. ReqMoves(r) /\ req'[r].pc = "done"
  BY <1>1, PcMoves
<1>3. \A p \in Platforms :
        accounts'[p] = IF p \in Renewals(r) THEN [accounts[p] EXCEPT !.token = req[r].fresh[p]]
                                            ELSE accounts[p]
  BY DEF Commit
<1>4. accounts' = [p \in Platforms |-> accounts'[p]]
  BY DEF Commit
<1>5. ASSUME NEW p \in Platforms
      PROVE  /\ accounts'[p] \in [grant : Nat, token : Nat]
             /\ p \in Renewals(r) => /\ accounts'[p].grant = accounts[p].grant
                                     /\ accounts'[p].token = req[r].fresh[p]
  <2>1. accounts[p] \in [grant : Nat, token : Nat] /\ req[r].fresh[p] \in Nat
    BY <1>1 DEF TokenTyped
  <2>. QED BY <1>3, <2>1
<1>6. TokenTyped'
  <2>1. accounts' \in [Platforms -> [grant : Nat, token : Nat]]
    BY <1>4, <1>5
  <2>. QED BY <1>1, <1>2, <2>1, ReqMovesTyped DEF TokenTyped
<1>7. ASSUME NEW p \in Platforms PROVE Consistent(p)'
  <2>1. /\ Consistent(p) /\ FlowsKeep(p) /\ LiveKeeps(p) /\ ~ Holds(r, p)'
        /\ \A s \in Requests : ReqKeeps(s, p)
        /\ \A s \in Requests \ {r} : StopsWell(s, p)
    BY <1>1, <1>2, FlowsStill, ReqMovesKeep DEF AllInv, TokenInv, LiveKeeps, Holds
  <2>2. CASE p \in Renewals(r)
    <3>1. Holds(r, p)
      BY <1>1, <2>2 DEF Holds, Renewals, None
    <3>. QED BY <1>5, <2>1, <2>2, <3>1, TokenStored
  <2>3. CASE p \notin Renewals(r)
    <3>1. StopsWell(r, p)
      BY <2>3 DEF StopsWell, Holds, Renewals, None
    <3>. QED BY <1>1, <1>3, <2>1, <2>3, <3>1, NothingNew
  <2>. QED BY <2>2, <2>3
<1>. QED BY <1>6, <1>7 DEF TokenInv

LEMMA CommitFailsTokens ==
  ASSUME AllInv, NEW r \in Requests, CommitFails(r) PROVE TokenInv'
<1>1. /\ TokenTyped /\ req[r].pc = "commit" /\ ReqTo(r, "done")
      /\ UNCHANGED <<flow, accounts, provider, issued>> /\ astray' = astray \cup Kept(r)
  BY DEF AllInv, TokenInv, CommitFails, Connecting
<1>2. ReqMoves(r)
  BY <1>1, PcMoves
<1>3. TokenTyped'
  BY <1>1, <1>2, ReqMovesTyped DEF TokenTyped
<1>4. ASSUME NEW p \in Platforms PROVE Consistent(p)'
  <2>1. /\ Consistent(p) /\ FlowsKeep(p) /\ LiveKeeps(p)
        /\ \A s \in Requests : ReqKeeps(s, p)
        /\ \A s \in Requests \ {r} : StopsWell(s, p)
    BY <1>1, <1>2, FlowsStill, ReqMovesKeep DEF AllInv, TokenInv, LiveKeeps
  <2>2. StopsWell(r, p)
    BY <1>1 DEF StopsWell, Holds, Kept, Renewals, None
  <2>. QED BY <1>1, <2>1, <2>2, NothingNew
<1>. QED BY <1>3, <1>4 DEF TokenInv

-----------------------------------------------------------------------------

LEMMA TokenInit == Init => TokenInv
<1>. SUFFICES ASSUME Init PROVE TokenInv
  OBVIOUS
<1>1. ASSUME NEW r \in Requests
      PROVE  /\ req[r].cred = [p \in Platforms |-> 0] /\ req[r].row = [p \in Platforms |-> 0]
             /\ req[r].fresh = [p \in Platforms |-> 0]
  BY DEF Init, NewReq, None
<1>2. TokenTyped
  BY <1>1 DEF Init, TokenTyped, NoAccount, None
<1>3. ASSUME NEW p \in Platforms PROVE Consistent(p)
  <2>1. \A f \in Flows : ~ Waits(f, p)
    BY DEF Init, NewFlow, Waits
  <2>2. accounts[p] = NoAccount /\ provider[p].refresh = {} /\ issued[p] = 0
    BY DEF Init
  <2>. QED BY <1>1, <2>1, <2>2 DEF Consistent, Numbered, WaitersApart, HoldersApart, ReadersKnow,
         StoredKept, Holds, NoAccount, None
<1>. QED BY <1>2, <1>3 DEF TokenInv

LEMMA TokenNext == AllInv /\ [Next]_vars => TokenInv'
<1>. SUFFICES ASSUME AllInv, [Next]_vars PROVE TokenInv'
  OBVIOUS
<1>1. ASSUME NEW p \in Platforms, Expire(p) \/ Disconnect(p) PROVE TokenInv'
  BY <1>1, ExpireTokens, DisconnectTokens
<1>2. ASSUME NEW f \in Flows, NEW p \in Platforms, Authorize(f, p) PROVE TokenInv'
  BY <1>2, AuthorizeTokens
<1>3. ASSUME NEW f \in Flows,
             \/ Callback(f) \/ RedeemFails(f) \/ Redeem(f) \/ SelectPage(f)
             \/ Upsert(f) \/ Replace(f) \/ Recreate(f)
      PROVE  TokenInv'
  BY <1>3, CallbackTokens, RedeemFailsTokens, RedeemTokens, SelectPageTokens, ConnectTokens
<1>4. CASE Tick
  BY <1>4, TickTokens
<1>5. ASSUME NEW r \in Requests, NEW S \in (SUBSET Platforms) \ {{}}, StartPost(r, S)
      PROVE  TokenInv'
  BY <1>5, StartPostTokens
<1>6. ASSUME NEW r \in Requests,
             \/ NextPlatform(r) \/ Authenticate(r) \/ Post(r) \/ Refresh(r)
             \/ Commit(r) \/ CommitFails(r)
      PROVE  TokenInv'
  BY <1>6, NextPlatformTokens, AuthenticateTokens, PostTokens, RefreshTokens,
     CommitTokens, CommitFailsTokens
<1>7. CASE UNCHANGED vars
  <2>1. TokenTyped' /\ OnlyFlows
    BY <1>7 DEF vars, OnlyFlows, AllInv, TokenInv, TokenTyped
  <2>2. \A p \in Platforms : FlowsKeep(p)
    BY <1>7, FlowsStill DEF vars
  <2>. QED BY <2>1, <2>2, FlowsOnlyKeep DEF AllInv
<1>. QED BY <1>1, <1>2, <1>3, <1>4, <1>5, <1>6, <1>7 DEF Next

\* The stored refresh token of a connected account is the one the platform takes
\* next, unless a request still has a newer one to store, or an answer or a
\* commit was lost (cross_post: credentials written back in the final commit).
THEOREM AccountTokensStayLive == Spec => []StoredTokenIsLive
<1>1. AllInv => StoredTokenIsLive
  BY DEF AllInv, TokenInv, Consistent, StoredKept, Holds, StoredTokenIsLive, Refreshing, None
<1>. QED BY <1>1, FlowInit, HistInit, TokenInit, FlowKept, HistNext, TokenNext, PTL DEF Spec, AllInv

-----------------------------------------------------------------------------
(* Renewals *)

\* Who asks its platform first is on one that can be asked
AtInv ==
  /\ faults \in Nat
  /\ \A r \in Requests : /\ req[r].pc = "new" => req[r].at = ""
                         /\ req[r].pc = "auth" => req[r].at \in Probing

LEMMA AtInit == Init => AtInv
<1>1. NewReq.pc = "new" /\ NewReq.at = ""
  BY DEF NewReq
<1>2. Init => faults = 0 /\ \A r \in Requests : req[r] = NewReq
  BY DEF Init
<1>3. Init => faults \in Nat
  BY <1>2
<1>. QED BY <1>1, <1>2, <1>3, Zenon DEF AtInv

LEMMA FaultsKept == faults \in Nat /\ [Next]_vars => faults' \in Nat
<1>1. [Next]_vars => UNCHANGED faults \/ \E r \in Requests : Lost(r)
  <2>. USE DEF OnlyFlows, OnlyAccounts, Answered
  <2>1. ASSUME NEW f \in Flows, NEW p \in Platforms,
               \/ Authorize(f, p) \/ Callback(f) \/ RedeemFails(f) \/ Redeem(f)
               \/ SelectPage(f) \/ Upsert(f) \/ Replace(f) \/ Recreate(f)
        PROVE  UNCHANGED faults
    BY <2>1 DEF Authorize, Callback, RedeemFails, Redeem, SelectPage, Upsert, Replace, Recreate
  <2>2. ASSUME NEW r \in Requests,
               \/ NextPlatform(r) \/ Authenticate(r) \/ Post(r) \/ Refresh(r)
               \/ Commit(r) \/ CommitFails(r)
        PROVE  UNCHANGED faults \/ Lost(r)
    BY <2>2 DEF NextPlatform, Authenticate, Post, Unanswered, Refresh, Commit, CommitFails
  <2>3. ASSUME NEW p \in Platforms, Expire(p) \/ Disconnect(p) \/ Tick PROVE UNCHANGED faults
    BY <2>3 DEF Expire, Disconnect, Tick
  <2>. QED BY <2>1, <2>2, <2>3 DEF Next, vars, StartPost, Tick, Callback, RedeemFails, Redeem,
         SelectPage, Upsert, Replace, Recreate
<1>. QED BY <1>1 DEF Lost

\* A step of the request r
Works(r) ==
  \/ \E S \in SUBSET Platforms : StartPost(r, S)
  \/ NextPlatform(r) \/ Authenticate(r) \/ Post(r) \/ Refresh(r)
  \/ Commit(r) \/ CommitFails(r)

LEMMA OthersRest ==
  ASSUME HistInv, Next
  PROVE  UNCHANGED req \/ \E r \in Requests : Works(r)
BY DEF Next, Works, Expire, Authorize, Callback, RedeemFails, Redeem, SelectPage, Upsert,
   Replace, Recreate, Disconnect, Tick, OnlyFlows, OnlyAccounts

\* What one step makes of the request it moves
LEMMA WorkSays ==
  ASSUME HistInv, NEW r \in Requests, Works(r)
  PROVE  /\ \A s \in Requests \ {r} : req'[s] = req[s]
         /\ req'[r].pc # "new"
         /\ req'[r].pc = "auth" => req'[r].at \in Probing
<1>1. /\ ReqTyped /\ DOMAIN req = Requests /\ DOMAIN req[r] = Fields
      /\ req[r].pc \in Trying => req[r].at \in Platforms
  BY DEF HistInv, ReqTyped
<1>2. CASE \E S \in SUBSET Platforms : StartPost(r, S)
  BY <1>1, <1>2 DEF StartPost, Fields
<1>3. CASE NextPlatform(r)
  <2>1. CASE req[r].todo = {}
    <3>1. ReqTo(r, "commit")
      BY <1>3, <2>1 DEF NextPlatform, ReqTo
    <3>. QED BY <1>1, <3>1, ReqToSays
  <2>2. CASE req[r].todo # {}
    <3>1. PICK p \in req[r].todo, pc \in {"auth", "post"} :
            /\ req' = [req EXCEPT ![r].at = p, ![r].todo = @ \ {p}, ![r].pc = pc]
            /\ pc = "auth" => p \in Probing
      BY <1>3, <2>2 DEF NextPlatform
    <3>2. req' = [req EXCEPT ![r] = [req[r] EXCEPT !.at = p, !.todo = @ \ {p}, !.pc = pc]]
      BY <1>1, <3>1 DEF Fields
    <3>. QED BY <1>1, <3>1, <3>2 DEF Fields
  <2>. QED BY <2>1, <2>2
<1>4. CASE Refresh(r)
  BY <1>1, <1>4, ResultSays DEF Refresh, Renewed, Fields
<1>5. CASE Authenticate(r) \/ Post(r) \/ Commit(r) \/ CommitFails(r)
  <2>1. \/ \E pc \in {"post", "refresh", "done"} : ReqTo(r, pc)
        \/ \E outcome \in {"posted", "failed"} : Result(r, outcome)
    BY <1>5 DEF Authenticate, Post, Refused, Unanswered, Commit, CommitFails
  <2>. QED BY <1>1, <2>1, ReqToSays, ResultSays
<1>. QED BY <1>2, <1>3, <1>4, <1>5 DEF Works

LEMMA AtKept == HistInv /\ AtInv /\ [Next]_vars => AtInv'
<1>. SUFFICES ASSUME HistInv, AtInv, [Next]_vars PROVE AtInv'
  OBVIOUS
<1>0. faults' \in Nat
  BY FaultsKept DEF AtInv
<1>1. CASE UNCHANGED req
  BY <1>0, <1>1 DEF AtInv
<1>2. ASSUME NEW r \in Requests, Works(r) PROVE AtInv'
  BY <1>0, <1>2, WorkSays DEF AtInv
<1>. QED BY <1>1, <1>2, OthersRest DEF vars

LEMMA RenewedFirst ==
  ASSUME HistInv, AtInv, [Next]_vars, NEW r \in Requests, req[r].at = "bluesky",
         <<"bluesky", "failed">> \in req'[r].results \ req[r].results,
         faults' = faults, req[r].pc # "repost"
  PROVE  Token(r) \notin provider["bluesky"].refresh
<1>1. /\ ReqTyped /\ DOMAIN req = Requests /\ DOMAIN req[r] = Fields
      /\ ~ Lost(r)
  <2>. faults \in Nat
    BY Zenon DEF AtInv
  <2>1. faults + 1 # faults
    OBVIOUS
  <2>. QED BY <2>1 DEF HistInv, ReqTyped, Lost
<1>2. PICK s \in Requests : Works(s)
  BY OthersRest DEF vars
<1>3. s = r
  BY <1>2, WorkSays
<1>4. ~ (\E S \in SUBSET Platforms : StartPost(r, S))
  BY DEF AtInv, StartPost
<1>5. ~ NextPlatform(r)
  <2>. SUFFICES ASSUME NextPlatform(r) PROVE req'[r].results = req[r].results
    OBVIOUS
  <2>1. CASE req[r].todo = {}
    BY <1>1, <2>1, ReqToSays DEF NextPlatform, ReqTo
  <2>2. CASE req[r].todo # {}
    <3>. PICK p \in req[r].todo, pc \in {"auth", "post"} :
           req' = [req EXCEPT ![r].at = p, ![r].todo = @ \ {p}, ![r].pc = pc]
      BY <2>2 DEF NextPlatform
    <3>1. req' = [req EXCEPT ![r] = [req[r] EXCEPT !.at = p, !.todo = @ \ {p}, !.pc = pc]]
      BY <1>1 DEF Fields
    <3>. QED BY <1>1, <3>1 DEF Fields
  <2>. QED BY <2>1, <2>2
<1>6. ~ (Commit(r) \/ CommitFails(r))
  BY <1>1, ReqToSays DEF Commit, CommitFails
<1>7. ~ Authenticate(r)
  BY DEF Authenticate, AtInv, Probing
<1>8. ~ Post(r)
  <2>. SUFFICES ASSUME Post(r) PROVE FALSE
    OBVIOUS
  <2>1. req[r].pc = "post" /\ req[r].at \in Refreshing
    BY <1>1 DEF Post, ReqTyped, Trying, Refreshing
  <2>3. ReqTo(r, "refresh") \/ Result(r, "posted")
    BY <1>1, <2>1 DEF Post, Refused, Unanswered
  <2>. QED BY <1>1, <2>3, ReqToSays, ResultSays
<1>9. CASE Refresh(r)
  <2>1. ASSUME NEW t, Renewed(r, t) PROVE req'[r].results = req[r].results
    BY <1>1, <2>1 DEF Renewed, Fields
  <2>. QED BY <1>1, <1>9, <2>1 DEF Refresh
<1>. QED BY <1>2, <1>3, <1>4, <1>5, <1>6, <1>7, <1>8, <1>9 DEF Works

\* A post on Bluesky is given up, with every answer received, only when the
\* token cannot be renewed or expired again within the request
\* (BlueskyCrossPoster.post, _try_refresh_tokens).
THEOREM BlueskyRenewsFirst == Spec => BlueskyIsRenewed
<1>1. HistInv /\ AtInv /\ [Next]_vars => [RenewsBeforeFailing({"bluesky"})]_vars
  BY RenewedFirst DEF RenewsBeforeFailing
<1>. QED BY <1>1, AtInit, AtKept, HistInit, HistNext, PTL DEF Spec, BlueskyIsRenewed
=============================================================================
