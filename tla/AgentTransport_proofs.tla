------------------------ MODULE AgentTransport_proofs ------------------------
(***************************************************************************)
(* Proofs about AgentTransport, for any callers, calls, URLs and answers:  *)
(* type correctness, that no representation reaches a caller it was not    *)
(* made for, that a revalidated body is the one the Service vouched for    *)
(* when it sends entity tags, and that no lifetime is ever stretched.      *)
(***************************************************************************)
EXTENDS AgentTransport, TLAPS

Calls == [kind : {"inspect", "read", "support"}, partition : STRING, method : {"GET", "POST"},
          url : Urls, language : STRING, payload : {NoPayload} \cup STRING]

(* What a call's locals are while it asks: a record and where and how.     *)
LocalsOK ==
    /\ held \in [Callers -> Records \cup {NoRecord}]
    /\ at \in [Callers -> Urls]
    /\ verb \in [Callers -> {"GET", "POST"}]
    /\ payload \in [Callers -> {NoPayload} \cup STRING]
    /\ hops \in [Callers -> 0..MaxRedirects]

(* The rest of the state, that no call's step changes.                     *)
SiteOK ==
    /\ call \in Mixes
    /\ now \in 0..MaxTime /\ revision \in 0..MaxRevision
    /\ published \in [Urls -> 0..MaxRevision] /\ firstForm \in Forms
    /\ target \in [Urls -> Urls \cup {Foreign, "here", "gone"}]

Places == {"idle", "gate", "lookup", "disown", "discard", "asked", "answered", "returned"}

LEMMA CallType == ASSUME SiteOK, NEW c \in Callers PROVE call[c] \in Calls
BY ConstantsAssumption DEF SiteOK, Calls

LEMMA KeyType == ASSUME SiteOK, NEW c \in Callers PROVE KeyOf(c) \in Keys
BY DEF SiteOK, KeyOf, Keys

LEMMA BodyType ==
    ASSUME firstForm \in Forms,
           NEW u \in Urls \cup {Foreign}, NEW rev \in 0..MaxRevision,
           NEW k, k.partition \in STRING, k.language \in STRING,
           NEW sent \in {NoPayload} \cup STRING
    PROVE  Representation(u, rev, k, sent) \in Bodies
BY DEF Representation, Bodies, Forms

LEMMA RepresentationType ==
    ASSUME SiteOK, LocalsOK, NEW c \in Callers
    PROVE  Current(c) \in Bodies
<1>1. call[c] \in Calls BY CallType
<1>2. at[c] \in Urls /\ published[at[c]] \in 0..MaxRevision /\ firstForm \in Forms
  BY DEF SiteOK, LocalsOK
<1>3. payload[c] \in {NoPayload} \cup STRING BY DEF LocalsOK
<1>4. QED BY <1>1, <1>2, <1>3, BodyType DEF Current, Calls

(* The helpers keep the types of what they set.                            *)
LEMMA SettleType ==
    ASSUME SiteOK, LocalsOK, NEW c \in Callers, NEW r \in Records \cup {NoRecord}, NEW u \in Urls,
           Settle(c, r, u)
    PROVE  LocalsOK'
<1>1. call[c] \in Calls BY CallType
<1>2. 0 \in 0..MaxRedirects BY ConstantsAssumption
<1>3. QED BY <1>1, <1>2 DEF Settle, LocalsOK, Calls

LEMMA GotoType ==
    ASSUME pc \in [Callers -> Places], NEW c \in Callers, NEW where \in Places, Goto(c, where)
    PROVE  pc' \in [Callers -> Places]
BY DEF Goto

LEMMA ReturnType ==
    ASSUME TypeOK, NEW c \in Callers, NEW value \in Results \cup {NoResult, Failed},
           Return(c, value)
    PROVE  /\ LocalsOK'
           /\ pc' \in [Callers -> Places]
           /\ reply' \in [Callers -> Answers]
           /\ result' \in [Callers -> Results \cup {NoResult, Failed}]
<1>1. SiteOK /\ LocalsOK BY DEF TypeOK, SiteOK, LocalsOK
<1>2. call[c].url \in Urls BY <1>1, CallType DEF Calls
<1>3. LocalsOK' BY <1>1, <1>2, SettleType DEF Return
<1>4. pc' \in [Callers -> Places] BY GotoType DEF Return, TypeOK, Places
<1>5. QED BY <1>3, <1>4 DEF Return, TypeOK, Answers

LEMMA KeepType ==
    ASSUME TypeOK, NEW c \in Callers, NEW r \in Records \cup {NoRecord}, Keep(c, r)
    PROVE  store' \in [Keys -> Records \cup {NoRecord}]
BY KeyType DEF Keep, TypeOK, SiteOK

-----------------------------------------------------------------------------
LEMMA InitType == Init => TypeOK
<1> SUFFICES ASSUME Init PROVE TypeOK OBVIOUS
<1> USE ConstantsAssumption
<1>1. SiteOK BY DEF Init, SiteOK, Forms
<1>2. \A c \in Callers : call[c] \in Calls BY <1>1, CallType
<1>3. \A k \in Keys : Outdated(k) \in Records /\ Planted(k) \in Records
  <2> SUFFICES ASSUME NEW k \in Keys PROVE Outdated(k) \in Records /\ Planted(k) \in Records
    OBVIOUS
  <2>1. /\ k.partition \in STRING /\ k.language \in STRING /\ k.url \in Urls
        /\ k.payload \in {NoPayload} \cup STRING
    BY DEF Keys, CacheKey, Spoken
  <2>2. 0 \in 0..MaxRevision /\ 0 \in 0..MaxTime OBVIOUS
  <2>3. /\ Representation(k.url, 0, k, k.payload) \in Bodies
        /\ Representation(Foreign, 0, k, k.payload) \in Bodies
    BY <1>1, <2>1, <2>2, BodyType DEF SiteOK
  <2>4. QED BY <2>1, <2>2, <2>3 DEF Outdated, Planted, Records
<1>4. store \in [Keys -> Records \cup {NoRecord}] BY <1>3 DEF Init
<1>5. LocalsOK BY <1>2 DEF Init, LocalsOK, Calls
<1>6. QED BY <1>1, <1>4, <1>5 DEF Init, TypeOK, SiteOK, LocalsOK, Answers

-----------------------------------------------------------------------------
(* An answer that carries a representation carries all that goes with it.  *)
LEMMA AnswerType ==
    ASSUME TypeOK, NEW c \in Callers, reply[c].status \in {"body", "unmodified"}
    PROVE  reply[c] \in [status : {"body", "unmodified"}, body : Bodies, headers : Replies,
                         tag : Bodies \cup {NoTag}, asOf : 0..MaxRevision]
BY DEF TypeOK, Answers, NoReply

LEMMA ExpiryType ==
    ASSUME TypeOK, NEW h \in Replies
    PROVE  Expiry(h) \in Int
<1>1. h.directive \in {"none", "no-store", "no-cache", "lifetime"} /\ h.grant \in Int
  BY ConstantsAssumption
<1>2. QED BY <1>1, ConstantsAssumption DEF Expiry, TypeOK

LEMMA RefreshedType ==
    ASSUME TypeOK, NEW c \in Callers, reply[c].status = "unmodified", held[c] # NoRecord
    PROVE  Refreshed(c, reply[c]) \in Records
<1>1. held[c] \in Records /\ at[c] \in Urls BY DEF TypeOK
<1>2. /\ reply[c].headers \in Replies /\ reply[c].asOf \in 0..MaxRevision
      /\ reply[c].body.revision \in 0..MaxRevision
  BY AnswerType DEF Bodies
<1>3. Expiry(reply[c].headers) \in Int BY <1>2, ExpiryType
<1>4. now + Lifetime(held[c]) \in Int
  <2>1. held[c].expires \in Int /\ held[c].stored \in Int BY <1>1 DEF Records
  <2>2. QED BY <2>1 DEF Lifetime, TypeOK
<1>5. Since(held[c]) \in 0..MaxTime BY DEF Since, TypeOK
<1>6. QED BY <1>1, <1>2, <1>3, <1>4, <1>5 DEF Refreshed, Records

LEMMA RevalidatedType ==
    ASSUME TypeOK, NEW c \in Callers, reply[c].status = "unmodified", held[c] # NoRecord
    PROVE  Revalidated(c, reply[c]) \in Results \cup {NoResult, Failed}
<1>1. held[c] \in Records /\ at[c] \in Urls BY DEF TypeOK
<1>2. /\ reply[c].body \in Bodies /\ reply[c].asOf \in 0..MaxRevision
      /\ reply[c].headers.vary \in BOOLEAN
  BY AnswerType, ConstantsAssumption
<1>3. QED BY <1>1, <1>2 DEF Revalidated, Results, Records

-----------------------------------------------------------------------------
(* One step per action of a call.                                          *)
LEMMA LookupType ==
    ASSUME TypeOK, NEW c \in Callers,
           Begin(c) \/ EnterGate(c) \/ LeaveQueue(c) \/ Miss(c) \/ Disown(c) \/ DeleteDisowned(c)
           \/ Hit(c) \/ DeleteInvalid(c) \/ Revalidate(c)
    PROVE  TypeOK'
<1> USE DEF site, locals, history
<1>1. SiteOK /\ LocalsOK /\ pc \in [Callers -> Places]
  BY DEF TypeOK, SiteOK, LocalsOK, Places
<1>2. call[c].url \in Urls BY <1>1, CallType DEF Calls
<1>3. Found(c) \in Records \cup {NoRecord} BY <1>1, KeyType DEF Found, TypeOK
<1>4. CASE Begin(c)
  <2>1. pc' \in [Callers -> Places] BY <1>1, <1>4 DEF Begin, Goto, Places
  <2>2. made' \in [Callers -> Nat] BY <1>4 DEF Begin, TypeOK
  <2>3. QED BY <1>4, <2>1, <2>2 DEF Begin, TypeOK, Places
<1>5. CASE EnterGate(c) \/ Disown(c)
  <2>1. pc' \in [Callers -> Places] BY <1>1, <1>5 DEF EnterGate, Disown, Goto, Places
  <2>2. QED BY <1>5, <2>1 DEF EnterGate, Disown, TypeOK, Places
<1>6. CASE LeaveQueue(c)
  <2>1. Return(c, Failed) BY <1>6 DEF LeaveQueue, Fail
  <2>2. QED BY <1>6, <2>1, ReturnType DEF LeaveQueue, TypeOK, LocalsOK, Places
<1>7. CASE Miss(c) \/ DeleteDisowned(c)
  <2>1. LocalsOK' BY <1>1, <1>2, <1>7, SettleType DEF Miss, DeleteDisowned, Ask
  <2>2. pc' \in [Callers -> Places] BY <1>1, <1>7 DEF Miss, DeleteDisowned, Ask, Goto, Places
  <2>3. store' \in [Keys -> Records \cup {NoRecord}]
    BY <1>7, KeepType DEF Miss, DeleteDisowned, Delete, TypeOK
  <2>4. QED BY <1>7, <2>1, <2>2, <2>3 DEF Miss, DeleteDisowned, TypeOK, LocalsOK, Places
<1>8. CASE Hit(c)
  <2>1. Found(c) \in Records BY <1>3, <1>8 DEF Hit
  <2>2. CASE Validates(c, Found(c).body)
    <3>1. [freshness |-> "fresh", body |-> Found(c).body, final |-> Found(c).final,
           confirmed |-> Found(c).body, asOf |-> Found(c).asOf, uncovered |-> FALSE] \in Results
      BY <2>1 DEF Records, Results
    <3>2. QED BY <1>8, <2>2, <3>1, ReturnType DEF Hit, TypeOK, LocalsOK, Places
  <2>3. CASE ~Validates(c, Found(c).body)
    <3>1. pc' \in [Callers -> Places] BY <1>1, <1>8, <2>3 DEF Hit, Goto, Places
    <3>2. QED BY <1>8, <2>3, <3>1 DEF Hit, TypeOK, Places
  <2>4. QED BY <2>2, <2>3
<1>9. CASE DeleteInvalid(c)
  <2>1. store' \in [Keys -> Records \cup {NoRecord}]
    BY <1>9, KeepType DEF DeleteInvalid, Delete
  <2>2. Return(c, Failed) BY <1>9 DEF DeleteInvalid, Fail
  <2>3. QED BY <1>9, <2>1, <2>2, ReturnType DEF DeleteInvalid, TypeOK, LocalsOK, Places
<1>10. CASE Revalidate(c)
  <2>1. Found(c) \in Records BY <1>3, <1>10 DEF Revalidate
  <2>2. StartAt(c, Found(c)) \in Urls BY <1>2, <1>10 DEF Revalidate, StartAt, SameOrigin
  <2>3. LocalsOK' BY <1>1, <1>10, <2>1, <2>2, SettleType DEF Revalidate, Ask
  <2>4. pc' \in [Callers -> Places] BY <1>1, <1>10 DEF Revalidate, Ask, Goto, Places
  <2>5. QED BY <1>10, <2>3, <2>4 DEF Revalidate, TypeOK, LocalsOK, Places
<1>11. QED BY <1>4, <1>5, <1>6, <1>7, <1>8, <1>9, <1>10

LEMMA ServiceType ==
    ASSUME TypeOK, NEW c \in Callers, Service(c) PROVE TypeOK'
<1> USE DEF site, locals, history
<1>1. SiteOK /\ LocalsOK /\ pc \in [Callers -> Places]
  BY DEF TypeOK, SiteOK, LocalsOK, Places
<1>2. SUFFICES ASSUME NEW m \in Answers, AnswerWith(c, m) PROVE TypeOK'
  <2>1. CASE Redirects(c)
    <3>1. PICK b \in BOOLEAN : AnswerWith(c, [status |-> "redirect", to |-> target[at[c]],
                                              becomesGet |-> b])
      BY <2>1 DEF Redirects
    <3>2. target[at[c]] \in Urls \cup {Foreign} BY <2>1 DEF Redirects
    <3>3. QED BY <1>2, <3>1, <3>2 DEF Answers
  <2>2. CASE Refuses(c) BY <1>2, <2>2 DEF Refuses, Answers
  <2>3. CASE Serves(c)
    <3>1. PICK s \in {"body", "unmodified"}, h \in Replies :
              AnswerWith(c, [status |-> s, body |-> Current(c), headers |-> h,
                             tag |-> IF Tagged THEN Current(c) ELSE NoTag, asOf |-> revision])
      BY <2>3 DEF Serves
    <3>2. Current(c) \in Bodies BY <1>1, RepresentationType
    <3>3. QED BY <1>2, <3>1, <3>2 DEF Answers, TypeOK
  <2>4. QED BY <2>1, <2>2, <2>3 DEF Service
<1>3. pc' \in [Callers -> Places] BY <1>1, <1>2 DEF AnswerWith, Goto, Places
<1>4. QED BY <1>2, <1>3 DEF AnswerWith, TypeOK, Places

LEMMA AnswerTakenType ==
    ASSUME TypeOK, NEW c \in Callers,
           Follow(c) \/ Refusal(c) \/ Unusable(c) \/ Unmodified(c) \/ Body(c) \/ Finish(c)
    PROVE  TypeOK'
<1> USE DEF site, locals, history
<1>1. SiteOK /\ LocalsOK /\ pc \in [Callers -> Places]
  BY DEF TypeOK, SiteOK, LocalsOK, Places
<1>2. CASE Follow(c)
  <2>1. CASE Fail(c)
    BY <1>2, <2>1, ReturnType DEF Fail, Follow, TypeOK, LocalsOK, Places
  <2>2. CASE ~HopsSpent(c) /\ SameOrigin(reply[c].to) /\ Goto(c, "asked")
             /\ at' = [at EXCEPT ![c] = reply[c].to] /\ hops' = [hops EXCEPT ![c] = CountHop(c)]
             /\ (IF reply[c].becomesGet
                 THEN /\ verb' = [verb EXCEPT ![c] = "GET"]
                      /\ payload' = [payload EXCEPT ![c] = NoPayload]
                 ELSE UNCHANGED <<verb, payload>>)
             /\ reply' = [reply EXCEPT ![c] = NoReply] /\ UNCHANGED <<held, result>>
    <3>1. pc' \in [Callers -> Places] BY <1>1, <2>2 DEF Goto, Places
    <3>2. hops[c] + 1 \in 0..MaxRedirects
      BY <2>2, ConstantsAssumption DEF HopsSpent, TypeOK
    <3>3. LocalsOK' BY <1>1, <2>2, <3>2 DEF SameOrigin, CountHop, LocalsOK
    <3>4. reply' \in [Callers -> Answers] BY <2>2 DEF TypeOK, Answers
    <3>5. QED BY <1>2, <2>2, <3>1, <3>3, <3>4 DEF Follow, TypeOK, LocalsOK, Places
  <2>3. QED BY <1>2, <2>1, <2>2 DEF Follow
<1>3. CASE Refusal(c) \/ Unusable(c)
  <2>1. Return(c, Failed) BY <1>3 DEF Refusal, Unusable, Fail
  <2>2. QED BY <1>3, <2>1, ReturnType DEF Refusal, Unusable, TypeOK, LocalsOK, Places
<1>4. CASE Unmodified(c)
  <2>1. /\ Refreshed(c, reply[c]) \in Records
        /\ Revalidated(c, reply[c]) \in Results \cup {NoResult, Failed}
    BY <1>4, RefreshedType, RevalidatedType DEF Unmodified
  <2>2. PICK r \in Records \cup {NoRecord}, value \in Results \cup {NoResult, Failed} :
            Keep(c, r) /\ Return(c, value)
    BY <1>4, <2>1 DEF Unmodified, Delete, Fail
  <2>3. store' \in [Keys -> Records \cup {NoRecord}] BY <2>2, KeepType
  <2>4. QED BY <1>4, <2>2, <2>3, ReturnType DEF Unmodified, TypeOK, LocalsOK, Places
<1>5. CASE Body(c)
  <2>1. reply[c] \in [status : {"body", "unmodified"}, body : Bodies, headers : Replies,
                      tag : Bodies \cup {NoTag}, asOf : 0..MaxRevision]
    BY <1>5, AnswerType DEF Body
  <2>2. Expiry(reply[c].headers) \in Int BY <2>1, ExpiryType
  <2>3. /\ at[c] \in Urls /\ now \in 0..MaxTime /\ reply[c].body.revision \in 0..MaxRevision
    BY <2>1 DEF TypeOK, Bodies
  <2>4. Retrieved(c, reply[c]) \in Records BY <2>1, <2>2, <2>3 DEF Retrieved, Records
  <2>5. store' \in [Keys -> Records \cup {NoRecord}] BY <1>5, <2>4, KeepType DEF Body
  <2>6. [freshness |-> "fetched", body |-> reply[c].body, final |-> at[c],
         confirmed |-> reply[c].body, asOf |-> reply[c].asOf, uncovered |-> FALSE] \in Results
    BY <2>1, <2>3 DEF Results
  <2>7. QED BY <1>5, <2>5, <2>6, ReturnType DEF Body, TypeOK, LocalsOK, Places
<1>6. CASE Finish(c)
  <2>1. pc' \in [Callers -> Places] BY <1>1, <1>6 DEF Finish, Goto, Places
  <2>2. inspected' \in 0..MaxRevision
    BY <1>6 DEF Finish, HasBody, TypeOK, Results
  <2>3. QED BY <1>6, <2>1, <2>2 DEF Finish, TypeOK, Places
<1>7. QED BY <1>2, <1>3, <1>4, <1>5, <1>6

LEMMA EnvironmentType == ASSUME TypeOK, Environment PROVE TypeOK'
<1> USE DEF site, locals, history
<1>1. CASE Tick BY <1>1, ConstantsAssumption DEF Tick, TypeOK
<1>2. ASSUME NEW u \in Urls, Publish(u) PROVE TypeOK'
  BY <1>2, ConstantsAssumption DEF Publish, TypeOK
<1>3. ASSUME NEW u \in Urls, NEW t \in Urls \cup {Foreign, "here", "gone"}, Move(u, t) PROVE TypeOK'
  BY <1>3, ConstantsAssumption DEF Move, TypeOK
<1>4. QED BY <1>1, <1>2, <1>3 DEF Environment

LEMMA StepType == TypeOK /\ [Next]_vars => TypeOK'
<1> SUFFICES ASSUME TypeOK, [Next]_vars PROVE TypeOK' OBVIOUS
<1>1. CASE UNCHANGED vars \/ Done
  BY <1>1 DEF Done, vars, site, locals, history, TypeOK
<1>2. ASSUME NEW c \in Callers, Begin(c) \/ LeaveQueue(c) \/ Client(c) PROVE TypeOK'
  BY <1>2, LookupType, AnswerTakenType DEF Client
<1>3. ASSUME NEW c \in Callers, Service(c) \/ Unusable(c) PROVE TypeOK'
  BY <1>3, ServiceType, AnswerTakenType
<1>4. QED BY <1>1, <1>2, <1>3, EnvironmentType DEF Next

(* The state is of its type, whatever the calls and the Service's answers. *)
THEOREM TypeCorrect == Spec => []TypeOK
<1>1. QED BY InitType, StepType, PTL DEF Spec

-----------------------------------------------------------------------------
(* Whatever is held under a key, in a call's hands, on its way to it or    *)
(* returned by it was made for the caller the key, or the call, is for.    *)
ForKey(k, record) == record # NoRecord => MadeFor(record.body, k)
StoredForKey == \A k \in Keys : ForKey(k, store[k])
SentOwn == \A c \in Callers : payload[c] \in {call[c].payload, NoPayload}
HeldForCaller == \A c \in Callers : ForKey(call[c], held[c])
AnsweredForCaller ==
    \A c \in Callers :
        reply[c].status \in {"body", "unmodified"} => MadeFor(reply[c].body, call[c])
IsolationInv ==
    /\ TypeOK /\ StoredForKey /\ SentOwn /\ HeldForCaller /\ AnsweredForCaller
    /\ PrincipalIsolation

LEMMA FoundForCaller ==
    ASSUME TypeOK, StoredForKey, NEW c \in Callers
    PROVE  ForKey(call[c], Found(c))
<1>1. KeyOf(c) \in Keys BY KeyType DEF TypeOK, SiteOK
<1>2. ForKey(KeyOf(c), Found(c)) BY <1>1 DEF StoredForKey, Found
<1>3. QED BY <1>2 DEF ForKey, MadeFor, KeyOf, CacheKey, Spoken

(* A call returns what was made for it, and its locals are as at first.    *)
LEMMA ReturnIsolates ==
    ASSUME IsolationInv, NEW c \in Callers, NEW value, Return(c, value), call' = call,
           HasBody(value) => MadeFor(value.body, call[c])
    PROVE  SentOwn' /\ HeldForCaller' /\ AnsweredForCaller' /\ PrincipalIsolation'
<1>1. SentOwn' BY DEF Return, Settle, IsolationInv, SentOwn, TypeOK
<1>2. HeldForCaller' BY DEF Return, Settle, IsolationInv, HeldForCaller, ForKey, TypeOK
<1>3. AnsweredForCaller' BY DEF Return, IsolationInv, AnsweredForCaller, NoReply, TypeOK
<1>4. PrincipalIsolation' BY DEF Return, IsolationInv, PrincipalIsolation, TypeOK
<1>5. QED BY <1>1, <1>2, <1>3, <1>4

(* A call that keeps a record made for it leaves the store so.             *)
LEMMA KeepIsolates ==
    ASSUME IsolationInv, NEW c \in Callers, NEW r, Keep(c, r), ForKey(call[c], r)
    PROVE  StoredForKey'
<1>1. KeyOf(c) \in Keys BY KeyType DEF IsolationInv, TypeOK, SiteOK
<1>2. ForKey(KeyOf(c), r) BY DEF ForKey, MadeFor, KeyOf, CacheKey, Spoken
<1>3. QED BY <1>1, <1>2 DEF Keep, IsolationInv, StoredForKey, TypeOK

LEMMA AskIsolates ==
    ASSUME IsolationInv, NEW c \in Callers, NEW r, NEW u, Ask(c, r, u), ForKey(call[c], r),
           call' = call, reply' = reply, result' = result
    PROVE  SentOwn' /\ HeldForCaller' /\ AnsweredForCaller' /\ PrincipalIsolation'
BY DEF Ask, Settle, IsolationInv, SentOwn, HeldForCaller, AnsweredForCaller, PrincipalIsolation, TypeOK

LEMMA InitIsolates == Init => IsolationInv
<1> SUFFICES ASSUME Init PROVE IsolationInv OBVIOUS
<1>1. TypeOK BY InitType
<1>2. StoredForKey
  BY DEF Init, StoredForKey, ForKey, MadeFor, Outdated, Planted, Representation
<1>3. SentOwn /\ HeldForCaller BY DEF Init, SentOwn, HeldForCaller, ForKey
<1>4. AnsweredForCaller BY DEF Init, AnsweredForCaller, NoReply
<1>5. PrincipalIsolation BY DEF Init, PrincipalIsolation, HasBody
<1>6. QED BY <1>1, <1>2, <1>3, <1>4, <1>5 DEF IsolationInv

LEMMA LookupIsolates ==
    ASSUME IsolationInv, NEW c \in Callers,
           Begin(c) \/ EnterGate(c) \/ LeaveQueue(c) \/ Miss(c) \/ Disown(c) \/ DeleteDisowned(c)
           \/ Hit(c) \/ DeleteInvalid(c) \/ Revalidate(c)
    PROVE  IsolationInv'
<1> USE DEF site, locals, history
<1>1. TypeOK' BY LookupType DEF IsolationInv
<1>2. TypeOK /\ ForKey(call[c], Found(c)) BY FoundForCaller DEF IsolationInv
<1>3. CASE Begin(c) \/ EnterGate(c) \/ Disown(c)
  BY <1>1, <1>3 DEF Begin, EnterGate, Disown, IsolationInv, StoredForKey, SentOwn, HeldForCaller,
     AnsweredForCaller, PrincipalIsolation
<1>4. CASE LeaveQueue(c)
  <2>1. Return(c, Failed) BY <1>4 DEF LeaveQueue, Fail
  <2>2. StoredForKey' BY <1>4 DEF LeaveQueue, IsolationInv, StoredForKey
  <2>3. QED BY <1>1, <1>4, <2>1, <2>2, ReturnIsolates DEF LeaveQueue, HasBody, IsolationInv
<1>5. CASE Miss(c) \/ DeleteDisowned(c)
  <2>1. Ask(c, NoRecord, call[c].url) /\ ForKey(call[c], NoRecord)
    BY <1>5 DEF Miss, DeleteDisowned, ForKey
  <2>2. StoredForKey'
    <3>1. CASE Miss(c) BY <3>1 DEF Miss, IsolationInv, StoredForKey
    <3>2. CASE DeleteDisowned(c) BY <2>1, <3>2, KeepIsolates DEF DeleteDisowned, Delete
    <3>3. QED BY <1>5, <3>1, <3>2
  <2>3. call' = call /\ reply' = reply /\ result' = result BY <1>5 DEF Miss, DeleteDisowned
  <2>4. QED BY <1>1, <2>1, <2>2, <2>3, AskIsolates DEF IsolationInv
<1>6. CASE Hit(c)
  <2>1. StoredForKey' BY <1>6 DEF Hit, IsolationInv, StoredForKey
  <2>2. CASE Validates(c, Found(c).body)
    <3>1. MadeFor(Found(c).body, call[c]) BY <1>2, <1>6 DEF Hit, ForKey
    <3>2. QED BY <1>1, <1>6, <2>1, <2>2, <3>1, ReturnIsolates DEF Hit, IsolationInv
  <2>3. CASE ~Validates(c, Found(c).body)
    BY <1>1, <1>6, <2>1, <2>3 DEF Hit, IsolationInv, SentOwn, HeldForCaller, AnsweredForCaller,
       PrincipalIsolation
  <2>4. QED BY <2>2, <2>3
<1>7. CASE DeleteInvalid(c)
  <2>1. Return(c, Failed) /\ ForKey(call[c], NoRecord) BY <1>7 DEF DeleteInvalid, Fail, ForKey
  <2>2. StoredForKey' BY <1>7, <2>1, KeepIsolates DEF DeleteInvalid, Delete
  <2>3. QED BY <1>1, <1>7, <2>1, <2>2, ReturnIsolates DEF DeleteInvalid, HasBody, IsolationInv
<1>8. CASE Revalidate(c)
  <2>1. StoredForKey' BY <1>8 DEF Revalidate, IsolationInv, StoredForKey
  <2>2. QED BY <1>1, <1>2, <1>8, <2>1, AskIsolates DEF Revalidate, IsolationInv
<1>9. QED BY <1>3, <1>4, <1>5, <1>6, <1>7, <1>8

LEMMA ServiceIsolates ==
    ASSUME IsolationInv, NEW c \in Callers, Service(c) PROVE IsolationInv'
<1> USE DEF site, locals, history
<1>1. TypeOK' BY ServiceType DEF IsolationInv
<1>2. SUFFICES ASSUME NEW m, AnswerWith(c, m),
                      m.status \in {"body", "unmodified"} => MadeFor(m.body, call[c])
               PROVE  IsolationInv'
  <2>1. MadeFor(Current(c), call[c])
    BY DEF Current, Representation, MadeFor, IsolationInv, SentOwn
  <2>2. QED BY <1>2, <2>1 DEF Service, Redirects, Refuses, Serves
<1>3. AnsweredForCaller' BY <1>2 DEF AnswerWith, IsolationInv, AnsweredForCaller, TypeOK
<1>4. QED BY <1>1, <1>2, <1>3 DEF AnswerWith, IsolationInv, StoredForKey, SentOwn, HeldForCaller,
     PrincipalIsolation

LEMMA AnswerTakenIsolates ==
    ASSUME IsolationInv, NEW c \in Callers,
           Follow(c) \/ Refusal(c) \/ Unusable(c) \/ Unmodified(c) \/ Body(c) \/ Finish(c)
    PROVE  IsolationInv'
<1> USE DEF site, locals, history
<1>1. TypeOK' BY AnswerTakenType DEF IsolationInv
<1>2. CASE Fail(c) /\ UNCHANGED <<call, store>>
  <2>1. StoredForKey' BY <1>2 DEF IsolationInv, StoredForKey
  <2>2. QED BY <1>1, <1>2, <2>1, ReturnIsolates DEF Fail, HasBody, IsolationInv
<1>3. CASE Follow(c) /\ ~Fail(c)
  <2>1. SentOwn' BY <1>3 DEF Follow, IsolationInv, SentOwn, TypeOK
  <2>2. AnsweredForCaller'
    BY <1>3 DEF Follow, IsolationInv, AnsweredForCaller, NoReply, TypeOK
  <2>3. QED BY <1>1, <1>3, <2>1, <2>2
    DEF Follow, IsolationInv, StoredForKey, HeldForCaller, PrincipalIsolation
<1>4. CASE Unmodified(c)
  <2>1. held[c] # NoRecord /\ held[c] \in Records BY <1>4 DEF Unmodified, IsolationInv, TypeOK
  <2>2. MadeFor(held[c].body, call[c]) BY <2>1 DEF IsolationInv, HeldForCaller, ForKey
  <2>3. Refreshed(c, reply[c]).body = held[c].body BY <2>1 DEF Refreshed, Records
  <2>4. /\ ForKey(call[c], Refreshed(c, reply[c])) /\ ForKey(call[c], NoRecord)
        /\ HasBody(Revalidated(c, reply[c])) => MadeFor(Revalidated(c, reply[c]).body, call[c])
    BY <2>2, <2>3 DEF ForKey, Revalidated, HasBody
  <2>5. PICK r \in {Refreshed(c, reply[c]), NoRecord}, value \in {Revalidated(c, reply[c]), Failed} :
            Keep(c, r) /\ Return(c, value)
    BY <1>4 DEF Unmodified, Delete, Fail
  <2>6. StoredForKey' BY <2>4, <2>5, KeepIsolates
  <2>7. call' = call BY <1>4 DEF Unmodified
  <2>8. HasBody(value) => MadeFor(value.body, call[c]) BY <2>4, <2>5 DEF HasBody
  <2>9. QED BY <1>1, <2>5, <2>6, <2>7, <2>8, ReturnIsolates DEF IsolationInv
<1>5. CASE Body(c)
  <2>1. MadeFor(reply[c].body, call[c]) BY <1>5 DEF Body, IsolationInv, AnsweredForCaller
  <2>2. PICK r : Keep(c, r) /\ (r = NoRecord \/ r.body = reply[c].body)
    BY <1>5 DEF Body, Retrieved
  <2>3. StoredForKey' BY <2>1, <2>2, KeepIsolates DEF ForKey
  <2>4. QED BY <1>1, <1>5, <2>1, <2>3, ReturnIsolates DEF Body, IsolationInv
<1>6. CASE Finish(c)
  <2>1. PrincipalIsolation' BY <1>6 DEF Finish, IsolationInv, PrincipalIsolation, HasBody, TypeOK
  <2>2. QED BY <1>1, <1>6, <2>1
    DEF Finish, IsolationInv, StoredForKey, SentOwn, HeldForCaller, AnsweredForCaller
<1>7. QED BY <1>2, <1>3, <1>4, <1>5, <1>6 DEF Follow, Refusal, Unusable

LEMMA StepIsolates == IsolationInv /\ [Next]_vars => IsolationInv'
<1> SUFFICES ASSUME IsolationInv, [Next]_vars PROVE IsolationInv' OBVIOUS
<1>1. CASE UNCHANGED vars \/ Done \/ Environment
  <2>1. TypeOK' BY <1>1, StepType DEF Next, IsolationInv
  <2>2. UNCHANGED <<call, store, locals, reply, result>>
    BY <1>1 DEF Done, Environment, Tick, Publish, Move, vars
  <2>3. QED BY <2>1, <2>2 DEF locals, IsolationInv, StoredForKey, SentOwn, HeldForCaller,
       AnsweredForCaller, PrincipalIsolation
<1>2. ASSUME NEW c \in Callers, Begin(c) \/ LeaveQueue(c) \/ Client(c) PROVE IsolationInv'
  BY <1>2, LookupIsolates, AnswerTakenIsolates DEF Client
<1>3. ASSUME NEW c \in Callers, Service(c) \/ Unusable(c) PROVE IsolationInv'
  BY <1>3, ServiceIsolates, AnswerTakenIsolates
<1>4. QED BY <1>1, <1>2, <1>3 DEF Next

(* No caller is ever handed what was made for another principal, another   *)
(* language or another search, however calls, redirects and cache          *)
(* operations interleave.                                                  *)
THEOREM Isolation == Spec => []PrincipalIsolation
<1>1. IsolationInv => PrincipalIsolation BY DEF IsolationInv
<1>2. QED BY <1>1, InitIsolates, StepIsolates, PTL DEF Spec

-----------------------------------------------------------------------------
(* What a step does to the records kept and held: it keeps or deletes one  *)
(* under the caller's key, and a call holds what it found or nothing.      *)
LEMMA RecordsMove ==
    ASSUME TypeOK, NEW c \in Callers,
           Begin(c) \/ LeaveQueue(c) \/ Client(c) \/ Service(c) \/ Unusable(c)
    PROVE  /\ \/ store' = store
              \/ Keep(c, NoRecord)
              \/ /\ reply[c].status = "unmodified" /\ held[c] # NoRecord
                 /\ Keep(c, Refreshed(c, reply[c]))
              \/ reply[c].status = "body" /\ Keep(c, Retrieved(c, reply[c]))
           /\ \E r \in {held[c], NoRecord, Found(c)} : held' = [held EXCEPT ![c] = r]
<1> USE DEF site, locals, history
<1>1. held' = [held EXCEPT ![c] = held[c]] <=> held' = held BY DEF TypeOK
<1>2. CASE Begin(c) \/ EnterGate(c) \/ Disown(c) \/ Finish(c) \/ Service(c)
  BY <1>1, <1>2 DEF Begin, EnterGate, Disown, Finish, Service, Redirects, Refuses, Serves,
     AnswerWith
<1>3. CASE LeaveQueue(c) \/ Refusal(c) \/ Unusable(c) \/ Hit(c) \/ DeleteInvalid(c)
  BY <1>1, <1>3 DEF LeaveQueue, Refusal, Unusable, Hit, DeleteInvalid, Delete, Fail, Return, Settle
<1>4. CASE Miss(c) \/ DeleteDisowned(c) \/ Revalidate(c)
  BY <1>4 DEF Miss, DeleteDisowned, Revalidate, Delete, Ask, Settle
<1>5. CASE Follow(c) BY <1>1, <1>5 DEF Follow, Fail, Return, Settle
<1>6. CASE Unmodified(c) BY <1>6 DEF Unmodified, Delete, Fail, Return, Settle
<1>7. CASE Body(c) BY <1>7 DEF Body, Return, Settle
<1>8. QED BY <1>2, <1>3, <1>4, <1>5, <1>6, <1>7 DEF Client

LEMMA RecordsStay ==
    ASSUME [Next]_vars, ~\E c \in Callers : Begin(c) \/ LeaveQueue(c) \/ Client(c) \/ Service(c) \/ Unusable(c)
    PROVE  store' = store /\ held' = held /\ UNCHANGED <<reply, result>>
BY DEF Next, Environment, Tick, Publish, Move, Done, vars, site, locals, history


-----------------------------------------------------------------------------
(* A record kept or held expires within a granted lifetime of its storing. *)
HeldWithinLifetime ==
    \A c \in Callers : held[c] # NoRecord => LifetimeGranted(held[c])
LifetimeInv == TypeOK /\ LifetimesAreGranted /\ HeldWithinLifetime

LEMMA NoLifetimeIsGranted == \E l \in Lifetimes : 0 <= l
BY ConstantsAssumption DEF Lifetimes

LEMMA ExpiryGranted ==
    ASSUME TypeOK, NEW h \in Replies
    PROVE  \E l \in Lifetimes : Expiry(h) - now <= l
<1>1. h.directive \in {"none", "no-store", "no-cache", "lifetime"} /\ h.grant \in Int
  BY ConstantsAssumption
<1>2. h.grant \in Lifetimes /\ Fallback \in Lifetimes BY DEF Lifetimes
<1>3. now \in Int /\ Fallback \in Int BY ConstantsAssumption DEF TypeOK
<1>4. CASE h.directive \in {"no-store", "no-cache"}
  BY <1>3, <1>4, NoLifetimeIsGranted DEF Expiry
<1>5. CASE h.directive = "lifetime" BY <1>1, <1>2, <1>3, <1>5 DEF Expiry
<1>6. CASE h.directive = "none" BY <1>1, <1>2, <1>3, <1>6 DEF Expiry
<1>7. QED BY <1>1, <1>4, <1>5, <1>6

LEMMA RefreshedGranted ==
    ASSUME LifetimeInv, NEW c \in Callers, reply[c].status = "unmodified", held[c] # NoRecord
    PROVE  LifetimeGranted(Refreshed(c, reply[c]))
<1>1. held[c] \in Records /\ reply[c].headers \in Replies
  BY AnswerType DEF LifetimeInv, TypeOK
<1>2. held[c].expires \in Int /\ held[c].stored \in Int /\ now \in Int
  BY <1>1 DEF Records, LifetimeInv, TypeOK
<1>3. Refreshed(c, reply[c]).stored = now BY <1>1 DEF Refreshed, Since, Records
<1>4. CASE StatesFreshness(reply[c].headers)
  <2>1. Refreshed(c, reply[c]).expires = Expiry(reply[c].headers)
    BY <1>1, <1>4 DEF Refreshed, Records
  <2>2. QED BY <1>1, <1>3, <2>1, ExpiryGranted DEF LifetimeInv, LifetimeGranted
<1>5. CASE ~StatesFreshness(reply[c].headers)
  <2>1. Refreshed(c, reply[c]).expires = now + Lifetime(held[c])
    BY <1>1, <1>5 DEF Refreshed, Records
  <2>2. PICK l \in Lifetimes : Lifetime(held[c]) <= l
    <3>1. PICK m \in Lifetimes : held[c].expires - held[c].stored <= m
      BY DEF LifetimeInv, HeldWithinLifetime, LifetimeGranted
    <3>2. QED BY <1>2, <3>1, NoLifetimeIsGranted DEF Lifetime
  <2>3. l \in Int BY ConstantsAssumption DEF Lifetimes
  <2>4. Lifetime(held[c]) \in Int BY <1>2 DEF Lifetime
  <2>5. QED BY <1>2, <1>3, <2>1, <2>2, <2>3, <2>4 DEF LifetimeGranted
<1>6. QED BY <1>4, <1>5

LEMMA InitLifetime == Init => LifetimeInv
<1> SUFFICES ASSUME Init PROVE LifetimeInv OBVIOUS
<1>1. TypeOK BY InitType
<1>2. HeldWithinLifetime BY DEF Init, HeldWithinLifetime
<1>3. ASSUME NEW k \in Keys, store[k] # NoRecord PROVE LifetimeGranted(store[k])
  <2>1. store[k] = Outdated(k) \/ store[k] = Planted(k) BY <1>3 DEF Init
  <2>2. store[k].expires = 1 /\ store[k].stored = 0 BY <2>1 DEF Outdated, Planted
  <2>3. QED BY <2>2 DEF LifetimeGranted, Lifetimes
<1>4. QED BY <1>1, <1>2, <1>3 DEF LifetimeInv, LifetimesAreGranted

LEMMA StepLifetime == LifetimeInv /\ [Next]_vars => LifetimeInv'
<1> SUFFICES ASSUME LifetimeInv, [Next]_vars PROVE LifetimeInv' OBVIOUS
<1>1. TypeOK /\ TypeOK' BY StepType DEF LifetimeInv
<1>2. SUFFICES ASSUME NEW c \in Callers,
                      Begin(c) \/ LeaveQueue(c) \/ Client(c) \/ Service(c) \/ Unusable(c)
               PROVE  LifetimesAreGranted' /\ HeldWithinLifetime'
  BY <1>1, RecordsStay DEF LifetimeInv, LifetimesAreGranted, HeldWithinLifetime, LifetimeGranted
<1>3. KeyOf(c) \in Keys BY <1>1, KeyType DEF TypeOK, SiteOK
<1>4. LifetimesAreGranted'
  <2>1. CASE store' = store
    BY <2>1 DEF LifetimeInv, LifetimesAreGranted, LifetimeGranted
  <2>2. SUFFICES ASSUME NEW r, Keep(c, r), r # NoRecord => LifetimeGranted(r)
                 PROVE  LifetimesAreGranted'
    <3>1. CASE Keep(c, NoRecord) BY <2>2, <3>1
    <3>2. CASE /\ reply[c].status = "unmodified" /\ held[c] # NoRecord
               /\ Keep(c, Refreshed(c, reply[c]))
      BY <2>2, <3>2, RefreshedGranted
    <3>3. CASE reply[c].status = "body" /\ Keep(c, Retrieved(c, reply[c]))
      <4>1. reply[c].headers \in Replies BY <1>1, <3>3, AnswerType
      <4>2. LifetimeGranted(Retrieved(c, reply[c]))
        BY <1>1, <4>1, ExpiryGranted DEF Retrieved, LifetimeGranted
      <4>3. QED BY <2>2, <3>3, <4>2
    <3>4. QED BY <1>1, <1>2, <2>1, <3>1, <3>2, <3>3, RecordsMove
  <2>3. store' = [store EXCEPT ![KeyOf(c)] = r] BY <2>2 DEF Keep
  <2>4. QED BY <1>1, <1>3, <2>2, <2>3
    DEF LifetimeInv, LifetimesAreGranted, LifetimeGranted, TypeOK
<1>5. HeldWithinLifetime'
  <2>1. PICK r \in {held[c], NoRecord, Found(c)} : held' = [held EXCEPT ![c] = r]
    BY <1>1, <1>2, RecordsMove
  <2>2. r # NoRecord => LifetimeGranted(r)
    BY <1>3, <2>1 DEF LifetimeInv, LifetimesAreGranted, HeldWithinLifetime, Found
  <2>3. QED BY <1>1, <2>1, <2>2 DEF LifetimeInv, HeldWithinLifetime, LifetimeGranted, TypeOK
<1>6. QED BY <1>1, <1>4, <1>5 DEF LifetimeInv

(* However often a record is revalidated, with or without a new lifetime,  *)
(* it never expires later than a granted lifetime after it was stored.     *)
THEOREM LifetimesBounded == Spec => []LifetimesAreGranted
<1>1. LifetimeInv => LifetimesAreGranted BY DEF LifetimeInv
<1>2. QED BY <1>1, InitLifetime, StepLifetime, PTL DEF Spec

-----------------------------------------------------------------------------
(* When the Service sends entity tags, a record's tag, if it has one, and  *)
(* an answer's name the very body they come with.                          *)
TagIsOfBody(record) == record # NoRecord => record.tag \in {NoTag, record.body}
ConfirmedInv ==
    /\ Tagged
    /\ TypeOK
    /\ \A k \in Keys : TagIsOfBody(store[k])
    /\ \A c \in Callers : TagIsOfBody(held[c])
    /\ \A c \in Callers : reply[c].status \in {"body", "unmodified"} => reply[c].tag = reply[c].body
    /\ RevalidatedIsConfirmed

LEMMA InitConfirmed == Init /\ Tagged => ConfirmedInv
<1> SUFFICES ASSUME Init, Tagged PROVE ConfirmedInv OBVIOUS
<1>1. TypeOK BY InitType
<1>2. \A k \in Keys : TagIsOfBody(store[k]) BY DEF Init, TagIsOfBody, Outdated, Planted
<1>3. \A c \in Callers : TagIsOfBody(held[c]) BY DEF Init, TagIsOfBody
<1>4. QED BY <1>1, <1>2, <1>3 DEF Init, ConfirmedInv, NoReply, RevalidatedIsConfirmed, HasBody

(* A 304 whose tag does not contradict the record's confirms its body.     *)
LEMMA UnmodifiedConfirms ==
    ASSUME ConfirmedInv, NEW c \in Callers, reply[c].status = "unmodified", held[c] # NoRecord,
           ~Contradicts(held[c], reply[c])
    PROVE  held[c].body = reply[c].body
<1>1. reply[c].body \in Bodies BY AnswerType DEF ConfirmedInv
<1>2. reply[c].body # NoTag
  <2>1. "form" \in DOMAIN reply[c].body BY <1>1 DEF Bodies
  <2>2. "form" \notin DOMAIN NoTag BY DEF NoTag
  <2>3. QED BY <2>1, <2>2
<1>3. reply[c].tag = reply[c].body /\ held[c].tag \in {NoTag, held[c].body}
  BY DEF ConfirmedInv, TagIsOfBody
<1>4. QED BY <1>2, <1>3 DEF Contradicts

LEMMA TagsMove ==
    ASSUME ConfirmedInv, NEW c \in Callers,
           Begin(c) \/ LeaveQueue(c) \/ Client(c) \/ Service(c) \/ Unusable(c)
    PROVE  /\ \A k \in Keys : TagIsOfBody(store'[k])
           /\ \A d \in Callers : TagIsOfBody(held'[d])
<1>1. TypeOK BY DEF ConfirmedInv
<1>2. KeyOf(c) \in Keys BY <1>1, KeyType DEF TypeOK, SiteOK
<1>3. \A k \in Keys : TagIsOfBody(store'[k])
  <2>1. CASE store' = store BY <2>1 DEF ConfirmedInv
  <2>2. SUFFICES ASSUME NEW r, Keep(c, r), TagIsOfBody(r)
                 PROVE  \A k \in Keys : TagIsOfBody(store'[k])
    <3>1. CASE Keep(c, NoRecord) BY <2>2, <3>1 DEF TagIsOfBody
    <3>2. CASE /\ reply[c].status = "unmodified" /\ held[c] # NoRecord
               /\ Keep(c, Refreshed(c, reply[c]))
      <4>1. held[c] \in Records BY <1>1, <3>2 DEF TypeOK
      <4>2. /\ Refreshed(c, reply[c]).tag = held[c].tag
            /\ Refreshed(c, reply[c]).body = held[c].body
        BY <4>1 DEF Refreshed, Records
      <4>3. QED BY <2>2, <3>2, <4>2 DEF ConfirmedInv, TagIsOfBody
    <3>3. CASE reply[c].status = "body" /\ Keep(c, Retrieved(c, reply[c]))
      BY <2>2, <3>3 DEF ConfirmedInv, TagIsOfBody, Retrieved
    <3>4. QED BY <1>1, <2>1, <3>1, <3>2, <3>3, RecordsMove
  <2>3. QED BY <1>1, <1>2, <2>2 DEF Keep, ConfirmedInv, TypeOK
<1>4. \A d \in Callers : TagIsOfBody(held'[d])
  <2>1. PICK r \in {held[c], NoRecord, Found(c)} : held' = [held EXCEPT ![c] = r]
    BY <1>1, RecordsMove
  <2>2. TagIsOfBody(r) BY <1>2, <2>1 DEF ConfirmedInv, TagIsOfBody, Found
  <2>3. QED BY <1>1, <2>1, <2>2 DEF ConfirmedInv, TypeOK
<1>5. QED BY <1>3, <1>4

(* What a step answers or returns: a tag of its body, a confirmed body.    *)
LEMMA ReturnConfirms ==
    ASSUME ConfirmedInv, NEW c \in Callers, NEW value, Return(c, value),
           HasBody(value) => value.body = value.confirmed
    PROVE  /\ \A d \in Callers :
                  reply'[d].status \in {"body", "unmodified"} => reply'[d].tag = reply'[d].body
           /\ RevalidatedIsConfirmed'
BY DEF Return, ConfirmedInv, TypeOK, RevalidatedIsConfirmed, NoReply

LEMMA AnswersAndResultsMove ==
    ASSUME ConfirmedInv, NEW c \in Callers,
           Begin(c) \/ LeaveQueue(c) \/ Client(c) \/ Service(c) \/ Unusable(c)
    PROVE  /\ \A d \in Callers :
                  reply'[d].status \in {"body", "unmodified"} => reply'[d].tag = reply'[d].body
           /\ RevalidatedIsConfirmed'
<1> USE DEF site, locals, history
<1>1. CASE UNCHANGED <<reply, result>> BY <1>1 DEF ConfirmedInv, RevalidatedIsConfirmed
<1>2. CASE Begin(c) \/ EnterGate(c) \/ Miss(c) \/ Disown(c) \/ DeleteDisowned(c) \/ Revalidate(c)
  BY <1>1, <1>2 DEF Begin, EnterGate, Miss, Disown, DeleteDisowned, Revalidate
<1>3. CASE Fail(c) BY <1>3, ReturnConfirms DEF Fail, HasBody
<1>4. CASE LeaveQueue(c) \/ DeleteInvalid(c) \/ Refusal(c) \/ Unusable(c)
  BY <1>3, <1>4 DEF LeaveQueue, DeleteInvalid, Refusal, Unusable
<1>5. CASE Hit(c)
  <2>1. CASE Validates(c, Found(c).body) BY <1>5, <2>1, ReturnConfirms DEF Hit
  <2>2. CASE ~Validates(c, Found(c).body) BY <1>1, <1>5, <2>2 DEF Hit
  <2>3. QED BY <2>1, <2>2
<1>6. CASE Service(c)
  <2>1. SUFFICES ASSUME NEW m, AnswerWith(c, m),
                        m.status \in {"body", "unmodified"} => m.tag = m.body
                 PROVE  /\ \A d \in Callers :
                               reply'[d].status \in {"body", "unmodified"}
                               => reply'[d].tag = reply'[d].body
                        /\ RevalidatedIsConfirmed'
    BY <1>6 DEF Service, Redirects, Refuses, Serves, ConfirmedInv
  <2>2. QED BY <2>1 DEF AnswerWith, ConfirmedInv, TypeOK, RevalidatedIsConfirmed
<1>7. CASE Follow(c)
  <2>1. CASE ~Fail(c)
    BY <1>7, <2>1 DEF Follow, ConfirmedInv, TypeOK, RevalidatedIsConfirmed, NoReply
  <2>2. QED BY <1>3, <2>1
<1>8. CASE Unmodified(c)
  <2>1. CASE Contradicts(held[c], reply[c]) BY <1>3, <1>8, <2>1 DEF Unmodified
  <2>2. CASE ~Contradicts(held[c], reply[c])
    <3>1. Return(c, Revalidated(c, reply[c])) BY <1>8, <2>2 DEF Unmodified
    <3>2. held[c].body = reply[c].body BY <1>8, <2>2, UnmodifiedConfirms DEF Unmodified
    <3>3. HasBody(Revalidated(c, reply[c]))
          => Revalidated(c, reply[c]).body = Revalidated(c, reply[c]).confirmed
      BY <3>2 DEF Revalidated, HasBody
    <3>4. QED BY <3>1, <3>3, ReturnConfirms
  <2>3. QED BY <2>1, <2>2
<1>9. CASE Body(c)
  BY <1>9, ReturnConfirms DEF Body
<1>10. CASE Finish(c) BY <1>10 DEF Finish, ConfirmedInv, RevalidatedIsConfirmed, HasBody, TypeOK
<1>11. QED BY <1>2, <1>4, <1>5, <1>6, <1>7, <1>8, <1>9, <1>10 DEF Client

LEMMA StepConfirmed == ConfirmedInv /\ [Next]_vars => ConfirmedInv'
<1> SUFFICES ASSUME ConfirmedInv, [Next]_vars PROVE ConfirmedInv' OBVIOUS
<1>1. TypeOK' BY StepType DEF ConfirmedInv
<1>2. CASE \E c \in Callers : Begin(c) \/ LeaveQueue(c) \/ Client(c) \/ Service(c) \/ Unusable(c)
  BY <1>1, <1>2, TagsMove, AnswersAndResultsMove DEF ConfirmedInv, TagIsOfBody
<1>3. CASE ~\E c \in Callers : Begin(c) \/ LeaveQueue(c) \/ Client(c) \/ Service(c) \/ Unusable(c)
  BY <1>1, <1>3, RecordsStay DEF ConfirmedInv, TagIsOfBody, RevalidatedIsConfirmed
<1>4. QED BY <1>2, <1>3

(* Against a Service that sends entity tags, a body returned as revalidated*)
(* is the one it was serving when it said so, through whatever redirects.  *)
(* Without tags this is false: run AgentTransportUntagged.                 *)
THEOREM RevalidationConfirms == Spec /\ Tagged => []RevalidatedIsConfirmed
<1>1. ConfirmedInv => RevalidatedIsConfirmed BY DEF ConfirmedInv
<1>2. QED BY <1>1, InitConfirmed, StepConfirmed, PTL DEF Spec

-----------------------------------------------------------------------------
(* A record that says it came from the origin holds a body of the origin,  *)
(* a call only holds such records, and an answer that carries a body       *)
(* carries one of the origin.  What a call returned is Checked: of the     *)
(* origin, parsed, and valid where the code validates it.                  *)
OfTheOrigin(record) == record # NoRecord /\ record.final \in Urls => record.body.url \in Urls
Checked(kind, r) ==
    /\ r.body.url \in Urls
    /\ Parses(r.body)
    /\ r.body.form = "valid" \/ r.uncovered \/ (kind = "support" /\ r.freshness # "fetched")
OriginInv ==
    /\ TypeOK
    /\ \A k \in Keys : OfTheOrigin(store[k])
    /\ \A c \in Callers : held[c] # NoRecord => held[c].body.url \in Urls
    /\ \A c \in Callers : reply[c].status \in {"body", "unmodified"} => reply[c].body.url \in Urls
    /\ OnlyCheckedBodiesOfTheOrigin

LEMMA InitOrigin == Init => OriginInv
<1> SUFFICES ASSUME Init PROVE OriginInv OBVIOUS
<1>1. TypeOK BY InitType
<1>2. ASSUME NEW k \in Keys PROVE OfTheOrigin(store[k])
  <2>1. store[k] \in {NoRecord, Outdated(k), Planted(k)} BY DEF Init
  <2>2. CASE store[k] = Outdated(k)
    <3>1. store[k].final = k.url /\ store[k].body.url = k.url
      BY <2>2 DEF Outdated, Representation
    <3>2. QED BY <3>1 DEF OfTheOrigin
  <2>3. CASE store[k] = Planted(k)
    BY <2>3, ConstantsAssumption DEF Planted, OfTheOrigin
  <2>4. QED BY <2>1, <2>2, <2>3 DEF OfTheOrigin
<1>3. QED BY <1>1, <1>2 DEF Init, OriginInv, NoReply, OnlyCheckedBodiesOfTheOrigin, HasBody

(* A call takes up a record only to revalidate it.                         *)
LEMMA HeldOnlyToRevalidate ==
    ASSUME TypeOK, NEW c \in Callers,
           Begin(c) \/ LeaveQueue(c) \/ Client(c) \/ Service(c) \/ Unusable(c), ~Revalidate(c)
    PROVE  \E r \in {held[c], NoRecord} : held' = [held EXCEPT ![c] = r]
<1> USE DEF site, locals, history
<1>1. held' = [held EXCEPT ![c] = held[c]] <=> held' = held BY DEF TypeOK
<1>2. CASE Begin(c) \/ EnterGate(c) \/ Disown(c) \/ Finish(c) \/ Service(c)
  BY <1>1, <1>2 DEF Begin, EnterGate, Disown, Finish, Service, Redirects, Refuses, Serves,
     AnswerWith
<1>3. CASE LeaveQueue(c) \/ Refusal(c) \/ Unusable(c) \/ Hit(c) \/ DeleteInvalid(c)
  BY <1>1, <1>3 DEF LeaveQueue, Refusal, Unusable, Hit, DeleteInvalid, Delete, Fail, Return, Settle
<1>4. CASE Miss(c) \/ DeleteDisowned(c) BY <1>4 DEF Miss, DeleteDisowned, Ask, Settle
<1>5. CASE Follow(c) \/ Unmodified(c) \/ Body(c)
  BY <1>1, <1>5 DEF Follow, Unmodified, Body, Delete, Fail, Return, Settle
<1>6. QED BY <1>2, <1>3, <1>4, <1>5 DEF Client

LEMMA RecordsOfTheOriginMove ==
    ASSUME OriginInv, NEW c \in Callers,
           Begin(c) \/ LeaveQueue(c) \/ Client(c) \/ Service(c) \/ Unusable(c)
    PROVE  /\ \A k \in Keys : OfTheOrigin(store'[k])
           /\ \A d \in Callers : held'[d] # NoRecord => held'[d].body.url \in Urls
<1>1. TypeOK BY DEF OriginInv
<1>2. KeyOf(c) \in Keys BY <1>1, KeyType DEF TypeOK, SiteOK
<1>3. \A k \in Keys : OfTheOrigin(store'[k])
  <2>1. CASE store' = store BY <2>1 DEF OriginInv
  <2>2. SUFFICES ASSUME NEW r, Keep(c, r), OfTheOrigin(r)
                 PROVE  \A k \in Keys : OfTheOrigin(store'[k])
    <3>1. CASE Keep(c, NoRecord) BY <2>2, <3>1 DEF OfTheOrigin
    <3>2. CASE /\ reply[c].status = "unmodified" /\ held[c] # NoRecord
               /\ Keep(c, Refreshed(c, reply[c]))
      <4>1. held[c] \in Records BY <1>1, <3>2 DEF TypeOK
      <4>2. Refreshed(c, reply[c]).body = held[c].body BY <4>1 DEF Refreshed, Records
      <4>3. QED BY <2>2, <3>2, <4>2 DEF OriginInv, OfTheOrigin
    <3>3. CASE reply[c].status = "body" /\ Keep(c, Retrieved(c, reply[c]))
      BY <2>2, <3>3 DEF OriginInv, OfTheOrigin, Retrieved
    <3>4. QED BY <1>1, <2>1, <3>1, <3>2, <3>3, RecordsMove
  <2>3. QED BY <1>1, <1>2, <2>2 DEF Keep, OriginInv, TypeOK
<1>4. \A d \in Callers : held'[d] # NoRecord => held'[d].body.url \in Urls
  <2>1. CASE Revalidate(c)
    <3>1. held' = [held EXCEPT ![c] = Found(c)] BY <2>1 DEF Revalidate, Ask, Settle
    <3>2. Found(c).body.url \in Urls
      BY <1>2, <2>1 DEF Revalidate, SameOrigin, Found, OriginInv, OfTheOrigin
    <3>3. QED BY <1>1, <3>1, <3>2 DEF OriginInv, TypeOK
  <2>2. CASE ~Revalidate(c)
    <3>1. \E r \in {held[c], NoRecord} : held' = [held EXCEPT ![c] = r]
      BY <1>1, <2>2, HeldOnlyToRevalidate
    <3>2. QED BY <1>1, <3>1 DEF OriginInv, TypeOK
  <2>3. QED BY <2>1, <2>2
<1>5. QED BY <1>3, <1>4

(* What a step answers is of the origin, and what it returns is checked.   *)
LEMMA ReturnChecked ==
    ASSUME OriginInv, call' = call, NEW c \in Callers, NEW value, Return(c, value),
           HasBody(value) => Checked(call[c].kind, value)
    PROVE  /\ \A d \in Callers :
                  reply'[d].status \in {"body", "unmodified"} => reply'[d].body.url \in Urls
           /\ OnlyCheckedBodiesOfTheOrigin'
<1>1. \A d \in Callers :
          reply'[d].status \in {"body", "unmodified"} => reply'[d].body.url \in Urls
  BY DEF Return, OriginInv, TypeOK, NoReply
<1>2. result' = [result EXCEPT ![c] = value] BY DEF Return
<1>3. ASSUME NEW d \in Callers, HasBody(result'[d]) PROVE Checked(call[d].kind, result'[d])
  <2>1. CASE d = c BY <1>2, <1>3, <2>1 DEF OriginInv, TypeOK
  <2>2. CASE d # c
    <3>1. result'[d] = result[d] BY <1>2, <2>2 DEF OriginInv, TypeOK
    <3>2. QED
      BY <1>3, <3>1 DEF OriginInv, OnlyCheckedBodiesOfTheOrigin, PastTheValidator, Checked
  <2>3. QED BY <2>1, <2>2
<1>4. QED BY <1>1, <1>3 DEF OnlyCheckedBodiesOfTheOrigin, PastTheValidator, Checked

LEMMA CallsStay ==
    ASSUME NEW c \in Callers,
           Begin(c) \/ LeaveQueue(c) \/ Client(c) \/ Service(c) \/ Unusable(c)
    PROVE  call' = call
<1>1. CASE Begin(c) \/ LeaveQueue(c) \/ Unusable(c) BY <1>1 DEF Begin, LeaveQueue, Unusable
<1>2. CASE Service(c) BY <1>2 DEF Service, Redirects, Refuses, Serves, AnswerWith
<1>3. CASE EnterGate(c) \/ Miss(c) \/ Disown(c) \/ DeleteDisowned(c) \/ Hit(c)
           \/ DeleteInvalid(c) \/ Revalidate(c)
  BY <1>3 DEF EnterGate, Miss, Disown, DeleteDisowned, Hit, DeleteInvalid, Revalidate
<1>4. CASE Follow(c) \/ Refusal(c) \/ Unmodified(c) \/ Body(c) \/ Finish(c)
  BY <1>4 DEF Follow, Refusal, Unmodified, Body, Finish
<1>5. QED BY <1>1, <1>2, <1>3, <1>4 DEF Client

(* A 304 hands back what it holds: validated, or, under a Vary the key does*)
(* not cover, no more than parsed.                                         *)
LEMMA RevalidatedChecked ==
    ASSUME NEW c \in Callers, held[c].body.url \in Urls, HasBody(Revalidated(c, reply[c]))
    PROVE  Checked(call[c].kind, Revalidated(c, reply[c]))
<1> DEFINE m == reply[c]
           r == Revalidated(c, m)
<1>1. Accepted(c, m) BY DEF Revalidated, HasBody
<1>2. r.body = held[c].body /\ r.uncovered = ~m.headers.vary /\ r.freshness = "revalidated"
  BY <1>1 DEF Revalidated
<1>3. CASE m.headers.vary
  <2>1. Validates(c, held[c].body) BY <1>1, <1>3 DEF Accepted
  <2>2. QED BY <1>2, <2>1 DEF Validates, Checked, Parses
<1>4. CASE ~m.headers.vary BY <1>1, <1>2, <1>4 DEF Accepted, Checked
<1>5. QED BY <1>3, <1>4

LEMMA BodiesOfTheOriginMove ==
    ASSUME OriginInv, NEW c \in Callers,
           Begin(c) \/ LeaveQueue(c) \/ Client(c) \/ Service(c) \/ Unusable(c)
    PROVE  /\ \A d \in Callers :
                  reply'[d].status \in {"body", "unmodified"} => reply'[d].body.url \in Urls
           /\ OnlyCheckedBodiesOfTheOrigin'
<1> USE DEF site, locals, history
<1>0. TypeOK /\ call' = call BY CallsStay DEF OriginInv
<1>1. CASE UNCHANGED <<reply, result>>
  BY <1>0, <1>1 DEF OriginInv, OnlyCheckedBodiesOfTheOrigin, PastTheValidator
<1>2. CASE Begin(c) \/ EnterGate(c) \/ Miss(c) \/ Disown(c) \/ DeleteDisowned(c) \/ Revalidate(c)
  BY <1>1, <1>2 DEF Begin, EnterGate, Miss, Disown, DeleteDisowned, Revalidate
<1>3. CASE Fail(c) BY <1>0, <1>3, ReturnChecked DEF Fail, HasBody
<1>4. CASE LeaveQueue(c) \/ DeleteInvalid(c) \/ Refusal(c) \/ Unusable(c)
  BY <1>3, <1>4 DEF LeaveQueue, DeleteInvalid, Refusal, Unusable
<1>5. CASE Hit(c)
  <2>1. CASE Validates(c, Found(c).body)
    <3>1. KeyOf(c) \in Keys BY <1>0, KeyType DEF TypeOK, SiteOK
    <3>2. Found(c).body.url \in Urls
      BY <1>5, <3>1 DEF Hit, SameOrigin, Found, OriginInv, OfTheOrigin
    <3>3. PICK value : /\ Return(c, value)
                       /\ value.body = Found(c).body /\ value.freshness = "fresh"
      BY <1>5, <2>1 DEF Hit
    <3>4. Checked(call[c].kind, value)
      BY <2>1, <3>2, <3>3 DEF Validates, Checked, Parses
    <3>5. QED BY <1>0, <3>3, <3>4, ReturnChecked
  <2>2. CASE ~Validates(c, Found(c).body) BY <1>1, <1>5, <2>2 DEF Hit
  <2>3. QED BY <2>1, <2>2
<1>6. CASE Service(c)
  <2>1. Current(c).url \in Urls BY <1>0 DEF Current, Representation, TypeOK
  <2>2. SUFFICES ASSUME NEW m, AnswerWith(c, m),
                        m.status \in {"body", "unmodified"} => m.body.url \in Urls
                 PROVE  /\ \A d \in Callers :
                               reply'[d].status \in {"body", "unmodified"}
                               => reply'[d].body.url \in Urls
                        /\ OnlyCheckedBodiesOfTheOrigin'
    BY <1>6, <2>1 DEF Service, Redirects, Refuses, Serves
  <2>3. OnlyCheckedBodiesOfTheOrigin'
    BY <2>2 DEF AnswerWith, OriginInv, OnlyCheckedBodiesOfTheOrigin, PastTheValidator
  <2>4. QED BY <2>2, <2>3 DEF AnswerWith, OriginInv, TypeOK
<1>7. CASE Follow(c)
  <2>1. CASE ~Fail(c)
    <3>1. result' = result /\ reply' = [reply EXCEPT ![c] = NoReply] BY <1>7, <2>1 DEF Follow
    <3>2. OnlyCheckedBodiesOfTheOrigin'
      BY <1>0, <3>1 DEF OriginInv, OnlyCheckedBodiesOfTheOrigin, PastTheValidator
    <3>3. QED BY <3>1, <3>2 DEF OriginInv, TypeOK, NoReply
  <2>2. QED BY <1>3, <2>1
<1>8. CASE Unmodified(c)
  <2>1. CASE Fail(c) BY <1>3, <2>1
  <2>2. CASE Return(c, Revalidated(c, reply[c]))
    <3>1. held[c].body.url \in Urls BY <1>8 DEF Unmodified, OriginInv
    <3>2. QED BY <1>0, <2>2, <3>1, RevalidatedChecked, ReturnChecked
  <2>3. QED BY <1>8, <2>1, <2>2 DEF Unmodified
<1>9. CASE Body(c)
  <2>1. reply[c].body.url \in Urls /\ reply[c].body.form = "valid" BY <1>9 DEF Body, OriginInv
  <2>2. PICK value : Return(c, value) /\ value.body = reply[c].body BY <1>9 DEF Body
  <2>3. Checked(call[c].kind, value) BY <2>1, <2>2 DEF Checked, Parses
  <2>4. QED BY <1>0, <2>2, <2>3, ReturnChecked
<1>10. CASE Finish(c)
  <2>1. result' = [result EXCEPT ![c] = NoResult] /\ reply' = reply BY <1>10 DEF Finish
  <2>2. ~HasBody(NoResult) BY DEF HasBody
  <2>3. OnlyCheckedBodiesOfTheOrigin'
    BY <1>0, <2>1, <2>2 DEF OriginInv, OnlyCheckedBodiesOfTheOrigin, PastTheValidator, TypeOK
  <2>4. QED BY <2>1, <2>3 DEF OriginInv
<1>11. QED BY <1>2, <1>4, <1>5, <1>6, <1>7, <1>8, <1>9, <1>10 DEF Client

LEMMA StepOrigin == OriginInv /\ [Next]_vars => OriginInv'
<1> SUFFICES ASSUME OriginInv, [Next]_vars PROVE OriginInv' OBVIOUS
<1>1. TypeOK' BY StepType DEF OriginInv
<1>2. CASE \E c \in Callers : Begin(c) \/ LeaveQueue(c) \/ Client(c) \/ Service(c) \/ Unusable(c)
  BY <1>1, <1>2, RecordsOfTheOriginMove, BodiesOfTheOriginMove
  DEF OriginInv, OfTheOrigin
<1>3. CASE ~\E c \in Callers : Begin(c) \/ LeaveQueue(c) \/ Client(c) \/ Service(c) \/ Unusable(c)
  <2>1. store' = store /\ held' = held /\ UNCHANGED <<reply, result>> BY <1>3, RecordsStay
  <2>2. call' = call BY <1>3 DEF Next, Environment, Tick, Publish, Move, Done, vars
  <2>3. OnlyCheckedBodiesOfTheOrigin'
    BY <2>1, <2>2 DEF OriginInv, OnlyCheckedBodiesOfTheOrigin, PastTheValidator
  <2>4. QED BY <1>1, <2>1, <2>3 DEF OriginInv, OfTheOrigin
<1>4. QED BY <1>2, <1>3

(* Whatever a persistent cache held before, and wherever redirects lead,   *)
(* what a call returns is of the Service's own origin and parses, and it   *)
(* validates unless it is a supporting document from the cache, or a 304   *)
(* with a Vary the key does not cover confirmed it (the code's own order). *)
THEOREM OfTheOriginAndChecked == Spec => []OnlyCheckedBodiesOfTheOrigin
<1>1. OriginInv => OnlyCheckedBodiesOfTheOrigin BY DEF OriginInv
<1>2. QED BY <1>1, InitOrigin, StepOrigin, PTL DEF Spec

-----------------------------------------------------------------------------
(* The inspections of one client: they speak for one principal, of one URL,*)
(* and no other call asks for what they ask for.                           *)
InspectionsAlone ==
    \A mix \in Mixes : \A c, d \in Callers :
        mix[c].kind = "inspect" =>
            (Spoken(mix[d]) = Spoken(mix[c]) <=> mix[d].kind = "inspect")

Inspects(c) == call[c].kind = "inspect"
Working == {"lookup", "disown", "discard", "asked", "answered"}
Answered(c) == reply[c].status \in {"body", "unmodified"}

(* Whoever inspects is alone in the gate, until what it found is taken.    *)
GateHeld ==
    /\ \A c, d \in gate : c = d
    /\ \A c \in Callers :
           Inspects(c) /\ (pc[c] \in Working \/ HasBody(result[c])) => c \in gate
    /\ \A c \in Callers : Answered(c) => pc[c] = "answered"
(* No change of the site is seen before it happens.                        *)
NothingFromTheFuture ==
    /\ inspected <= revision
    /\ \A k \in Keys : store[k] # NoRecord => store[k].asOf <= revision
    /\ \A c \in Callers : Answered(c) => reply[c].asOf <= revision
    /\ \A c \in Callers : HasBody(result[c]) => result[c].asOf <= revision
(* An inspection finds nothing older than the last one returned, and       *)
(* leaves nothing older than it returns itself.                            *)
NothingOlder ==
    \A c \in Callers : Inspects(c) =>
        /\ Found(c) # NoRecord => Found(c).asOf >= inspected
        /\ Answered(c) => reply[c].asOf >= inspected
        /\ HasBody(result[c]) => /\ result[c].asOf >= inspected
                                 /\ Found(c) # NoRecord => Found(c).asOf >= result[c].asOf
GateInv == InspectionsAlone /\ TypeOK /\ GateHeld /\ NothingFromTheFuture /\ NothingOlder

LEMMA InitGate == Init /\ InspectionsAlone => GateInv
<1> SUFFICES ASSUME Init, InspectionsAlone PROVE GateInv OBVIOUS
<1>1. TypeOK BY InitType
<1>2. ASSUME NEW c \in Callers PROVE ~Answered(c) /\ ~HasBody(result[c]) /\ pc[c] = "idle"
  BY DEF Init, Answered, NoReply, HasBody
<1>3. GateHeld BY <1>2 DEF Init, GateHeld, Working
<1>4. ASSUME NEW k \in Keys, store[k] # NoRecord PROVE store[k].asOf = 0
  <2>1. store[k] = Outdated(k) \/ store[k] = Planted(k) BY <1>4 DEF Init
  <2>2. QED BY <2>1 DEF Outdated, Planted
<1>5. NothingFromTheFuture BY <1>2, <1>4 DEF Init, NothingFromTheFuture
<1>6. \A c \in Callers : KeyOf(c) \in Keys BY <1>1, KeyType DEF TypeOK, SiteOK
<1>7. NothingOlder BY <1>2, <1>4, <1>6 DEF Init, NothingOlder, Found
<1>8. QED BY <1>1, <1>3, <1>5, <1>7 DEF GateInv

(* What a call's step does to what the gate protects: nothing it could     *)
(* spoil, an answer as of now, what was found returned, or an answer taken.*)
Untouched == UNCHANGED <<call, revision, gate, inspected>>
Spares(c) ==
    /\ Untouched
    /\ store' = store \/ Keep(c, NoRecord)
    /\ \E w \in Places : Goto(c, w) /\ (Inspects(c) /\ w \in Working => pc[c] \in Working)
    /\ \E m : reply' = [reply EXCEPT ![c] = m] /\ m.status \notin {"body", "unmodified"}
    /\ \E v : result' = [result EXCEPT ![c] = v] /\ (HasBody(v) => v = result[c])
AnswersNow(c) ==
    /\ Untouched
    /\ pc[c] = "asked" /\ Goto(c, "answered")
    /\ UNCHANGED <<store, result>>
    /\ \E m : reply' = [reply EXCEPT ![c] = m] /\ m.asOf = revision
ReturnsFound(c) ==
    /\ Untouched
    /\ pc[c] = "lookup" /\ Found(c) # NoRecord
    /\ store' = store
    /\ \E v : Return(c, v) /\ v.asOf = Found(c).asOf
TakesAnswer(c) ==
    /\ Untouched
    /\ Answered(c)
    /\ \E r : Keep(c, r) /\ (r # NoRecord => r.asOf = reply[c].asOf)
    /\ \E v : Return(c, v) /\ (HasBody(v) => v.asOf = reply[c].asOf)

LEMMA FailSpares ==
    ASSUME GateInv, NEW c \in Callers, Fail(c), Untouched, store' = store \/ Keep(c, NoRecord)
    PROVE  Spares(c)
<1>1. Goto(c, "returned") /\ result' = [result EXCEPT ![c] = Failed] BY DEF Fail, Return
<1>2. reply' = [reply EXCEPT ![c] = NoReply] BY DEF Fail, Return
<1>3. "returned" \in Places /\ "returned" \notin Working BY DEF Places, Working
<1>4. ~HasBody(Failed) /\ NoReply.status \notin {"body", "unmodified"} BY DEF HasBody, NoReply
<1>5. QED BY <1>1, <1>2, <1>3, <1>4 DEF Spares

LEMMA QuietSpares ==
    ASSUME GateInv, NEW c \in Callers, NEW w \in Places, Goto(c, w), Untouched, pc[c] # "answered",
           Inspects(c) /\ w \in Working => pc[c] \in Working,
           UNCHANGED <<reply, result>>, store' = store \/ Keep(c, NoRecord)
    PROVE  Spares(c)
<1>1. reply[c].status \notin {"body", "unmodified"} BY DEF GateInv, GateHeld, Answered
<1>2. reply' = [reply EXCEPT ![c] = reply[c]] /\ result' = [result EXCEPT ![c] = result[c]]
  BY DEF GateInv, TypeOK
<1>3. QED BY <1>1, <1>2 DEF Spares

LEMMA CallMoves ==
    ASSUME GateInv, NEW c \in Callers,
           Begin(c) \/ LeaveQueue(c) \/ Client(c) \/ Service(c) \/ Unusable(c)
    PROVE  Spares(c) \/ AnswersNow(c) \/ ReturnsFound(c) \/ TakesAnswer(c)
           \/ EnterGate(c) \/ Finish(c)
<1> USE DEF site, locals, history
<1>1. TypeOK BY DEF GateInv
<1>2. CASE Begin(c)
  <2>1. Untouched /\ UNCHANGED <<reply, result, store>> /\ pc[c] = "idle"
    BY <1>2 DEF Begin, Untouched
  <2>2. CASE Inspects(c)
    <3>1. Goto(c, "gate") BY <1>2, <2>2 DEF Begin, Inspects
    <3>2. "gate" \in Places /\ "gate" \notin Working BY DEF Places, Working
    <3>3. QED BY <2>1, <3>1, <3>2, QuietSpares
  <2>3. CASE ~Inspects(c)
    <3>1. Goto(c, "lookup") BY <1>2, <2>3 DEF Begin, Inspects
    <3>2. QED BY <2>1, <2>3, <3>1, QuietSpares DEF Places
  <2>4. QED BY <2>2, <2>3
<1>3. CASE Miss(c) \/ Revalidate(c) \/ DeleteDisowned(c)
  <2>1. Untouched /\ UNCHANGED <<reply, result>> /\ Goto(c, "asked")
        /\ (store' = store \/ Keep(c, NoRecord))
    BY <1>3 DEF Miss, Revalidate, DeleteDisowned, Delete, Ask, Untouched
  <2>2. pc[c] \in Working /\ pc[c] # "answered"
    BY <1>3 DEF Miss, Revalidate, DeleteDisowned, Working
  <2>3. QED BY <2>1, <2>2, QuietSpares DEF Places
<1>4. CASE Disown(c) \/ (Hit(c) /\ ~Validates(c, Found(c).body))
  <2>1. PICK w \in {"disown", "discard"} : Goto(c, w) BY <1>4 DEF Disown, Hit
  <2>2. Untouched /\ UNCHANGED <<reply, result, store>> BY <1>4 DEF Disown, Hit, Untouched
  <2>3. pc[c] \in Working /\ pc[c] # "answered" BY <1>4 DEF Disown, Hit, Working
  <2>4. QED BY <2>1, <2>2, <2>3, QuietSpares DEF Places
<1>5. CASE LeaveQueue(c) \/ DeleteInvalid(c) \/ Refusal(c) \/ Unusable(c)
  <2>1. Fail(c) /\ Untouched /\ (store' = store \/ Keep(c, NoRecord))
    BY <1>5 DEF LeaveQueue, DeleteInvalid, Refusal, Unusable, Delete, Untouched
  <2>2. QED BY <2>1, FailSpares
<1>6. CASE Hit(c) /\ Validates(c, Found(c).body)
  BY <1>6 DEF Hit, ReturnsFound, Untouched
<1>7. CASE Redirects(c) \/ Refuses(c)
  <2>1. PICK m : AnswerWith(c, m) /\ m.status \in {"redirect", "refused"}
    <3>1. CASE Redirects(c)
      <4>1. PICK b : AnswerWith(c, [status |-> "redirect", to |-> target[at[c]],
                                    becomesGet |-> b])
        BY <3>1 DEF Redirects
      <4>2. [status |-> "redirect", to |-> target[at[c]], becomesGet |-> b].status = "redirect"
        OBVIOUS
      <4>3. QED BY <4>1, <4>2
    <3>2. CASE Refuses(c)
      <4>1. AnswerWith(c, [status |-> "refused"]) BY <3>2 DEF Refuses
      <4>2. [status |-> "refused"].status = "refused" OBVIOUS
      <4>3. QED BY <4>1, <4>2
    <3>3. QED BY <1>7, <3>1, <3>2
  <2>2. pc[c] = "asked" BY <1>7 DEF Redirects, Refuses
  <2>3. Goto(c, "answered") /\ Untouched /\ UNCHANGED <<store, result>>
        /\ reply' = [reply EXCEPT ![c] = m]
    BY <2>1 DEF AnswerWith, Untouched
  <2>4. "asked" \in Working /\ "answered" \in Places BY DEF Working, Places
  <2>5. result' = [result EXCEPT ![c] = result[c]] BY <1>1, <2>3 DEF TypeOK
  <2>6. QED BY <2>1, <2>2, <2>3, <2>4, <2>5 DEF Spares
<1>8. CASE Serves(c)
  <2>1. PICK m : AnswerWith(c, m) /\ m.asOf = revision BY <1>8 DEF Serves
  <2>2. QED BY <1>8, <2>1 DEF Serves, AnswerWith, AnswersNow, Untouched
<1>9. CASE Follow(c)
  <2>1. CASE Fail(c) BY <1>9, <2>1, FailSpares DEF Follow, Untouched
  <2>2. CASE ~Fail(c)
    <3>1. Goto(c, "asked") /\ Untouched /\ UNCHANGED <<store, result>>
          /\ reply' = [reply EXCEPT ![c] = NoReply]
      BY <1>9, <2>2 DEF Follow, Untouched
    <3>2. pc[c] \in Working /\ "asked" \in Places BY <1>9 DEF Follow, Working, Places
    <3>3. NoReply.status \notin {"body", "unmodified"} BY DEF NoReply
    <3>4. result' = [result EXCEPT ![c] = result[c]] BY <1>1, <3>1 DEF TypeOK
    <3>5. QED BY <3>1, <3>2, <3>3, <3>4 DEF Spares
  <2>3. QED BY <2>1, <2>2
<1>10. CASE Unmodified(c)
  <2>1. Answered(c) /\ Untouched BY <1>10 DEF Unmodified, Answered, Untouched
  <2>2. ~HasBody(Failed) BY DEF HasBody
  <2>3. HasBody(Revalidated(c, reply[c])) => Revalidated(c, reply[c]).asOf = reply[c].asOf
    BY <2>2 DEF Revalidated
  <2>4. Refreshed(c, reply[c]).asOf = reply[c].asOf
    <3>1. held[c] \in Records BY <1>1, <1>10 DEF Unmodified, TypeOK
    <3>2. QED BY <3>1 DEF Refreshed, Records
  <2>5. \E r : Keep(c, r) /\ (r # NoRecord => r.asOf = reply[c].asOf)
    BY <1>10, <2>4 DEF Unmodified, Delete
  <2>6. \E v : Return(c, v) /\ (HasBody(v) => v.asOf = reply[c].asOf)
    BY <1>10, <2>2, <2>3 DEF Unmodified, Fail
  <2>7. QED BY <2>1, <2>5, <2>6 DEF TakesAnswer
<1>11. CASE Body(c)
  <2>1. Answered(c) /\ Untouched BY <1>11 DEF Body, Answered, Untouched
  <2>2. Retrieved(c, reply[c]).asOf = reply[c].asOf BY DEF Retrieved
  <2>3. \E r : Keep(c, r) /\ (r # NoRecord => r.asOf = reply[c].asOf) BY <1>11, <2>2 DEF Body
  <2>4. \E v : Return(c, v) /\ (HasBody(v) => v.asOf = reply[c].asOf) BY <1>11 DEF Body
  <2>5. QED BY <2>1, <2>3, <2>4 DEF TakesAnswer
<1>12. QED BY <1>2, <1>3, <1>4, <1>5, <1>6, <1>7, <1>8, <1>9, <1>10, <1>11 DEF Client, Service

LEMMA GateStaysHeld ==
    ASSUME GateInv, NEW c \in Callers,
           Begin(c) \/ LeaveQueue(c) \/ Client(c) \/ Service(c) \/ Unusable(c)
    PROVE  GateHeld'
<1> USE DEF site, locals, history
<1>1. TypeOK /\ GateHeld BY DEF GateInv
<1>2. ~HasBody(NoResult) /\ ~HasBody(Failed) BY DEF HasBody
<1>3. CASE Spares(c)
  <2>1. PICK w \in Places : Goto(c, w) /\ (Inspects(c) /\ w \in Working => pc[c] \in Working)
    BY <1>3 DEF Spares
  <2>2. PICK m : reply' = [reply EXCEPT ![c] = m] /\ m.status \notin {"body", "unmodified"}
    BY <1>3 DEF Spares
  <2>3. PICK v : result' = [result EXCEPT ![c] = v] /\ (HasBody(v) => v = result[c])
    BY <1>3 DEF Spares
  <2>4. gate' = gate /\ call' = call BY <1>3 DEF Spares, Untouched
  <2>5. ASSUME NEW d \in Callers, Inspects(d)', (pc[d] \in Working \/ HasBody(result[d]))'
        PROVE  d \in gate'
    <3>1. Inspects(d) BY <2>4, <2>5 DEF Inspects
    <3>2. pc'[d] \in Working => pc[d] \in Working \/ (d = c /\ ~Inspects(c))
      BY <1>1, <2>1 DEF TypeOK, Goto
    <3>3. HasBody(result'[d]) => HasBody(result[d])
      BY <1>1, <2>3 DEF TypeOK
    <3>4. QED BY <1>1, <2>4, <2>5, <3>1, <3>2, <3>3 DEF GateHeld
  <2>6. ASSUME NEW d \in Callers, Answered(d)' PROVE pc'[d] = "answered"
    BY <1>1, <2>1, <2>2, <2>6 DEF TypeOK, GateHeld, Answered, Goto
  <2>7. QED BY <1>1, <2>4, <2>5, <2>6 DEF GateHeld
<1>4. CASE AnswersNow(c)
  <2>1. gate' = gate /\ call' = call /\ result' = result /\ pc' = [pc EXCEPT ![c] = "answered"]
    BY <1>4 DEF AnswersNow, Untouched, Goto
  <2>2. PICK m : reply' = [reply EXCEPT ![c] = m] BY <1>4 DEF AnswersNow
  <2>3. pc[c] \in Working BY <1>4 DEF AnswersNow, Working
  <2>4. ASSUME NEW d \in Callers, Inspects(d)', (pc[d] \in Working \/ HasBody(result[d]))'
        PROVE  d \in gate'
    BY <1>1, <2>1, <2>3, <2>4 DEF GateHeld, TypeOK, Inspects
  <2>5. ASSUME NEW d \in Callers, Answered(d)' PROVE pc'[d] = "answered"
    BY <1>1, <2>1, <2>2, <2>5 DEF TypeOK, GateHeld, Answered
  <2>6. QED BY <1>1, <2>1, <2>4, <2>5 DEF GateHeld
<1>5. CASE ReturnsFound(c) \/ TakesAnswer(c)
  <2>1. PICK v : Return(c, v) BY <1>5 DEF ReturnsFound, TakesAnswer
  <2>2. /\ gate' = gate /\ call' = call /\ pc' = [pc EXCEPT ![c] = "returned"]
        /\ result' = [result EXCEPT ![c] = v] /\ reply' = [reply EXCEPT ![c] = NoReply]
    BY <1>5, <2>1 DEF ReturnsFound, TakesAnswer, Untouched, Return, Goto
  <2>3. pc[c] \in Working
    BY <1>1, <1>5 DEF ReturnsFound, TakesAnswer, GateHeld, Working
  <2>4. ASSUME NEW d \in Callers, Inspects(d)', (pc[d] \in Working \/ HasBody(result[d]))'
        PROVE  d \in gate'
    BY <1>1, <2>2, <2>3, <2>4 DEF GateHeld, TypeOK, Inspects, Working
  <2>5. ASSUME NEW d \in Callers, Answered(d)' PROVE pc'[d] = "answered"
    BY <1>1, <2>2, <2>5 DEF TypeOK, GateHeld, Answered, NoReply
  <2>6. QED BY <1>1, <2>2, <2>4, <2>5 DEF GateHeld
<1>6. CASE EnterGate(c)
  <2>1. /\ gate = {} /\ gate' = {c} /\ call' = call /\ result' = result /\ reply' = reply
        /\ pc' = [pc EXCEPT ![c] = "lookup"] /\ pc[c] = "gate"
    BY <1>6 DEF EnterGate, GateFree, Goto
  <2>2. ASSUME NEW d \in Callers, Inspects(d)', (pc[d] \in Working \/ HasBody(result[d]))'
        PROVE  d \in gate'
    BY <1>1, <2>1, <2>2 DEF GateHeld, TypeOK, Inspects
  <2>3. ASSUME NEW d \in Callers, Answered(d)' PROVE pc'[d] = "answered"
    BY <1>1, <2>1, <2>3 DEF TypeOK, GateHeld, Answered
  <2>4. QED BY <2>1, <2>2, <2>3 DEF GateHeld
<1>7. CASE Finish(c)
  <2>1. /\ gate' = gate \ {c} /\ call' = call /\ reply' = reply /\ pc[c] = "returned"
        /\ result' = [result EXCEPT ![c] = NoResult] /\ pc' = [pc EXCEPT ![c] = "idle"]
    BY <1>7 DEF Finish, Goto
  <2>2. ASSUME NEW d \in Callers, Inspects(d)', (pc[d] \in Working \/ HasBody(result[d]))'
        PROVE  d \in gate'
    BY <1>1, <1>2, <2>1, <2>2 DEF GateHeld, TypeOK, Inspects, Working
  <2>3. ASSUME NEW d \in Callers, Answered(d)' PROVE pc'[d] = "answered"
    BY <1>1, <2>1, <2>3 DEF TypeOK, GateHeld, Answered
  <2>4. QED BY <1>1, <2>1, <2>2, <2>3 DEF GateHeld
<1>8. QED BY <1>3, <1>4, <1>5, <1>6, <1>7, CallMoves

(* What a step of the call does to the records and results, for the        *)
(* invariants on what they are as of.                                      *)
LEMMA RecordStaysOrNew ==
    ASSUME TypeOK, NEW c \in Callers, NEW r, Keep(c, r), NEW k \in Keys
    PROVE  store'[k] = IF k = KeyOf(c) THEN r ELSE store[k]
BY KeyType DEF TypeOK, SiteOK, Keep

LEMMA NothingFromTheFutureStays ==
    ASSUME GateInv, NEW c \in Callers,
           Begin(c) \/ LeaveQueue(c) \/ Client(c) \/ Service(c) \/ Unusable(c)
    PROVE  NothingFromTheFuture'
<1> USE DEF site, locals, history
<1>1. TypeOK /\ NothingFromTheFuture BY DEF GateInv
<1>2. KeyOf(c) \in Keys BY <1>1, KeyType DEF TypeOK, SiteOK
<1>3. SUFFICES ASSUME revision' = revision, inspected' <= revision,
                      NEW r, NEW m, NEW v,
                      store' = store \/ Keep(c, r), r # NoRecord => r.asOf <= revision,
                      reply' = [reply EXCEPT ![c] = m],
                      m.status \in {"body", "unmodified"} => m.asOf <= revision,
                      result' = [result EXCEPT ![c] = v], HasBody(v) => v.asOf <= revision
               PROVE  NothingFromTheFuture'
  <2>1. reply' = [reply EXCEPT ![c] = reply[c]] <=> reply' = reply BY <1>1 DEF TypeOK
  <2>2. result' = [result EXCEPT ![c] = result[c]] <=> result' = result BY <1>1 DEF TypeOK
  <2>3. inspected <= revision BY <1>1 DEF NothingFromTheFuture
  <2>4. reply[c].status \in {"body", "unmodified"} => reply[c].asOf <= revision
    BY <1>1 DEF NothingFromTheFuture, Answered
  <2>5. HasBody(result[c]) => result[c].asOf <= revision BY <1>1 DEF NothingFromTheFuture
  <2>6. Found(c) # NoRecord => Found(c).asOf <= revision
    BY <1>1, <1>2 DEF NothingFromTheFuture, Found
  <2>7. CASE Spares(c)
    <3>1. PICK m : reply' = [reply EXCEPT ![c] = m] /\ m.status \notin {"body", "unmodified"}
      BY <2>7 DEF Spares
    <3>2. PICK v : result' = [result EXCEPT ![c] = v] /\ (HasBody(v) => v = result[c])
      BY <2>7 DEF Spares
    <3>3. revision' = revision /\ inspected' = inspected /\ (store' = store \/ Keep(c, NoRecord))
      BY <2>7 DEF Spares, Untouched
    <3>4. QED BY <1>3, <2>3, <2>5, <3>1, <3>2, <3>3
  <2>8. CASE AnswersNow(c)
    <3>1. PICK m : reply' = [reply EXCEPT ![c] = m] /\ m.asOf = revision BY <2>8 DEF AnswersNow
    <3>2. revision' = revision /\ inspected' = inspected /\ store' = store /\ result' = result
      BY <2>8 DEF AnswersNow, Untouched
    <3>3. revision <= revision BY <1>1 DEF TypeOK
    <3>4. QED BY <1>3, <2>2, <2>3, <2>5, <3>1, <3>2, <3>3
  <2>9. CASE ReturnsFound(c)
    <3>1. PICK v : Return(c, v) /\ v.asOf = Found(c).asOf BY <2>9 DEF ReturnsFound
    <3>2. /\ result' = [result EXCEPT ![c] = v] /\ reply' = [reply EXCEPT ![c] = NoReply]
          /\ revision' = revision /\ inspected' = inspected /\ store' = store
      BY <2>9, <3>1 DEF Return, ReturnsFound, Untouched
    <3>3. v.asOf <= revision BY <2>6, <2>9, <3>1 DEF ReturnsFound
    <3>4. NoReply.status \notin {"body", "unmodified"} BY DEF NoReply
    <3>5. QED BY <1>3, <2>3, <3>2, <3>3, <3>4
  <2>10. CASE TakesAnswer(c)
    <3>1. PICK v : Return(c, v) /\ (HasBody(v) => v.asOf = reply[c].asOf)
      BY <2>10 DEF TakesAnswer
    <3>2. PICK r : Keep(c, r) /\ (r # NoRecord => r.asOf = reply[c].asOf)
      BY <2>10 DEF TakesAnswer
    <3>3. /\ result' = [result EXCEPT ![c] = v] /\ reply' = [reply EXCEPT ![c] = NoReply]
          /\ revision' = revision /\ inspected' = inspected
      BY <2>10, <3>1 DEF Return, TakesAnswer, Untouched
    <3>4. reply[c].asOf <= revision BY <2>4, <2>10 DEF TakesAnswer, Answered
    <3>5. NoReply.status \notin {"body", "unmodified"} BY DEF NoReply
    <3>6. QED BY <1>3, <2>3, <3>1, <3>2, <3>3, <3>4, <3>5
  <2>11. CASE EnterGate(c)
    <3>1. revision' = revision /\ inspected' = inspected /\ store' = store /\ result' = result
          /\ reply' = reply
      BY <2>11 DEF EnterGate
    <3>2. QED BY <1>3, <2>1, <2>2, <2>3, <2>4, <2>5, <3>1
  <2>12. CASE Finish(c)
    <3>1. revision' = revision /\ store' = store /\ reply' = reply
          /\ result' = [result EXCEPT ![c] = NoResult]
      BY <2>12 DEF Finish
    <3>2. inspected' <= revision BY <2>3, <2>5, <2>12 DEF Finish
    <3>3. ~HasBody(NoResult) BY DEF HasBody
    <3>4. QED BY <1>3, <2>1, <2>4, <3>1, <3>2, <3>3
  <2>13. QED BY <2>7, <2>8, <2>9, <2>10, <2>11, <2>12, CallMoves
<1>4. ASSUME NEW k \in Keys, store'[k] # NoRecord PROVE store'[k].asOf <= revision
  BY <1>1, <1>3, <1>4, RecordStaysOrNew DEF NothingFromTheFuture
<1>5. ASSUME NEW d \in Callers, Answered(d)' PROVE reply'[d].asOf <= revision
  BY <1>1, <1>3, <1>5 DEF NothingFromTheFuture, Answered, TypeOK
<1>6. ASSUME NEW d \in Callers, HasBody(result'[d]) PROVE result'[d].asOf <= revision
  BY <1>1, <1>3, <1>6 DEF NothingFromTheFuture, TypeOK
<1>7. QED BY <1>3, <1>4, <1>5, <1>6 DEF NothingFromTheFuture

(* Only the inspection inside the gate touches the record of inspections.  *)
LEMMA InspectionsShareTheirKey ==
    ASSUME GateInv, NEW c \in Callers, NEW d \in Callers, Inspects(c)
    PROVE  KeyOf(d) = KeyOf(c) <=> Inspects(d)
BY DEF GateInv, InspectionsAlone, TypeOK, Inspects, KeyOf, CacheKey

LEMMA OneInspects ==
    ASSUME GateInv, NEW c \in Callers, NEW d \in Callers, Inspects(c), Inspects(d),
           Answered(c) \/ pc[c] \in Working \/ HasBody(result[c]),
           Answered(d) \/ pc[d] \in Working \/ HasBody(result[d])
    PROVE  c = d
<1>1. GateHeld BY DEF GateInv
<1>2. c \in gate /\ d \in gate BY <1>1 DEF GateHeld, Working
<1>3. QED BY <1>1, <1>2 DEF GateHeld

LEMMA NothingOlderStays ==
    ASSUME GateInv, NEW c \in Callers,
           Begin(c) \/ LeaveQueue(c) \/ Client(c) \/ Service(c) \/ Unusable(c)
    PROVE  NothingOlder'
<1> USE DEF site, locals, history
<1>1. TypeOK /\ NothingFromTheFuture /\ NothingOlder /\ GateHeld BY DEF GateInv
<1>2. \A e \in Callers : KeyOf(e) \in Keys BY <1>1, KeyType DEF TypeOK, SiteOK
<1>3. inspected \in Int /\ revision \in Int /\ inspected <= revision
  BY <1>1 DEF TypeOK, NothingFromTheFuture
<1>4. call' = call
  BY CallMoves DEF Spares, AnswersNow, ReturnsFound, TakesAnswer, EnterGate, Finish, Untouched
<1>5. SUFFICES ASSUME NEW d \in Callers, Inspects(d)
               PROVE  /\ Found(d)' # NoRecord => Found(d)'.asOf >= inspected'
                      /\ Answered(d)' => reply'[d].asOf >= inspected'
                      /\ HasBody(result'[d]) =>
                             /\ result'[d].asOf >= inspected'
                             /\ Found(d)' # NoRecord => Found(d)'.asOf >= result'[d].asOf
  BY <1>4 DEF NothingOlder, Inspects
<1>6. KeyOf(d)' = KeyOf(d) BY <1>4 DEF KeyOf
<1>7. /\ Found(d) # NoRecord => Found(d).asOf >= inspected
      /\ Answered(d) => reply[d].asOf >= inspected
      /\ HasBody(result[d]) => /\ result[d].asOf >= inspected
                               /\ Found(d) # NoRecord => Found(d).asOf >= result[d].asOf
  BY <1>1, <1>5 DEF NothingOlder
<1>8. store' = store => Found(d)' = Found(d) BY <1>6 DEF Found
<1>9. ASSUME NEW r, Keep(c, r)
      PROVE  Found(d)' = IF Inspects(c) THEN r ELSE Found(d)
  <2>1. Found(d)' = store'[KeyOf(d)] BY <1>6 DEF Found
  <2>2. store'[KeyOf(d)] = IF KeyOf(d) = KeyOf(c) THEN r ELSE store[KeyOf(d)]
    BY <1>1, <1>2, <1>9, RecordStaysOrNew
  <2>3. KeyOf(c) = KeyOf(d) <=> Inspects(c) BY <1>5, InspectionsShareTheirKey
  <2>4. QED BY <2>1, <2>2, <2>3 DEF Found
<1>10. ~HasBody(NoResult) /\ ~HasBody(Failed) BY DEF HasBody
<1>11. CASE Spares(c)
  <2>1. PICK m : reply' = [reply EXCEPT ![c] = m] /\ m.status \notin {"body", "unmodified"}
    BY <1>11 DEF Spares
  <2>2. PICK v : result' = [result EXCEPT ![c] = v] /\ (HasBody(v) => v = result[c])
    BY <1>11 DEF Spares
  <2>3. inspected' = inspected /\ (store' = store \/ Keep(c, NoRecord))
    BY <1>11 DEF Spares, Untouched
  <2>4. Found(d)' # NoRecord => Found(d)' = Found(d) BY <1>8, <1>9, <2>3
  <2>5. Answered(d)' => Answered(d) /\ reply'[d] = reply[d]
    BY <1>1, <2>1 DEF TypeOK, Answered
  <2>6. HasBody(result'[d]) => result'[d] = result[d] BY <1>1, <2>2 DEF TypeOK
  <2>7. QED BY <1>7, <2>3, <2>4, <2>5, <2>6
<1>12. CASE AnswersNow(c)
  <2>1. PICK m : reply' = [reply EXCEPT ![c] = m] /\ m.asOf = revision BY <1>12 DEF AnswersNow
  <2>2. inspected' = inspected /\ store' = store /\ result' = result
    BY <1>12 DEF AnswersNow, Untouched
  <2>3. Answered(d)' => reply'[d].asOf >= inspected
    <3>1. CASE d = c BY <1>1, <1>3, <2>1, <3>1 DEF TypeOK
    <3>2. CASE d # c BY <1>1, <1>7, <2>1, <3>2 DEF TypeOK, Answered
    <3>3. QED BY <3>1, <3>2
  <2>4. QED BY <1>7, <1>8, <2>2, <2>3
<1>13. CASE ReturnsFound(c)
  <2>1. PICK v : Return(c, v) /\ v.asOf = Found(c).asOf BY <1>13 DEF ReturnsFound
  <2>2. /\ inspected' = inspected /\ store' = store
        /\ result' = [result EXCEPT ![c] = v] /\ reply' = [reply EXCEPT ![c] = NoReply]
    BY <1>13, <2>1 DEF Return, ReturnsFound, Untouched
  <2>3. Answered(d)' => Answered(d) /\ reply'[d] = reply[d]
    BY <1>1, <2>2 DEF TypeOK, Answered, NoReply
  <2>4. CASE d = c
    <3>1. result'[d].asOf = Found(d).asOf BY <1>1, <2>1, <2>2, <2>4 DEF TypeOK
    <3>2. Found(d) # NoRecord BY <1>13, <2>4 DEF ReturnsFound
    <3>3. Found(d).asOf \in Int BY <1>1, <1>2, <3>2 DEF Found, TypeOK, Records
    <3>4. QED BY <1>7, <1>8, <2>2, <2>3, <3>1, <3>2, <3>3
  <2>5. CASE d # c
    <3>1. result'[d] = result[d] BY <1>1, <2>2, <2>5 DEF TypeOK
    <3>2. QED BY <1>7, <1>8, <2>2, <2>3, <3>1
  <2>6. QED BY <2>4, <2>5
<1>14. CASE TakesAnswer(c)
  <2>1. PICK v : Return(c, v) /\ (HasBody(v) => v.asOf = reply[c].asOf)
    BY <1>14 DEF TakesAnswer
  <2>2. PICK r : Keep(c, r) /\ (r # NoRecord => r.asOf = reply[c].asOf)
    BY <1>14 DEF TakesAnswer
  <2>3. /\ inspected' = inspected
        /\ result' = [result EXCEPT ![c] = v] /\ reply' = [reply EXCEPT ![c] = NoReply]
    BY <1>14, <2>1 DEF Return, TakesAnswer, Untouched
  <2>4. Answered(d)' => Answered(d) /\ reply'[d] = reply[d]
    BY <1>1, <2>3 DEF TypeOK, Answered, NoReply
  <2>5. Answered(c) /\ reply[c].asOf \in Int
    BY <1>1, <1>14, AnswerType DEF TakesAnswer, Answered
  <2>6. CASE Inspects(c)
    <3>1. reply[c].asOf >= inspected BY <1>1, <2>5, <2>6 DEF NothingOlder
    <3>2. Found(d)' # NoRecord => Found(d)'.asOf = reply[c].asOf BY <1>9, <2>2, <2>6
    <3>3. HasBody(result'[d]) => result'[d].asOf = reply[c].asOf
      <4>1. CASE d = c BY <1>1, <2>1, <2>3, <4>1 DEF TypeOK
      <4>2. CASE d # c
        <5>1. result'[d] = result[d] BY <1>1, <2>3, <4>2 DEF TypeOK
        <5>2. ~HasBody(result[d]) BY <1>5, <2>5, <2>6, <4>2, OneInspects
        <5>3. QED BY <5>1, <5>2
      <4>3. QED BY <4>1, <4>2
    <3>4. QED BY <1>7, <2>3, <2>4, <2>5, <3>1, <3>2, <3>3
  <2>7. CASE ~Inspects(c)
    <3>1. Found(d)' = Found(d) BY <1>9, <2>2, <2>7
    <3>2. result'[d] = result[d] BY <1>1, <1>5, <2>3, <2>7 DEF TypeOK
    <3>3. QED BY <1>7, <2>3, <2>4, <3>1, <3>2
  <2>8. QED BY <2>6, <2>7
<1>15. CASE EnterGate(c)
  <2>1. inspected' = inspected /\ store' = store /\ result' = result /\ reply' = reply
    BY <1>15 DEF EnterGate
  <2>2. QED BY <1>7, <1>8, <2>1 DEF Answered
<1>16. CASE Finish(c)
  <2>1. /\ store' = store /\ reply' = reply
        /\ result' = [result EXCEPT ![c] = NoResult]
    BY <1>16 DEF Finish
  <2>2. HasBody(result'[d]) => d # c /\ result'[d] = result[d] BY <1>1, <1>10, <2>1 DEF TypeOK
  <2>3. CASE Inspects(c) /\ HasBody(result[c])
    <3>1. inspected' = result[c].asOf BY <1>16, <2>3 DEF Finish, Inspects
    <3>2. ~Answered(c) BY <1>1, <1>16 DEF Finish, GateHeld
    <3>3. ~Answered(d) BY <1>5, <2>3, <3>2, OneInspects
    <3>4. ~HasBody(result'[d]) BY <1>5, <2>2, <2>3, OneInspects
    <3>5. Found(d) = Found(c) BY <1>5, <2>3, InspectionsShareTheirKey DEF Found
    <3>6. Found(c) # NoRecord => Found(c).asOf >= result[c].asOf BY <1>1, <2>3 DEF NothingOlder
    <3>7. QED BY <1>8, <2>1, <3>1, <3>3, <3>4, <3>5, <3>6 DEF Answered
  <2>4. CASE ~(Inspects(c) /\ HasBody(result[c]))
    <3>1. inspected' = inspected BY <1>16, <2>4 DEF Finish, Inspects
    <3>2. QED BY <1>7, <1>8, <2>1, <2>2, <3>1 DEF Answered
  <2>5. QED BY <2>3, <2>4
<1>17. QED BY <1>11, <1>12, <1>13, <1>14, <1>15, <1>16, CallMoves

LEMMA StepGate == GateInv /\ [Next]_vars => GateInv'
<1> SUFFICES ASSUME GateInv, [Next]_vars PROVE GateInv' OBVIOUS
<1>1. TypeOK /\ TypeOK' BY StepType DEF GateInv
<1>2. InspectionsAlone' BY DEF GateInv, InspectionsAlone, Spoken
<1>3. CASE \E c \in Callers : Begin(c) \/ LeaveQueue(c) \/ Client(c) \/ Service(c) \/ Unusable(c)
  BY <1>1, <1>2, <1>3, GateStaysHeld, NothingFromTheFutureStays, NothingOlderStays DEF GateInv
<1>4. CASE ~\E c \in Callers : Begin(c) \/ LeaveQueue(c) \/ Client(c) \/ Service(c) \/ Unusable(c)
  <2>1. UNCHANGED <<call, store, gate, pc, reply, result, inspected>> /\ revision' >= revision
    BY <1>1, <1>4 DEF Next, Environment, Tick, Publish, Move, Done, vars, site, locals, history,
       TypeOK
  <2>2. GateHeld' BY <2>1 DEF GateInv, GateHeld, Inspects, Answered
  <2>3. NothingFromTheFuture'
    <3>1. revision \in Int /\ revision' \in Int /\ inspected \in Int BY <1>1 DEF TypeOK
    <3>2. \A k \in Keys : store[k] # NoRecord => store[k].asOf \in Int
      BY <1>1 DEF TypeOK, Records
    <3>3. \A c \in Callers : Answered(c) => reply[c].asOf \in Int
      BY <1>1, AnswerType DEF Answered
    <3>4. \A c \in Callers : HasBody(result[c]) => result[c].asOf \in Int
      BY <1>1 DEF TypeOK, HasBody, Results
    <3>5. QED BY <2>1, <3>1, <3>2, <3>3, <3>4 DEF GateInv, NothingFromTheFuture, Answered
  <2>4. NothingOlder'
    BY <2>1 DEF GateInv, NothingOlder, Inspects, Answered, Found, KeyOf
  <2>5. QED BY <1>1, <1>2, <2>2, <2>3, <2>4 DEF GateInv
<1>5. QED BY <1>3, <1>4

(* The last inspection never goes back, because only its own kind keeps    *)
(* records under its key and the gate lets one in at a time.               *)
LEMMA FinishGoesForward == GateInv /\ [Next]_vars => [inspected' >= inspected]_vars
<1> SUFFICES ASSUME GateInv, [Next]_vars PROVE inspected' >= inspected OBVIOUS
<1> USE DEF site, locals, history
<1>1. TypeOK /\ NothingOlder BY DEF GateInv
<1>2. inspected \in Int BY <1>1 DEF TypeOK
<1>3. ASSUME NEW c \in Callers, Finish(c) PROVE inspected' >= inspected
  BY <1>1, <1>2, <1>3 DEF Finish, NothingOlder, Inspects
<1>4. ASSUME NEW c \in Callers,
             Begin(c) \/ LeaveQueue(c) \/ Client(c) \/ Service(c) \/ Unusable(c), ~Finish(c)
      PROVE  inspected' = inspected
  BY <1>4, CallMoves DEF Spares, AnswersNow, ReturnsFound, TakesAnswer, EnterGate, Untouched
<1>5. CASE ~\E c \in Callers : Begin(c) \/ LeaveQueue(c) \/ Client(c) \/ Service(c) \/ Unusable(c)
  BY <1>2, <1>5 DEF Next, Environment, Tick, Publish, Move, Done, vars
<1>6. QED BY <1>2, <1>3, <1>4, <1>5 DEF Client

(* When the inspections of a client share a key no other call uses, an     *)
(* inspection never returns an older Service Document than the one before: *)
(* the gate keeps a slow answer from replacing, or following, a newer one. *)
THEOREM InspectionsInOrder == Spec /\ InspectionsAlone => InspectionsNeverGoBack
BY InitGate, StepGate, FinishGoesForward, PTL DEF Spec, InspectionsNeverGoBack
=============================================================================
