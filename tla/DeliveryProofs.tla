--------------------------- MODULE DeliveryProofs ---------------------------
(***************************************************************************)
(* The delivery path for every set of messages, every number of request    *)
(* handlers and retry workers, every combination of faults, every retry    *)
(* limit and every bound on the windows.  DeliveryInv strengthens the      *)
(* run's invariants by what a delivery under way still owes: the row of a  *)
(* window, the row of an answered POST, the POSTs left in its call.        *)
(***************************************************************************)
EXTENDS Delivery, TLAPS

(* A call's POSTs are counted from zero and stay below the limit while it  *)
(* may post again.                                                         *)
PostsInCall ==
    \A w \in Workers : /\ pc[w] \in {"idle", "next", "acquire"} => posts[w] = 0
                       /\ pc[w] = "post" => posts[w] < MaxPosts

(* A sent row, there or about to be inserted, has an answer of its own.    *)
SentAccounted ==
    /\ \A m \in Messages : rows[m][SENT] <= answered[m]
    /\ \A w \in Workers : pc[w] = "record" /\ result[w] = SENT
         => rows[cur[w]][SENT] + 1 <= answered[cur[w]]

(* A window under way has used `posts` of its MaxPosts receipts.           *)
ReceiptsAccounted ==
    /\ \A m \in Messages : received[m] <= MaxPosts * windows[m]
    /\ \A w \in Workers : InFlight(w)
         => received[cur[w]] + MaxPosts <= MaxPosts * windows[cur[w]] + posts[w]

DeliveryInv == /\ TypeOK
               /\ OneDelivererPerMessage
               /\ PostsInCall
               /\ EveryWindowRecordedOnce
               /\ SentAccounted
               /\ ReceiptsAccounted

-----------------------------------------------------------------------------
LEMMA OneMoreWindow ==
    ASSUME NEW n \in Nat PROVE MaxPosts * (n + 1) = MaxPosts * n + MaxPosts
  BY DeliveryAssumption

LEMMA InitDeliveryInv == Init => DeliveryInv
<1> USE DeliveryAssumption
<1> SUFFICES ASSUME Init PROVE DeliveryInv
  OBVIOUS
<1> USE DEF Init, Statuses, SENT, FAILED, RATE_LIMITED, REJECTED, InFlight
<1>1. TypeOK
  BY DEF TypeOK
<1>2. OneDelivererPerMessage /\ PostsInCall
  BY DEF OneDelivererPerMessage, PostsInCall
<1>3. EveryWindowRecordedOnce
  <2>1. \A m \in Messages : ~Delivering(m)
    BY DEF Delivering
  <2>2. \A m \in Messages : windows[m] = 0 /\ lost[m] = 0 /\ rows[m] = [s \in Statuses |-> 0]
    OBVIOUS
  <2> HIDE DEF Init
  <2>3. ASSUME NEW m \in Messages PROVE RowsOf(m) = 0
    <3>1. rows[m][SENT] = 0 /\ rows[m][FAILED] = 0 /\ rows[m][RATE_LIMITED] = 0 /\ rows[m][REJECTED] = 0
      BY <2>2
    <3> QED
      BY <3>1 DEF RowsOf
  <2>4. \A m \in Messages : windows[m] = 0 /\ lost[m] = 0 /\ RowsOf(m) = 0 /\ ~Delivering(m)
    BY <2>1, <2>2, <2>3
  <2> SUFFICES ASSUME NEW m \in Messages
               PROVE  windows[m] = RowsOf(m) + lost[m] + (IF Delivering(m) THEN 1 ELSE 0)
    BY DEF EveryWindowRecordedOnce
  <2> QED
    BY <2>4
<1>4. SentAccounted /\ ReceiptsAccounted
  BY DEF SentAccounted, ReceiptsAccounted
<1> QED
  BY <1>1, <1>2, <1>3, <1>4 DEF DeliveryInv

(* The steps of a batch outside any delivery.                              *)
LEMMA BatchSteps ==
    ASSUME DeliveryInv, NEW w \in Workers,
           \/ Request(w) \/ Scan(w) \/ Finish(w) \/ ClaimRaises(w)
           \/ \E m \in Messages : Skip(w, m)
    PROVE  DeliveryInv'
<1> USE DeliveryAssumption
    DEF DeliveryInv, Request, Scan, StartBatch, Finish, Skip, ClaimRaises, Abandon,
        InFlight
<1>1. /\ pc[w] \in {"idle", "next"} /\ pc'[w] \in {"idle", "next"}
      /\ pc' = [pc EXCEPT ![w] = pc'[w]]
      /\ todo' = [todo EXCEPT ![w] = todo'[w]] /\ todo'[w] \subseteq Messages
      /\ \A v \in Workers \ {w} : cur'[v] = cur[v] /\ posts'[v] = posts[v] /\ result'[v] = result[v]
      /\ posts'[w] = 0
      /\ cur' \in [Workers -> Messages \union {NoMessage}]
      /\ posts' \in [Workers -> 0..MaxPosts]
      /\ result' \in [Workers -> Statuses]
      /\ UNCHANGED <<claimed, rows, received, answered, windows, lost>>
  <2>0. TypeOK /\ PostsInCall
    OBVIOUS
  <2>1. CASE Request(w)
    BY <2>1, <2>0 DEF TypeOK, PostsInCall, Statuses
  <2>2. CASE Scan(w)
    BY <2>2, <2>0 DEF TypeOK, PostsInCall, Statuses
  <2>3. CASE Finish(w)
    BY <2>3, <2>0 DEF TypeOK, PostsInCall, Statuses
  <2>4. CASE ClaimRaises(w)
    BY <2>4, <2>0 DEF TypeOK, PostsInCall, Statuses
  <2>5. CASE \E m \in Messages : Skip(w, m)
    BY <2>5, <2>0 DEF TypeOK, PostsInCall, Statuses
  <2> HIDE DEF DeliveryInv, Request, Scan, StartBatch, Finish, Skip, ClaimRaises, Abandon
  <2> QED
    BY <2>1, <2>2, <2>3, <2>4, <2>5
<1> HIDE DEF Request, Scan, StartBatch, Finish, Skip, ClaimRaises, Abandon
<1>2. TypeOK'
  BY <1>1 DEF TypeOK
<1>3. OneDelivererPerMessage' /\ PostsInCall'
  <2>1. \A v \in Workers : InFlight(v)' => InFlight(v) /\ cur'[v] = cur[v]
    BY <1>1 DEF TypeOK
  <2>2. OneDelivererPerMessage'
    BY <1>1, <2>1 DEF OneDelivererPerMessage
  <2>3. PostsInCall'
    BY <1>1 DEF PostsInCall, TypeOK
  <2> QED
    BY <2>2, <2>3
<1>4. EveryWindowRecordedOnce'
  <2>1. \A n \in Messages : Delivering(n)' <=> Delivering(n)
    BY <1>1 DEF Delivering, TypeOK
  <2> QED
    BY <1>1, <2>1 DEF EveryWindowRecordedOnce, RowsOf
<1>5. SentAccounted' /\ ReceiptsAccounted'
  BY <1>1 DEF SentAccounted, ReceiptsAccounted, TypeOK
<1> QED
  BY <1>2, <1>3, <1>4, <1>5

(* What the steps of a delivery under way have in common: the worker keeps *)
(* its message, so keys, windows and rows stay accounted for.              *)
LEMMA InFlightFrame ==
    ASSUME DeliveryInv, NEW w \in Workers,
           InFlight(w), pc' = [pc EXCEPT ![w] = pc'[w]], InFlight(w)',
           UNCHANGED <<claimed, rows, todo, cur, windows, lost>>
    PROVE  OneDelivererPerMessage' /\ EveryWindowRecordedOnce'
<1>1. \A v \in Workers : InFlight(v)' <=> InFlight(v)
  BY DEF DeliveryInv, TypeOK, InFlight
<1>2. \A n \in Messages : Delivering(n)' <=> Delivering(n)
  BY <1>1 DEF Delivering
<1>3. OneDelivererPerMessage'
  BY <1>1 DEF DeliveryInv, OneDelivererPerMessage
<1>4. EveryWindowRecordedOnce'
  BY <1>2 DEF DeliveryInv, EveryWindowRecordedOnce, RowsOf
<1> QED
  BY <1>3, <1>4

(* The steps between claim and record: the limiter, the breaker, the POSTs. *)
LEMMA AttemptSteps ==
    ASSUME DeliveryInv, NEW w \in Workers,
           \/ Acquire(w) \/ AcquireDenied(w) \/ CircuitRefuses(w)
           \/ PostAnswered(w) \/ PostUnreadable(w) \/ PostRefused(w) \/ PostFails(w)
    PROVE  DeliveryInv'
<1> USE DeliveryAssumption DEF InFlight
<1> DEFINE m == cur[w]
<1>1. /\ InFlight(w) /\ m \in Messages
      /\ rows[m] \in [Statuses -> Nat] /\ received[m] \in Nat /\ windows[m] \in Nat
      /\ answered[m] \in Nat
      /\ posts[w] \in 0..MaxPosts
      /\ \A v \in Workers \ {w} : InFlight(v) => cur[v] # m
  BY DEF DeliveryInv, TypeOK, OneDelivererPerMessage, Acquire, AcquireDenied, CircuitRefuses,
         PostAnswered, PostUnreadable, PostRefused, PostFails, Posting
<1>2. /\ pc' = [pc EXCEPT ![w] = pc'[w]] /\ pc'[w] \in {"post", "record"}
      /\ result' = [result EXCEPT ![w] = result'[w]] /\ result'[w] \in Statuses
      /\ posts' = [posts EXCEPT ![w] = posts'[w]] /\ posts'[w] \in 0..MaxPosts
      /\ posts[w] <= posts'[w]
      /\ received' = [received EXCEPT ![m] = received'[m]]
      /\ received'[m] \in received[m]..(received[m] + posts'[w] - posts[w])
      /\ pc'[w] = "post" => posts'[w] < MaxPosts
      /\ answered' = [answered EXCEPT ![m] = answered'[m]]
      /\ answered'[m] \in {answered[m], answered[m] + 1}
      /\ pc'[w] = "record" /\ result'[w] = SENT => answered'[m] = answered[m] + 1
      /\ UNCHANGED <<claimed, rows, todo, cur, windows, lost>>
  <2> USE <1>1 DEF DeliveryInv, TypeOK, Statuses, Outcome, SENT, FAILED, RATE_LIMITED, REJECTED
  <2>1. CASE Acquire(w)
    BY <2>1 DEF Acquire, PostsInCall
  <2>2. CASE AcquireDenied(w)
    BY <2>2 DEF AcquireDenied
  <2>3. CASE CircuitRefuses(w)
    BY <2>3 DEF CircuitRefuses
  <2>4. CASE PostAnswered(w) \/ PostUnreadable(w)
    BY <2>4 DEF PostAnswered, PostUnreadable, Posting, MayReceive, PostsInCall
  <2>5. CASE PostRefused(w)
    BY <2>5 DEF PostRefused, Posting, PostsInCall
  <2>6. CASE PostFails(w)
    BY <2>6 DEF PostFails, Posting, MayReceive, PostsInCall
  <2> QED
    BY <2>1, <2>2, <2>3, <2>4, <2>5, <2>6
<1>3. TypeOK'
  <2>0. received \in [Messages -> Nat] /\ answered \in [Messages -> Nat]
    BY DEF DeliveryInv, TypeOK
  <2>1. received' \in [Messages -> Nat] /\ answered' \in [Messages -> Nat]
    <3>1. received'[m] \in Nat /\ answered'[m] \in Nat
      BY <1>1, <1>2
    <3>2. received' \in [Messages -> Nat]
      BY <1>2, <2>0, <3>1
    <3>3. answered' \in [Messages -> Nat]
      BY <1>2, <2>0, <3>1
    <3> QED
      BY <3>2, <3>3
  <2>2. pc' \in [Workers -> {"idle", "next", "acquire", "post", "record"}]
    BY <1>2 DEF DeliveryInv, TypeOK
  <2>3. posts' \in [Workers -> 0..MaxPosts]
    BY <1>2 DEF DeliveryInv, TypeOK
  <2>4. result' \in [Workers -> Statuses]
    BY <1>2 DEF DeliveryInv, TypeOK
  <2>5. \A v \in Workers : InFlight(v)' => cur'[v] \in Messages
    BY <1>1, <1>2 DEF DeliveryInv, TypeOK
  <2> QED
    BY <1>2, <2>1, <2>2, <2>3, <2>4, <2>5 DEF DeliveryInv, TypeOK
<1>4. OneDelivererPerMessage' /\ EveryWindowRecordedOnce'
  BY <1>1, <1>2, InFlightFrame
<1>5. PostsInCall'
  BY <1>2 DEF DeliveryInv, TypeOK, PostsInCall
<1>6. SentAccounted'
  <2>1. \A n \in Messages : rows'[n] = rows[n] /\ answered[n] <= answered'[n]
                           /\ answered[n] \in Nat /\ answered'[n] \in Nat
                           /\ rows[n][SENT] \in Nat
    BY <1>1, <1>2 DEF DeliveryInv, TypeOK, Statuses
  <2>2. \A n \in Messages : rows'[n][SENT] <= answered'[n]
    BY <2>1 DEF DeliveryInv, SentAccounted
  <2>3. ASSUME NEW v \in Workers, pc'[v] = "record", result'[v] = SENT
        PROVE  rows'[cur'[v]][SENT] + 1 <= answered'[cur'[v]]
    <3>1. CASE v = w
      BY <3>1, <2>3, <2>1, <1>1, <1>2 DEF DeliveryInv, SentAccounted
    <3>2. CASE v # w
      <4>1. pc[v] = "record" /\ result[v] = SENT /\ cur[v] \in Messages
        BY <3>2, <2>3, <1>2 DEF DeliveryInv, TypeOK
      <4>2. rows[cur[v]][SENT] + 1 <= answered[cur[v]]
        BY <4>1 DEF DeliveryInv, SentAccounted
      <4> QED
        BY <4>1, <4>2, <2>1, <1>2
    <3> QED
      BY <3>1, <3>2
  <2> QED
    BY <2>2, <2>3 DEF SentAccounted
<1>7. ReceiptsAccounted'
  <2>1. received[m] + MaxPosts <= MaxPosts * windows[m] + posts[w]
    BY <1>1 DEF DeliveryInv, ReceiptsAccounted
  <2>2. MaxPosts * windows[m] \in Nat
    BY <1>1
  <2>3. received'[m] + MaxPosts <= MaxPosts * windows[m] + posts'[w]
    BY <1>1, <1>2, <2>1, <2>2
  <2>4. received'[m] <= MaxPosts * windows[m]
    BY <1>1, <1>2, <2>2, <2>3
  <2>5. \A n \in Messages \ {m} : received'[n] = received[n]
    BY <1>1, <1>2 DEF DeliveryInv, TypeOK
  <2>6. \A v \in Workers \ {w} : InFlight(v)' => /\ InFlight(v) /\ cur[v] \in Messages \ {m}
                                              /\ posts'[v] = posts[v]
    BY <1>1, <1>2 DEF DeliveryInv, TypeOK
  <2>7. \A n \in Messages : received'[n] <= MaxPosts * windows'[n]
    BY <1>2, <2>4, <2>5 DEF DeliveryInv, ReceiptsAccounted
  <2>8. ASSUME NEW v \in Workers, InFlight(v)'
        PROVE  received'[cur'[v]] + MaxPosts <= MaxPosts * windows'[cur'[v]] + posts'[v]
    <3>1. CASE v = w
      BY <3>1, <1>2, <2>3
    <3>2. CASE v # w
      BY <3>2, <2>5, <2>6, <2>8, <1>2 DEF DeliveryInv, ReceiptsAccounted
    <3> QED
      BY <3>1, <3>2
  <2> QED
    BY <2>7, <2>8 DEF ReceiptsAccounted
<1> QED
  BY <1>3, <1>4, <1>5, <1>6, <1>7 DEF DeliveryInv

(* SET NX opens a window for a message nobody delivers.                    *)
LEMMA ClaimStep ==
    ASSUME DeliveryInv, NEW w \in Workers, NEW m \in Messages, Claim(w, m)
    PROVE  DeliveryInv'
<1> USE DeliveryAssumption DEF InFlight
<1>1. /\ pc[w] = "next" /\ ~InFlight(w)
      /\ \A v \in Workers : InFlight(v) => cur[v] \in Messages \ {m}
      /\ windows[m] \in 0..(MaxWindows - 1) /\ received[m] \in Nat
  BY DEF Claim, DeliveryInv, TypeOK, OneDelivererPerMessage
<1>2. /\ pc' = [pc EXCEPT ![w] = "acquire"]
      /\ cur' = [cur EXCEPT ![w] = m]
      /\ todo' = [todo EXCEPT ![w] = @ \ {m}]
      /\ claimed' = claimed \union {m}
      /\ windows' = [windows EXCEPT ![m] = @ + 1]
      /\ UNCHANGED <<rows, posts, result, received, answered, lost>>
  BY DEF Claim
<1>3. TypeOK'
  BY <1>1, <1>2 DEF DeliveryInv, TypeOK
<1>4. \A v \in Workers \ {w} : cur'[v] = cur[v] /\ (InFlight(v)' <=> InFlight(v))
  BY <1>2 DEF DeliveryInv, TypeOK
<1>5. InFlight(w)' /\ cur'[w] = m
  BY <1>2 DEF DeliveryInv, TypeOK
<1>6. OneDelivererPerMessage'
  BY <1>1, <1>2, <1>4, <1>5 DEF DeliveryInv, OneDelivererPerMessage
<1>7. PostsInCall'
  BY <1>1, <1>2 DEF DeliveryInv, TypeOK, PostsInCall
<1>8. EveryWindowRecordedOnce'
  <2>1. ~Delivering(m) /\ Delivering(m)'
    BY <1>1, <1>5 DEF Delivering
  <2>2. \A n \in Messages \ {m} : Delivering(n)' <=> Delivering(n)
    BY <1>1, <1>4, <1>5 DEF Delivering
  <2>3. \A n \in Messages : RowsOf(n)' = RowsOf(n) /\ lost'[n] = lost[n]
    BY <1>2 DEF RowsOf
  <2>4. RowsOf(m) \in Nat /\ lost[m] \in Nat
    BY DEF DeliveryInv, TypeOK, RowsOf, Statuses
  <2>5. \A n \in Messages \ {m} : windows'[n] = windows[n]
    BY <1>2 DEF DeliveryInv, TypeOK
  <2>6. windows'[m] = windows[m] + 1
    BY <1>2 DEF DeliveryInv, TypeOK
  <2>7. windows[m] = RowsOf(m) + lost[m]
    BY <2>1, <2>4 DEF DeliveryInv, EveryWindowRecordedOnce
  <2>8. windows'[m] = RowsOf(m)' + lost'[m] + 1
    BY <2>3, <2>4, <2>6, <2>7
  <2>9. \A n \in Messages \ {m} :
          windows'[n] = RowsOf(n)' + lost'[n] + (IF Delivering(n)' THEN 1 ELSE 0)
    BY <2>2, <2>3, <2>5 DEF DeliveryInv, EveryWindowRecordedOnce
  <2> QED
    BY <2>1, <2>8, <2>9 DEF EveryWindowRecordedOnce
<1>9. SentAccounted'
  BY <1>1, <1>2, <1>4 DEF DeliveryInv, TypeOK, SentAccounted
<1>10. ReceiptsAccounted'
  <2>1. received[m] <= MaxPosts * windows[m] /\ posts[w] = 0
    BY <1>1 DEF DeliveryInv, ReceiptsAccounted, PostsInCall
  <2>2. MaxPosts * windows'[m] = MaxPosts * windows[m] + MaxPosts /\ MaxPosts * windows[m] \in Nat
    <3>1. windows'[m] = windows[m] + 1 /\ windows[m] \in Nat
      BY <1>1, <1>2 DEF DeliveryInv, TypeOK
    <3> QED
      BY <3>1, OneMoreWindow, DeliveryAssumption
  <2>3. \A n \in Messages \ {m} : windows'[n] = windows[n]
    BY <1>2 DEF DeliveryInv, TypeOK
  <2>4. \A n \in Messages : received'[n] <= MaxPosts * windows'[n]
    BY <1>1, <1>2, <2>1, <2>2, <2>3 DEF DeliveryInv, ReceiptsAccounted
  <2>5. \A v \in Workers \ {w} : InFlight(v)'
          => received'[cur'[v]] + MaxPosts <= MaxPosts * windows'[cur'[v]] + posts'[v]
    BY <1>1, <1>2, <1>4, <2>3 DEF DeliveryInv, ReceiptsAccounted
  <2>6. received'[m] + MaxPosts <= MaxPosts * windows'[m] + posts'[w]
    BY <1>1, <1>2, <2>1, <2>2
  <2> QED
    BY <2>4, <2>5, <2>6, <1>5 DEF ReceiptsAccounted
<1> QED
  BY <1>3, <1>6, <1>7, <1>8, <1>9, <1>10 DEF DeliveryInv

(* A worker that stops delivering m accounts for the window by a row or by *)
(* a loss, and nobody else delivers m.                                     *)
LEMMA StopDelivering ==
    ASSUME DeliveryInv, NEW w \in Workers, NEW m \in Messages, cur[w] = m,
           InFlight(w), ~InFlight(w)',
           pc' = [pc EXCEPT ![w] = pc'[w]],
           cur' = [cur EXCEPT ![w] = NoMessage],
           UNCHANGED <<claimed, windows>>,
           RowsOf(m)' + lost'[m] = RowsOf(m) + lost[m] + 1,
           \A n \in Messages \ {m} : RowsOf(n)' + lost'[n] = RowsOf(n) + lost[n],
           \A n \in Messages : RowsOf(n)' \in Nat /\ lost'[n] \in Nat
    PROVE  OneDelivererPerMessage' /\ EveryWindowRecordedOnce'
<1>1. \A v \in Workers \ {w} : (InFlight(v)' <=> InFlight(v)) /\ cur'[v] = cur[v]
  BY DEF DeliveryInv, TypeOK, InFlight
<1>2. Delivering(m) /\ ~Delivering(m)'
  <2>1. \A v \in Workers \ {w} : InFlight(v) => cur[v] # m
    BY DEF DeliveryInv, OneDelivererPerMessage
  <2>2. \A v \in Workers : ~(InFlight(v)' /\ cur'[v] = m)
    BY <1>1, <2>1
  <2> QED
    BY <2>2 DEF Delivering
<1>3. \A n \in Messages \ {m} : Delivering(n)' <=> Delivering(n)
  BY <1>1 DEF Delivering
<1>4. OneDelivererPerMessage'
  BY <1>1 DEF DeliveryInv, OneDelivererPerMessage
<1>5. \A n \in Messages : RowsOf(n) \in Nat /\ lost[n] \in Nat
  BY DEF DeliveryInv, TypeOK, RowsOf, Statuses
<1>6. windows'[m] = RowsOf(m)' + lost'[m] + (IF Delivering(m)' THEN 1 ELSE 0)
  <2>1. windows[m] = RowsOf(m) + lost[m] + 1
    BY <1>2 DEF DeliveryInv, EveryWindowRecordedOnce
  <2>2. windows'[m] = RowsOf(m)' + lost'[m]
    BY <2>1
  <2> QED
    BY <1>2, <2>2
<1>7. \A n \in Messages \ {m} :
        windows'[n] = RowsOf(n)' + lost'[n] + (IF Delivering(n)' THEN 1 ELSE 0)
  BY <1>3, <1>5 DEF DeliveryInv, EveryWindowRecordedOnce
<1> QED
  BY <1>4, <1>6, <1>7 DEF EveryWindowRecordedOnce

(* The insert of a row ends a delivery.                                    *)
LEMMA RecordStep ==
    ASSUME DeliveryInv, NEW w \in Workers, NEW m \in Messages, cur[w] = m, Record(w)
    PROVE  DeliveryInv'
<1> USE DeliveryAssumption DEF InFlight
<1> PICK s \in Statuses : s = result[w]
  BY DEF DeliveryInv, TypeOK
<1>1. /\ pc[w] = "record" /\ InFlight(w)
      /\ rows \in [Messages -> [Statuses -> Nat]]
      /\ received \in [Messages -> Nat] /\ windows \in [Messages -> Nat]
      /\ answered \in [Messages -> Nat]
      /\ lost \in [Messages -> Nat]
      /\ \A v \in Workers \ {w} : InFlight(v) => cur[v] \in Messages \ {m}
  BY DEF Record, DeliveryInv, TypeOK, OneDelivererPerMessage
<1>2. /\ pc' = [pc EXCEPT ![w] = "next"] /\ cur' = [cur EXCEPT ![w] = NoMessage]
      /\ posts' = [posts EXCEPT ![w] = 0] /\ result' = [result EXCEPT ![w] = SENT]
      /\ rows' = [rows EXCEPT ![m][s] = @ + 1]
      /\ UNCHANGED <<claimed, todo, received, answered, windows, lost>>
  BY DEF Record, NextMessage
<1>3. /\ \A n \in Messages \ {m} : rows'[n] = rows[n]
      /\ rows'[m][s] = rows[m][s] + 1
      /\ \A t \in Statuses \ {s} : rows'[m][t] = rows[m][t]
      /\ rows' \in [Messages -> [Statuses -> Nat]]
  BY <1>1, <1>2
<1>4. TypeOK'
  <2>1. pc' \in [Workers -> {"idle", "next", "acquire", "post", "record"}]
    BY <1>2 DEF DeliveryInv, TypeOK
  <2>2. cur' \in [Workers -> Messages \union {NoMessage}] /\ posts' \in [Workers -> 0..MaxPosts]
    BY <1>2 DEF DeliveryInv, TypeOK
  <2>3. result' \in [Workers -> Statuses]
    BY <1>2 DEF DeliveryInv, TypeOK, Statuses
  <2>4. \A v \in Workers : InFlight(v)' => cur'[v] \in Messages
    BY <1>2 DEF DeliveryInv, TypeOK
  <2> QED
    BY <1>2, <1>3, <2>1, <2>2, <2>3, <2>4 DEF DeliveryInv, TypeOK
<1>5. \A v \in Workers : InFlight(v)' => v # w /\ InFlight(v) /\ cur'[v] = cur[v]
                                     /\ posts'[v] = posts[v] /\ result'[v] = result[v]
                                     /\ pc'[v] = pc[v]
  BY <1>2 DEF DeliveryInv, TypeOK
<1>6. /\ RowsOf(m)' + lost'[m] = RowsOf(m) + lost[m] + 1
      /\ \A n \in Messages \ {m} : RowsOf(n)' + lost'[n] = RowsOf(n) + lost[n]
  <2>1. RowsOf(m)' = RowsOf(m) + 1
    <3>1. \A t \in Statuses : /\ rows[m][t] \in Nat
                             /\ rows'[m][t] = IF t = s THEN rows[m][t] + 1 ELSE rows[m][t]
      BY <1>1, <1>3
    <3> QED
      BY <3>1 DEF RowsOf, Statuses, SENT, FAILED, RATE_LIMITED, REJECTED
  <2>2. \A n \in Messages \ {m} : RowsOf(n)' = RowsOf(n)
    BY <1>3 DEF RowsOf
  <2>3. \A n \in Messages : RowsOf(n) \in Nat /\ lost[n] \in Nat /\ lost'[n] = lost[n]
    BY <1>1, <1>2 DEF RowsOf, Statuses
  <2> QED
    BY <2>1, <2>2, <2>3
<1>7. \A n \in Messages : RowsOf(n)' \in Nat /\ lost'[n] \in Nat
  BY <1>1, <1>2, <1>3 DEF RowsOf, Statuses, SENT, FAILED, RATE_LIMITED, REJECTED
<1>8. ~InFlight(w)' /\ pc' = [pc EXCEPT ![w] = pc'[w]]
  BY <1>2 DEF DeliveryInv, TypeOK
<1>9. OneDelivererPerMessage' /\ EveryWindowRecordedOnce'
  BY <1>1, <1>2, <1>6, <1>7, <1>8, StopDelivering
<1>10. PostsInCall'
  BY <1>2 DEF DeliveryInv, TypeOK, PostsInCall
<1>11. SentAccounted'
  <2>1. \A n \in Messages : rows'[n][SENT] <= answered'[n]
    <3>1. \A n \in Messages \ {m} : rows'[n][SENT] <= answered'[n]
      BY <1>2, <1>3 DEF DeliveryInv, SentAccounted
    <3>2. rows'[m][SENT] <= answered'[m]
      BY <1>1, <1>2, <1>3 DEF DeliveryInv, SentAccounted, Statuses
    <3> QED
      BY <3>1, <3>2
  <2>2. ASSUME NEW v \in Workers, pc'[v] = "record", result'[v] = SENT
        PROVE  rows'[cur'[v]][SENT] + 1 <= answered'[cur'[v]]
    <3>1. v # w /\ InFlight(v) /\ cur'[v] = cur[v] /\ result[v] = SENT /\ pc[v] = "record"
      BY <1>5, <2>2
    <3>2. cur[v] \in Messages \ {m}
      BY <3>1, <1>1
    <3> QED
      BY <3>1, <3>2, <1>2, <1>3 DEF DeliveryInv, SentAccounted
  <2> QED
    BY <2>1, <2>2 DEF SentAccounted
<1>12. ReceiptsAccounted'
  BY <1>2, <1>5 DEF DeliveryInv, ReceiptsAccounted
<1> QED
  BY <1>4, <1>9, <1>10, <1>11, <1>12 DEF DeliveryInv

(* A batch ends early: a crash, or an insert that raises.                  *)
LEMMA AbandonStep ==
    ASSUME DeliveryInv, NEW w \in Workers, NEW m \in Messages, cur[w] = m,
           Abandon(w), InFlight(w), lost' = [lost EXCEPT ![m] = @ + 1],
           UNCHANGED <<claimed, rows, received, answered, windows>>
    PROVE  DeliveryInv'
<1> USE DeliveryAssumption DEF InFlight
<1>1. /\ rows \in [Messages -> [Statuses -> Nat]] /\ lost \in [Messages -> Nat]
  BY DEF DeliveryInv, TypeOK
<1>2. /\ pc' = [pc EXCEPT ![w] = "idle"] /\ cur' = [cur EXCEPT ![w] = NoMessage]
      /\ posts' = [posts EXCEPT ![w] = 0] /\ result' = [result EXCEPT ![w] = SENT]
      /\ todo' = [todo EXCEPT ![w] = {}]
  BY DEF Abandon
<1>3. /\ lost' \in [Messages -> Nat] /\ lost'[m] = lost[m] + 1
      /\ \A n \in Messages \ {m} : lost'[n] = lost[n]
  BY <1>1
<1>4. TypeOK'
  <2>1. pc' \in [Workers -> {"idle", "next", "acquire", "post", "record"}]
    BY <1>2 DEF DeliveryInv, TypeOK
  <2>2. cur' \in [Workers -> Messages \union {NoMessage}] /\ posts' \in [Workers -> 0..MaxPosts]
    BY <1>2 DEF DeliveryInv, TypeOK
  <2>3. result' \in [Workers -> Statuses] /\ todo' \in [Workers -> SUBSET Messages]
    BY <1>2 DEF DeliveryInv, TypeOK, Statuses
  <2>4. \A v \in Workers : InFlight(v)' => cur'[v] \in Messages
    BY <1>2 DEF DeliveryInv, TypeOK
  <2> QED
    BY <1>3, <2>1, <2>2, <2>3, <2>4 DEF DeliveryInv, TypeOK
<1>5. \A v \in Workers : InFlight(v)' => v # w /\ InFlight(v) /\ cur'[v] = cur[v]
                                     /\ posts'[v] = posts[v] /\ result'[v] = result[v]
                                     /\ pc'[v] = pc[v]
  BY <1>2 DEF DeliveryInv, TypeOK
<1>6. \A n \in Messages : /\ RowsOf(n) \in Nat /\ RowsOf(n)' = RowsOf(n)
                          /\ RowsOf(n)' \in Nat /\ lost'[n] \in Nat
  BY <1>1, <1>3 DEF RowsOf, Statuses
<1>7. /\ RowsOf(m)' + lost'[m] = RowsOf(m) + lost[m] + 1
      /\ \A n \in Messages \ {m} : RowsOf(n)' + lost'[n] = RowsOf(n) + lost[n]
  <2>1. RowsOf(m)' = RowsOf(m) /\ RowsOf(m) \in Nat /\ lost[m] \in Nat
    BY <1>1, <1>6
  <2>2. RowsOf(m)' + lost'[m] = RowsOf(m) + lost[m] + 1
    BY <2>1, <1>3
  <2>3. ASSUME NEW n \in Messages \ {m}
        PROVE  RowsOf(n)' + lost'[n] = RowsOf(n) + lost[n]
    BY <1>3, <1>6
  <2> QED
    BY <2>2, <2>3
<1>8. ~InFlight(w)' /\ pc' = [pc EXCEPT ![w] = pc'[w]]
  BY <1>2 DEF DeliveryInv, TypeOK
<1>9. OneDelivererPerMessage' /\ EveryWindowRecordedOnce'
  BY <1>2, <1>3, <1>6, <1>7, <1>8, StopDelivering
<1>10. PostsInCall'
  BY <1>2 DEF DeliveryInv, TypeOK, PostsInCall
<1>11. SentAccounted' /\ ReceiptsAccounted'
  BY <1>5 DEF DeliveryInv, SentAccounted, ReceiptsAccounted
<1> QED
  BY <1>4, <1>9, <1>10, <1>11 DEF DeliveryInv

(* An insert that raises: inside the try the message turns failed, outside *)
(* it the batch ends.                                                      *)
LEMMA RecordRaisesStep ==
    ASSUME DeliveryInv, NEW w \in Workers, NEW m \in Messages, cur[w] = m,
           RecordRaises(w)
    PROVE  DeliveryInv'
<1> USE DeliveryAssumption DEF InFlight
<1>1. CASE result[w] = SENT
  <2>1. /\ pc[w] = "record" /\ pc' = [pc EXCEPT ![w] = "record"]
        /\ result' = [result EXCEPT ![w] = FAILED]
        /\ UNCHANGED <<claimed, rows, todo, cur, posts, received, answered, windows, lost>>
    BY <1>1 DEF RecordRaises, Outcome
  <2>2. pc' = pc /\ InFlight(w)
    BY <2>1 DEF DeliveryInv, TypeOK
  <2>3. TypeOK'
    BY <2>1, <2>2 DEF DeliveryInv, TypeOK, Statuses
  <2>4. OneDelivererPerMessage' /\ EveryWindowRecordedOnce'
    BY <2>1, <2>2, InFlightFrame DEF DeliveryInv, TypeOK
  <2>5. PostsInCall' /\ ReceiptsAccounted'
    BY <2>1, <2>2 DEF DeliveryInv, PostsInCall, ReceiptsAccounted
  <2>6. \A v \in Workers : result'[v] = SENT => result[v] = SENT
    BY <2>1 DEF DeliveryInv, TypeOK, SENT, FAILED
  <2>7. SentAccounted'
    BY <2>1, <2>2, <2>6 DEF DeliveryInv, SentAccounted
  <2> QED
    BY <2>3, <2>4, <2>5, <2>7 DEF DeliveryInv
<1>2. CASE result[w] # SENT
  <2>1. /\ Abandon(w) /\ InFlight(w) /\ lost' = [lost EXCEPT ![m] = @ + 1]
        /\ UNCHANGED <<claimed, rows, received, answered, windows>>
    BY <1>2 DEF RecordRaises
  <2> QED
    BY <2>1, AbandonStep
<1> QED
  BY <1>1, <1>2

(* A worker dies, between two messages or in the middle of one.            *)
LEMMA CrashStep ==
    ASSUME DeliveryInv, NEW w \in Workers, Crash(w) PROVE DeliveryInv'
<1> USE DeliveryAssumption DEF InFlight
<1>1. CASE InFlight(w)
  <2>1. PICK m \in Messages : cur[w] = m
    BY <1>1 DEF DeliveryInv, TypeOK
  <2>2. /\ Abandon(w) /\ lost' = [lost EXCEPT ![m] = @ + 1]
        /\ UNCHANGED <<claimed, rows, received, answered, windows>>
    BY <1>1, <2>1 DEF Crash
  <2> QED
    BY <1>1, <2>1, <2>2, AbandonStep
<1>2. CASE ~InFlight(w)
  <2>1. /\ pc[w] = "next" /\ pc' = [pc EXCEPT ![w] = "idle"]
        /\ todo' = [todo EXCEPT ![w] = {}] /\ cur' = [cur EXCEPT ![w] = NoMessage]
        /\ posts' = [posts EXCEPT ![w] = 0] /\ result' = [result EXCEPT ![w] = SENT]
        /\ UNCHANGED <<claimed, rows, received, answered, windows, lost>>
    BY <1>2 DEF Crash, Abandon, DeliveryInv, TypeOK
  <2>2. \A v \in Workers : InFlight(v)' => InFlight(v) /\ v # w /\ pc'[v] = pc[v]
           /\ cur'[v] = cur[v] /\ posts'[v] = posts[v] /\ result'[v] = result[v]
    BY <2>1 DEF DeliveryInv, TypeOK
  <2>3. \A n \in Messages : Delivering(n)' <=> Delivering(n)
    BY <2>1, <2>2 DEF Delivering, DeliveryInv, TypeOK
  <2>4. TypeOK'
    <3>1. /\ pc' \in [Workers -> {"idle", "next", "acquire", "post", "record"}]
          /\ todo' \in [Workers -> SUBSET Messages]
          /\ cur' \in [Workers -> Messages \union {NoMessage}]
      BY <2>1 DEF DeliveryInv, TypeOK
    <3>2. posts' \in [Workers -> 0..MaxPosts] /\ result' \in [Workers -> Statuses]
      BY <2>1 DEF DeliveryInv, TypeOK, Statuses
    <3>3. \A v \in Workers : InFlight(v)' => cur'[v] \in Messages
      BY <2>2 DEF DeliveryInv, TypeOK
    <3> QED
      BY <2>1, <3>1, <3>2, <3>3 DEF DeliveryInv, TypeOK
  <2>5. OneDelivererPerMessage' /\ PostsInCall'
    BY <2>1, <2>2 DEF DeliveryInv, TypeOK, OneDelivererPerMessage, PostsInCall
  <2>6. EveryWindowRecordedOnce'
    BY <2>1, <2>3 DEF DeliveryInv, EveryWindowRecordedOnce, RowsOf
  <2>7. SentAccounted' /\ ReceiptsAccounted'
    BY <2>1, <2>2 DEF DeliveryInv, SentAccounted, ReceiptsAccounted
  <2> QED
    BY <2>4, <2>5, <2>6, <2>7 DEF DeliveryInv
<1> QED
  BY <1>1, <1>2

(* A key expires while nobody delivers its message.                        *)
LEMMA ExpireStep ==
    ASSUME DeliveryInv, NEW m \in Messages, Expire(m) PROVE DeliveryInv'
<1>1. /\ windows[m] < MaxWindows /\ claimed' = claimed \ {m}
      /\ \A w \in Workers : InFlight(w) => cur[w] # m
      /\ UNCHANGED <<rows, pc, todo, cur, posts, result, received, answered, windows, lost>>
  BY DEF Expire, Delivering, worker
<1>2. TypeOK'
  BY <1>1 DEF DeliveryInv, TypeOK, InFlight
<1>3. OneDelivererPerMessage' /\ PostsInCall'
  BY <1>1 DEF DeliveryInv, OneDelivererPerMessage, PostsInCall, InFlight
<1>4. EveryWindowRecordedOnce' /\ SentAccounted' /\ ReceiptsAccounted'
  BY <1>1 DEF DeliveryInv, EveryWindowRecordedOnce, Delivering, RowsOf, SentAccounted,
             ReceiptsAccounted, InFlight
<1> QED
  BY <1>2, <1>3, <1>4 DEF DeliveryInv

LEMMA NextDeliveryInv == DeliveryInv /\ [Next]_vars => DeliveryInv'
<1> SUFFICES ASSUME DeliveryInv, [Next]_vars PROVE DeliveryInv'
  OBVIOUS
<1>1. ASSUME NEW h \in Handlers, Request(h) PROVE DeliveryInv'
  <2>1. h \in Workers
    BY DEF Workers
  <2> QED
    BY <1>1, <2>1, BatchSteps
<1>2. ASSUME NEW r \in Retriers, Scan(r) PROVE DeliveryInv'
  <2>1. r \in Workers
    BY DEF Workers
  <2> QED
    BY <1>2, <2>1, BatchSteps
<1>3. ASSUME NEW w \in Workers, NEW m \in Messages, Claim(w, m) PROVE DeliveryInv'
  BY <1>3, ClaimStep
<1>4. ASSUME NEW w \in Workers, NEW m \in Messages, Skip(w, m) PROVE DeliveryInv'
  BY <1>4, BatchSteps
<1>5. ASSUME NEW w \in Workers, Finish(w) \/ ClaimRaises(w) PROVE DeliveryInv'
  BY <1>5, BatchSteps
<1>6. ASSUME NEW w \in Workers, Attempt(w) PROVE DeliveryInv'
  <2>1. CASE Record(w)
    <3>1. PICK m \in Messages : cur[w] = m
      BY <2>1 DEF Record, DeliveryInv, TypeOK, InFlight
    <3> QED
      BY <2>1, <3>1, RecordStep
  <2> QED
    BY <1>6, <2>1, AttemptSteps DEF Attempt
<1>7. ASSUME NEW w \in Workers, RecordRaises(w) PROVE DeliveryInv'
  <2>1. PICK m \in Messages : cur[w] = m
    BY <1>7 DEF RecordRaises, DeliveryInv, TypeOK, InFlight
  <2> QED
    BY <1>7, <2>1, RecordRaisesStep
<1>8. ASSUME NEW w \in Workers, AcquireRaises(w) PROVE DeliveryInv'
  <2>1. PICK m \in Messages : cur[w] = m
    BY <1>8 DEF AcquireRaises, DeliveryInv, TypeOK, InFlight
  <2> QED
    BY <1>8, <2>1, AbandonStep DEF AcquireRaises, InFlight
<1>9. ASSUME NEW w \in Workers, Crash(w) PROVE DeliveryInv'
  BY <1>9, CrashStep
<1>10. ASSUME NEW m \in Messages, Expire(m) PROVE DeliveryInv'
  BY <1>10, ExpireStep
<1>11. CASE UNCHANGED vars
  BY <1>11 DEF vars, worker, DeliveryInv, TypeOK, OneDelivererPerMessage, PostsInCall,
               EveryWindowRecordedOnce, SentAccounted, ReceiptsAccounted, InFlight,
               Delivering, RowsOf
<1> QED
  BY <1>1, <1>2, <1>3, <1>4, <1>5, <1>6, <1>7, <1>8, <1>9,
     <1>10, <1>11 DEF Next

-----------------------------------------------------------------------------
(* The strengthened invariant holds in every reachable state.              *)
THEOREM DeliveryInvariant == SafeSpec => []DeliveryInv
<1>1. Init => DeliveryInv
  BY InitDeliveryInv
<1>2. DeliveryInv /\ [Next]_vars => DeliveryInv'
  BY NextDeliveryInv
<1> QED
  BY <1>1, <1>2, PTL DEF SafeSpec

(* The workers, keys and rows keep their shape, and a call never makes     *)
(* more POSTs than max_retries.                                            *)
THEOREM DeliveryTypeCorrect == SafeSpec => []TypeOK
<1>1. DeliveryInv => TypeOK
  BY DEF DeliveryInv
<1> QED
  BY <1>1, DeliveryInvariant, PTL

(* The dedupe key keeps two workers from delivering one message at once,   *)
(* for any number of instances, handlers and retry workers.                *)
THEOREM DeliveryOneDeliverer == SafeSpec => []OneDelivererPerMessage
<1>1. DeliveryInv => OneDelivererPerMessage
  BY DEF DeliveryInv
<1> QED
  BY <1>1, DeliveryInvariant, PTL

(* Each dedupe window ends in exactly one row unless a crash or a failed   *)
(* insert took it.                                                         *)
THEOREM DeliveryWindowRecordedOnce == SafeSpec => []EveryWindowRecordedOnce
<1>1. DeliveryInv => EveryWindowRecordedOnce
  BY DEF DeliveryInv
<1> QED
  BY <1>1, DeliveryInvariant, PTL

(* No row says `sent` without a readable 200 of its own                    *)
(* (_deliver_one() inserts it behind workspace.deliver()).  What the       *)
(* answer says of the message is not part of it.                           *)
THEOREM DeliverySentWasAnswered == SafeSpec => []SentRowsWereAnswered
<1>1. DeliveryInv => SentRowsWereAnswered
  BY DEF DeliveryInv, SentAccounted, SentRowsWereAnswered
<1> QED
  BY <1>1, DeliveryInvariant, PTL

(* The workspace gets a message at most MaxPosts times per dedupe window.  *)
THEOREM DeliveryDuplicatesBounded == SafeSpec => []DuplicatesBounded
<1>1. DeliveryInv => DuplicatesBounded
  BY DEF DeliveryInv, ReceiptsAccounted, DuplicatesBounded
<1> QED
  BY <1>1, DeliveryInvariant, PTL
=============================================================================
