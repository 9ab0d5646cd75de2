--------------------------- MODULE CloudSyncProofs ---------------------------
(***************************************************************************)
(* Theorems about CloudSync, for every set of clients and records, every   *)
(* number of server workers, every clock skew and every bound.             *)
(***************************************************************************)
EXTENDS CloudSync, TLAPS

-----------------------------------------------------------------------------
(* Type correctness.                                                       *)

(* The initial state has the types of TypeOK.                              *)
LEMMA InitTypeOK == Init => TypeOK
  BY ConstantsOK DEF Init, TypeOK, Row, ServerRow, NoRow, NoServerRow

(* What the application does keeps every type.                             *)
LEMMA AppTypeOK ==
  ASSUME TypeOK, NEW c \in Client,
         \/ \E r \in Record : UpsertRow(c, r)
         \/ Enqueue(c)
         \/ AppCrash(c)
  PROVE  TypeOK'
<1>. USE ConstantsOK DEF TypeOK, clientVars, flushVars, serverVars
<1>1. ASSUME NEW r \in Record, UpsertRow(c, r)
      PROVE  TypeOK'
  <2>. DEFINE row == [ver |-> local[c][r].ver + 1, ts |-> now + Skew[c]]
  <2>1. local[c][r].ver \in Nat
    BY DEF Row
  <2>2. row \in Row /\ row.ver \in Nat \ {0}
    BY <2>1 DEF Row
  <2>3. local' = [local EXCEPT ![c][r] = row]
    BY <1>1 DEF UpsertRow
  <2>4. local' \in [Client -> [Record -> Row]]
    BY <2>2, <2>3
  <2>5. [rec |-> r, ver |-> row.ver] \in Entry
    BY <2>2 DEF Entry
  <2>6. upserting' = [upserting EXCEPT ![c] = {[rec |-> r, ver |-> row.ver]}]
    BY <1>1 DEF UpsertRow
  <2>7. upserting' \in [Client -> SUBSET Entry]
    BY <2>5, <2>6
  <2>. QED BY <1>1, <2>4, <2>7 DEF UpsertRow
<1>2. ASSUME Enqueue(c)
      PROVE  TypeOK'
  <2>1. PICK e \in upserting[c] :
          /\ queue' = [queue EXCEPT ![c] = @ \cup {e}]
          /\ upserting' = [upserting EXCEPT ![c] = {}]
          /\ promised' = promised \cup {Change(c, e)}
          /\ UNCHANGED <<now, faults, local, conflicts, flushVars, serverVars, accepted>>
    BY <1>2 DEF Enqueue
  <2>2. e \in Entry
    OBVIOUS
  <2>3. Change(c, e) \in Client \X Record \X (Nat \ {0})
    BY <2>2 DEF Change, Entry
  <2>. QED BY <2>1, <2>2, <2>3
<1>3. ASSUME AppCrash(c)
      PROVE  TypeOK'
  BY <1>3 DEF AppCrash, Fault
<1>. QED BY <1>1, <1>2, <1>3

(* Giving up on a request removes it or marks it late: a set of requests   *)
(* it remains.                                                             *)
LEMMA AbandonType ==
  ASSUME requests \subseteq Request, faults \in Nat, NEW c \in Client, Abandon(c)
  PROVE  requests' \subseteq Request
<1>1. ASSUME NEW q \in Live(c)
      PROVE  [q EXCEPT !.late = faults + 1] \in Request
  BY <1>1 DEF Live, Request
<1>. QED BY <1>1 DEF Abandon, Live

(* What the sync process does, and what befalls it, keeps every type.      *)
LEMMA FlushTypeOK ==
  ASSUME TypeOK, NEW c \in Client,
         \/ Authenticate(c) \/ TokenExpires(c)
         \/ StartFlush(c) \/ FlushStep(c)
         \/ PutFails(c) \/ SyncCrash(c)
  PROVE  TypeOK'
<1>. USE DEF TypeOK, clientVars, flushVars, serverVars
<1>1. ASSUME NEW e \in todo[c], TakeItem(c, e)
      PROVE  TypeOK'
  <2>. DEFINE row == local[c][e.rec]
              put == [cli |-> c, rec |-> e.rec, ver |-> row.ver, ts |-> row.ts,
                      auth |-> (token[c] = "valid"), late |-> 0, st |-> "sent",
                      seen |-> NoServerRow]
              flight == [entry |-> e, row |-> row]
  <2>1. e \in Entry
    OBVIOUS
  <2>2. row \in Row
    BY <2>1 DEF Entry
  <2>3. ASSUME row.ver # 0
        PROVE  put \in Request /\ flight \in Flight
    BY <2>1, <2>2, <2>3 DEF Entry, Row, Request, Flight, NoServerRow, ServerRow
  <2>4. inflight' \in [Client -> SUBSET Flight] /\ requests' \subseteq Request
    <3>1. CASE row.ver = 0
      BY <1>1, <3>1 DEF TakeItem
    <3>2. CASE row.ver # 0
      <4>1. /\ inflight' = [inflight EXCEPT ![c] = {flight}]
            /\ requests' = requests \cup {put}
        BY <1>1, <3>2 DEF TakeItem
      <4>. QED BY <4>1, <3>2, <2>3
    <3>. QED BY <3>1, <3>2
  <2>5. queue' \in [Client -> SUBSET Entry]
    <3>1. queue' = [queue EXCEPT ![c] = @ \ {e}] \/ queue' = queue
      BY <1>1, Zenon DEF TakeItem
    <3>2. queue \in [Client -> SUBSET Entry]
      OBVIOUS
    <3>. HIDE DEF TypeOK
    <3>. QED BY <3>1, <3>2
  <2>6. todo' \in [Client -> SUBSET Entry]
    BY <1>1 DEF TakeItem
  <2>. QED BY <1>1, <2>4, <2>5, <2>6 DEF TakeItem
<1>2. CASE ReceiveOk(c)
  BY <1>2 DEF ReceiveOk, Receive
<1>3. CASE ReceiveConflict(c)
  <2>. DEFINE new == {[rec |-> f.entry.rec, local |-> f.row, remote |-> a.row] :
                        f \in inflight[c], a \in answer[c]}
  <2>1. new \subseteq Conflict
    BY DEF Conflict, Flight, Entry, Reply
  <2>2. conflicts' = [conflicts EXCEPT ![c] = @ \cup new]
    BY <1>3 DEF ReceiveConflict
  <2>3. conflicts' \in [Client -> SUBSET Conflict]
    BY <2>1, <2>2
  <2>. QED BY <1>3, <2>3 DEF ReceiveConflict, Receive
<1>4. CASE ReceiveError(c)
  BY <1>4 DEF ReceiveError, Receive
<1>5. CASE FinishFlush(c)
  BY <1>5 DEF FinishFlush
<1>6. CASE Authenticate(c) \/ TokenExpires(c)
  <2>1. \E t \in {"valid", "expired"} : token' = [token EXCEPT ![c] = t]
    BY <1>6 DEF Authenticate, TokenExpires
  <2>2. faults' \in Nat
    BY <1>6 DEF Authenticate, TokenExpires, Fault
  <2>3. UNCHANGED <<now, clientVars, running, todo, inflight, answer, serverVars, promised,
                    accepted>>
    BY <1>6 DEF Authenticate, TokenExpires
  <2>. QED BY <2>1, <2>2, <2>3
<1>7. CASE StartFlush(c)
  BY <1>7 DEF StartFlush
<1>8. CASE PutFails(c)
  BY <1>8, AbandonType DEF PutFails, Fault
<1>9. CASE SyncCrash(c)
  BY <1>9, AbandonType DEF SyncCrash, Fault
<1>. QED BY <1>1, <1>2, <1>3, <1>4, <1>5, <1>6, <1>7, <1>8, <1>9 DEF FlushStep

(* A response to a request keeps the types of requests and answers.        *)
LEMMA RespondType ==
  ASSUME TypeOK, NEW q \in requests,
         NEW kind \in {"ok", "conflict", "error"}, NEW row \in ServerRow,
         Respond(q, kind, row)
  PROVE  requests' \subseteq Request /\ answer' \in [Client -> SUBSET Reply]
<1>1. [kind |-> kind, row |-> row] \in Reply
  BY DEF Reply
<1>2. q.cli \in Client
  BY DEF TypeOK, Request
<1>. QED BY <1>1, <1>2 DEF TypeOK, Respond

(* What the server does keeps every type.                                  *)
LEMMA ServerTypeOK ==
  ASSUME TypeOK, NEW q \in requests, ServerStep(q)
  PROVE  TypeOK'
<1>1. /\ q \in Request /\ q.cli \in Client /\ q.rec \in Record /\ q.ver \in Nat \ {0}
      /\ server[q.rec] \in ServerRow /\ NoServerRow \in ServerRow
  BY DEF TypeOK, Request, ServerRow, NoServerRow
<1>2. /\ server' \in [Record -> ServerRow]
      /\ accepted' \subseteq Client \X Record \X (Nat \ {0})
      /\ requests' \subseteq Request /\ answer' \in [Client -> SUBSET Reply]
  <2>1. CASE Deny(q) \/ Clash(q)
    BY <1>1, <2>1, RespondType DEF Deny, Clash, TypeOK
  <2>2. CASE Refuse(q)
    BY <1>1, <2>2, RespondType DEF Refuse, TypeOK
  <2>3. CASE Admit(q)
    <3>1. [q EXCEPT !.st = "checked", !.seen = server[q.rec]] \in Request
      BY <1>1 DEF Request
    <3>. QED BY <2>3, <3>1 DEF Admit, TypeOK
  <2>4. CASE Commit(q)
    <3>. DEFINE same == q.seen.ver # 0 /\ q.seen.cli = q.cli /\ q.seen.ver = q.ver
                new  == [cli |-> q.cli, ver |-> q.ver, ts |-> now]
                row  == IF same THEN [server[q.rec] EXCEPT !.ts = now] ELSE new
    <3>1. row \in ServerRow
      BY <1>1 DEF TypeOK, ServerRow
    <3>2. /\ server' = [server EXCEPT ![q.rec] = row]
          /\ accepted' = accepted \cup {Change(q.cli, q)}
          /\ Respond(q, "ok", row)
      BY <2>4 DEF Commit
    <3>. HIDE DEF row
    <3>3. Change(q.cli, q) \in Client \X Record \X (Nat \ {0})
      BY <1>1 DEF Change
    <3>. QED BY <3>1, <3>2, <3>3, <1>1, RespondType DEF TypeOK
  <2>. QED BY <2>1, <2>2, <2>3, <2>4 DEF ServerStep
<1>. QED BY <1>2 DEF ServerStep, TypeOK, clientVars

(* A write through PUT /vehicles/{vin} and the passing of time keep every  *)
(* type.                                                                   *)
LEMMA OtherTypeOK ==
  ASSUME TypeOK, Tick \/ (\E r \in Record : RestPut(r)) \/ UNCHANGED vars
  PROVE  TypeOK'
<1>. USE DEF TypeOK, clientVars, flushVars, serverVars
<1>1. CASE Tick
  BY <1>1 DEF Tick
<1>2. ASSUME NEW r \in Record, RestPut(r)
      PROVE  TypeOK'
  <2>1. [cli |-> Rest, ver |-> restWrites + 1, ts |-> now] \in ServerRow
    BY DEF ServerRow
  <2>. QED BY <1>2, <2>1 DEF RestPut
<1>3. CASE UNCHANGED vars
  BY <1>3 DEF vars
<1>. QED BY <1>1, <1>2, <1>3

(* Every step of the system keeps every type.                              *)
LEMMA NextTypeOK == TypeOK /\ [Next]_vars => TypeOK'
  BY AppTypeOK, FlushTypeOK, ServerTypeOK, OtherTypeOK DEF Next

(* Every variable of the sync system has its type in every reachable       *)
(* state.                                                                  *)
THEOREM TypeCorrect == Spec => []TypeOK
  BY InitTypeOK, NextTypeOK, PTL DEF Spec

-----------------------------------------------------------------------------
(* No change is lost.                                                      *)
(*                                                                         *)
(* NoLostSync is not inductive: that an item may leave the queue when a    *)
(* PUT succeeds depends on what that PUT carried, when it was read, and    *)
(* whose answer this is.  SyncInv adds these facts.                        *)

(* A change on its way to the server is in the local row, or the row is    *)
(* already newer: upsert commits the row before it enqueues.               *)
RowBeforeQueue ==
  \A c \in Client : \A e \in queue[c] \cup todo[c] \cup upserting[c] :
    e.ver <= local[c][e.rec].ver

(* The row an item was sent with is the item's change or a later one.      *)
SentCoversItem ==
  \A c \in Client : \A f \in inflight[c] : f.entry.ver <= f.row.ver

(* A request the client still waits for is its only one, and carries the   *)
(* row it remembers.                                                       *)
LiveIsAwaited ==
  \A q \in requests : q.late = 0 =>
    /\ inflight[q.cli] # {}
    /\ \A f \in inflight[q.cli] : q.rec = f.entry.rec /\ q.ver = f.row.ver
    /\ \A p \in requests : p.late = 0 /\ p.cli = q.cli => p = q

(* An answer is for the awaited item, whose request is done, and "ok"      *)
(* means the server has it.                                                *)
AnswerIsAwaited ==
  \A c \in Client : \A a \in answer[c] :
    /\ inflight[c] # {}
    /\ \A q \in requests : q.cli = c => q.late # 0
    /\ a.kind = "ok" =>
         \A f \in inflight[c] : <<c, f.entry.rec, f.row.ver>> \in accepted

SyncInv == /\ TypeOK
           /\ RowBeforeQueue
           /\ SentCoversItem
           /\ LiveIsAwaited
           /\ AnswerIsAwaited
           /\ NoLostSync

(* Nothing is queued, sent or promised at the start.                       *)
LEMMA InitSyncInv == Init => SyncInv
  BY InitTypeOK DEF Init, SyncInv, RowBeforeQueue, SentCoversItem, LiveIsAwaited,
                    AnswerIsAwaited, NoLostSync

(* The application: a version is written before it is queued, and versions *)
(* of a row only grow.                                                     *)
LEMMA AppSyncInv ==
  ASSUME SyncInv, TypeOK', NEW c \in Client,
         \/ \E r \in Record : UpsertRow(c, r)
         \/ Enqueue(c)
         \/ AppCrash(c)
  PROVE  SyncInv'
<1>. USE DEF SyncInv, clientVars, flushVars, serverVars
<1>1. ASSUME NEW r \in Record, UpsertRow(c, r)
      PROVE  SyncInv'
  <2>. DEFINE row == [ver |-> local[c][r].ver + 1, ts |-> now + Skew[c]]
              new == [rec |-> r, ver |-> row.ver]
  <2>1. /\ local' = [local EXCEPT ![c][r] = row]
        /\ upserting' = [upserting EXCEPT ![c] = {new}]
        /\ UNCHANGED <<queue, todo, inflight, answer, requests, promised, accepted>>
    BY <1>1 DEF UpsertRow
  <2>2. \A d \in Client, s \in Record : local[d][s].ver \in Nat
    BY DEF TypeOK, Row
  <2>3. \A d \in Client, s \in Record : local[d][s].ver <= local'[d][s].ver
    BY <2>1, <2>2 DEF TypeOK
  <2>4. RowBeforeQueue'
    <3>. SUFFICES ASSUME NEW d \in Client,
                         NEW e \in queue'[d] \cup todo'[d] \cup upserting'[d]
                  PROVE  e.ver <= local'[d][e.rec].ver
      BY DEF RowBeforeQueue
    <3>1. e.rec \in Record /\ e.ver \in Nat
      BY DEF TypeOK, Entry
    <3>2. CASE e \in queue[d] \cup todo[d] \cup upserting[d]
      <4>1. e.ver <= local[d][e.rec].ver
        BY <3>2 DEF RowBeforeQueue
      <4>2. local'[d][e.rec].ver \in Nat
        BY <3>1 DEF TypeOK, Row
      <4>. QED BY <4>1, <4>2, <3>1, <2>2, <2>3
    <3>3. CASE e \notin queue[d] \cup todo[d] \cup upserting[d]
      <4>1. d = c /\ e = new
        BY <3>3, <2>1 DEF TypeOK
      <4>2. local'[c][r].ver = row.ver
        BY <2>1 DEF TypeOK
      <4>. QED BY <4>1, <4>2, <2>2
    <3>. QED BY <3>2, <3>3
  <2>. QED BY <2>1, <2>4 DEF SentCoversItem, LiveIsAwaited, AnswerIsAwaited, NoLostSync
<1>2. ASSUME Enqueue(c)
      PROVE  SyncInv'
  <2>1. PICK e \in upserting[c] :
          /\ queue' = [queue EXCEPT ![c] = @ \cup {e}]
          /\ upserting' = [upserting EXCEPT ![c] = {}]
          /\ promised' = promised \cup {Change(c, e)}
          /\ UNCHANGED <<local, todo, inflight, answer, requests, accepted>>
    BY <1>2 DEF Enqueue
  <2>2. RowBeforeQueue'
    BY <2>1 DEF RowBeforeQueue, TypeOK
  <2>3. NoLostSync'
    <3>. SUFFICES ASSUME NEW p \in promised'
                  PROVE  \/ [rec |-> p[2], ver |-> p[3]] \in queue'[p[1]]
                         \/ \E a \in accepted' : a[1] = p[1] /\ a[2] = p[2] /\ a[3] >= p[3]
      BY DEF NoLostSync
    <3>1. CASE p \in promised
      <4>1. p[1] \in Client
        BY <3>1 DEF TypeOK
      <4>. QED BY <2>1, <3>1, <4>1 DEF NoLostSync, TypeOK
    <3>2. CASE p = Change(c, e)
      <4>1. e \in Entry
        BY DEF TypeOK
      <4>2. e = [rec |-> p[2], ver |-> p[3]] /\ p[1] = c
        BY <3>2, <4>1 DEF Change, Entry
      <4>. QED BY <4>2, <2>1 DEF TypeOK
    <3>. QED BY <2>1, <3>1, <3>2
  <2>. QED BY <2>1, <2>2, <2>3 DEF SentCoversItem, LiveIsAwaited, AnswerIsAwaited
<1>3. ASSUME AppCrash(c)
      PROVE  SyncInv'
  BY <1>3 DEF AppCrash, TypeOK, RowBeforeQueue, SentCoversItem, LiveIsAwaited,
              AnswerIsAwaited, NoLostSync
<1>. QED BY <1>1, <1>2, <1>3

(* Taking an item: the row read is at least as new as the item's change,   *)
(* so there is one, and no earlier request is still awaited.               *)
LEMMA TakeItemSyncInv ==
  ASSUME SyncInv, TypeOK', NEW c \in Client, NEW e \in todo[c], TakeItem(c, e)
  PROVE  SyncInv'
<1>. USE DEF SyncInv
<1>. DEFINE row == local[c][e.rec]
            put == [cli |-> c, rec |-> e.rec, ver |-> row.ver, ts |-> row.ts,
                    auth |-> (token[c] = "valid"), late |-> 0, st |-> "sent",
                    seen |-> NoServerRow]
            flight == [entry |-> e, row |-> row]
<1>1. e \in Entry /\ e.ver \in Nat \ {0} /\ e.ver <= row.ver
  BY DEF TypeOK, Entry, RowBeforeQueue
<1>2. row.ver \in Nat /\ row.ver # 0
  BY <1>1 DEF TypeOK, Row, Entry
<1>3. /\ todo' = [todo EXCEPT ![c] = @ \ {e}]
      /\ inflight[c] = {}
      /\ inflight' = [inflight EXCEPT ![c] = {flight}]
      /\ requests' = requests \cup {put}
      /\ UNCHANGED <<local, queue, upserting, answer, promised, accepted>>
  BY <1>2 DEF TakeItem
<1>4. RowBeforeQueue'
  BY <1>3 DEF RowBeforeQueue, TypeOK
<1>5. SentCoversItem'
  BY <1>1, <1>3 DEF SentCoversItem, TypeOK
<1>6. LiveIsAwaited'
  <2>1. \A q \in requests : q.late = 0 => q.cli # c
    BY <1>3 DEF LiveIsAwaited
  <2>2. ASSUME NEW q \in requests', q.late = 0
        PROVE  /\ inflight'[q.cli] # {}
               /\ \A f \in inflight'[q.cli] : q.rec = f.entry.rec /\ q.ver = f.row.ver
               /\ \A p \in requests' : p.late = 0 /\ p.cli = q.cli => p = q
    <3>1. CASE q = put
      BY <1>3, <2>1, <3>1 DEF TypeOK
    <3>2. CASE q \in requests
      BY <1>3, <2>1, <2>2, <3>2 DEF LiveIsAwaited, TypeOK
    <3>. QED BY <1>3, <2>2, <3>1, <3>2
  <2>. QED BY <2>2 DEF LiveIsAwaited
<1>7. AnswerIsAwaited'
  <2>1. answer[c] = {}
    BY <1>3 DEF AnswerIsAwaited
  <2>. QED BY <1>3, <2>1 DEF AnswerIsAwaited, TypeOK
<1>. QED BY <1>3, <1>4, <1>5, <1>6, <1>7 DEF NoLostSync

(* A successful PUT carried the item's change or a later version, and the  *)
(* server has it: the item may go.                                         *)
LEMMA ReceiveOkSyncInv ==
  ASSUME SyncInv, TypeOK', NEW c \in Client, ReceiveOk(c)
  PROVE  SyncInv'
<1>. USE DEF SyncInv
<1>1. PICK a \in answer[c] : a.kind = "ok"
  BY DEF ReceiveOk, Receive
<1>2. /\ answer' = [answer EXCEPT ![c] = {}]
      /\ inflight' = [inflight EXCEPT ![c] = {}]
      /\ queue' = [queue EXCEPT ![c] = @ \ {f.entry : f \in inflight[c]}]
      /\ UNCHANGED <<local, upserting, todo, requests, promised, accepted>>
  BY DEF ReceiveOk, Receive, serverVars
<1>3. \A q \in requests : q.cli = c => q.late # 0
  BY <1>1 DEF AnswerIsAwaited
<1>4. RowBeforeQueue' /\ SentCoversItem'
  BY <1>2 DEF RowBeforeQueue, SentCoversItem, TypeOK
<1>5. LiveIsAwaited'
  BY <1>2, <1>3 DEF LiveIsAwaited, TypeOK
<1>6. AnswerIsAwaited'
  BY <1>2 DEF AnswerIsAwaited, TypeOK
<1>7. NoLostSync'
  <2>. SUFFICES ASSUME NEW p \in promised
                PROVE  \/ [rec |-> p[2], ver |-> p[3]] \in queue'[p[1]]
                       \/ \E b \in accepted : b[1] = p[1] /\ b[2] = p[2] /\ b[3] >= p[3]
    BY <1>2 DEF NoLostSync
  <2>. DEFINE e == [rec |-> p[2], ver |-> p[3]]
  <2>1. p[1] \in Client
    BY DEF TypeOK
  <2>2. CASE e \notin queue[p[1]]
    BY <2>2 DEF NoLostSync
  <2>3. CASE e \in queue[p[1]] /\ e \notin queue'[p[1]]
    <3>1. p[1] = c
      BY <1>2, <2>1, <2>3 DEF TypeOK
    <3>2. PICK f \in inflight[c] : f.entry = e
      BY <1>2, <2>3, <3>1 DEF TypeOK
    <3>3. f.entry.ver <= f.row.ver
      BY DEF SentCoversItem
    <3>4. <<c, f.entry.rec, f.row.ver>> \in accepted
      BY <1>1 DEF AnswerIsAwaited
    <3>5. f.row.ver \in Nat /\ f.entry.ver \in Nat
      BY DEF TypeOK, Flight, Row, Entry
    <3>6. f.row.ver >= p[3]
      BY <3>2, <3>3, <3>5
    <3>. QED BY <3>1, <3>2, <3>4, <3>6
  <2>. QED BY <2>2, <2>3
<1>. QED BY <1>4, <1>5, <1>6, <1>7

(* A response that is no success leaves the queue as it is.                *)
LEMMA ReceiveOtherSyncInv ==
  ASSUME SyncInv, TypeOK', NEW c \in Client, ReceiveConflict(c) \/ ReceiveError(c)
  PROVE  SyncInv'
<1>. USE DEF SyncInv
<1>1. answer[c] # {}
  BY DEF ReceiveConflict, ReceiveError, Receive
<1>2. /\ answer' = [answer EXCEPT ![c] = {}]
      /\ inflight' = [inflight EXCEPT ![c] = {}]
      /\ UNCHANGED <<local, queue, upserting, todo, requests, promised, accepted>>
  BY DEF ReceiveConflict, ReceiveError, Receive, serverVars
<1>3. \A q \in requests : q.cli = c => q.late # 0
  BY <1>1 DEF AnswerIsAwaited
<1>4. RowBeforeQueue' /\ SentCoversItem' /\ NoLostSync'
  BY <1>2 DEF RowBeforeQueue, SentCoversItem, NoLostSync, TypeOK
<1>5. LiveIsAwaited'
  BY <1>2, <1>3 DEF LiveIsAwaited, TypeOK
<1>6. AnswerIsAwaited'
  BY <1>2 DEF AnswerIsAwaited, TypeOK
<1>. QED BY <1>4, <1>5, <1>6

(* A client that gives up leaves no request it still waits for.            *)
LEMMA AbandonSyncInv ==
  ASSUME SyncInv, TypeOK', NEW c \in Client, PutFails(c) \/ SyncCrash(c)
  PROVE  SyncInv'
<1>. USE DEF SyncInv
<1>1. /\ answer' = [answer EXCEPT ![c] = {}]
      /\ inflight' = [inflight EXCEPT ![c] = {}]
      /\ UNCHANGED <<local, queue, upserting, promised, accepted>>
      /\ \A d \in Client : todo'[d] \subseteq todo[d]
  BY DEF PutFails, SyncCrash, clientVars, TypeOK
<1>2. \A q \in requests' :
        \/ q \in requests /\ ~(q.cli = c /\ q.late = 0)
        \/ q.cli = c /\ q.late = faults + 1
  BY DEF PutFails, SyncCrash, Abandon, Live, TypeOK, Request
<1>3. faults + 1 # 0
  BY DEF TypeOK
<1>4. RowBeforeQueue' /\ SentCoversItem' /\ NoLostSync'
  BY <1>1 DEF RowBeforeQueue, SentCoversItem, NoLostSync, TypeOK
<1>5. LiveIsAwaited'
  BY <1>1, <1>2, <1>3 DEF LiveIsAwaited, TypeOK
<1>6. AnswerIsAwaited'
  BY <1>1, <1>2, <1>3 DEF AnswerIsAwaited, TypeOK
<1>. QED BY <1>4, <1>5, <1>6

(* Authentication, the start and the end of a flush, and the other steps   *)
(* that touch no change.                                                   *)
LEMMA QuietSyncInv ==
  ASSUME SyncInv, TypeOK',
         \/ \E c \in Client : \/ Authenticate(c) \/ TokenExpires(c)
                              \/ StartFlush(c) \/ FinishFlush(c)
         \/ Tick
         \/ \E r \in Record : RestPut(r)
         \/ UNCHANGED vars
  PROVE  SyncInv'
<1>. USE DEF SyncInv, clientVars, flushVars, serverVars
<1>1. /\ UNCHANGED <<local, queue, upserting, inflight, answer, requests, promised, accepted>>
      /\ \A d \in Client : todo'[d] \subseteq todo[d] \cup queue[d]
  BY DEF Authenticate, TokenExpires, StartFlush, FinishFlush, Tick, RestPut, vars, TypeOK
<1>. QED BY <1>1 DEF RowBeforeQueue, SentCoversItem, LiveIsAwaited, AnswerIsAwaited,
                     NoLostSync

(* The server: an answer is for the request it ends, and "ok" comes with   *)
(* the commit of what that request carried.                                *)
LEMMA ServerSyncInv ==
  ASSUME SyncInv, TypeOK', NEW q \in requests, ServerStep(q)
  PROVE  SyncInv'
<1>. USE DEF SyncInv, clientVars
<1>1. /\ UNCHANGED <<local, queue, upserting, todo, inflight, promised>>
      /\ accepted \subseteq accepted'
      /\ q.cli \in Client
  BY DEF ServerStep, Deny, Refuse, Admit, Clash, Commit, TypeOK, Request
<1>2. RowBeforeQueue' /\ SentCoversItem' /\ NoLostSync'
  BY <1>1 DEF RowBeforeQueue, SentCoversItem, NoLostSync
<1>3. CASE Admit(q)
  <2>. DEFINE p == [q EXCEPT !.st = "checked", !.seen = server[q.rec]]
  <2>1. p.cli = q.cli /\ p.rec = q.rec /\ p.ver = q.ver /\ p.late = q.late
    BY DEF TypeOK, Request
  <2>2. requests' = (requests \ {q}) \cup {p} /\ UNCHANGED <<answer, accepted>>
    BY <1>3 DEF Admit
  <2>. HIDE DEF p
  <2>3. LiveIsAwaited'
    BY <1>1, <2>1, <2>2 DEF LiveIsAwaited
  <2>4. AnswerIsAwaited'
    BY <1>1, <2>1, <2>2 DEF AnswerIsAwaited
  <2>. QED BY <1>2, <2>3, <2>4
<1>4. ASSUME NEW kind, NEW row, Respond(q, kind, row),
             kind = "ok" => <<q.cli, q.rec, q.ver>> \in accepted'
      PROVE  LiveIsAwaited' /\ AnswerIsAwaited'
  <2>1. requests' = requests \ {q}
    BY <1>4 DEF Respond
  <2>2. LiveIsAwaited'
    BY <1>1, <2>1 DEF LiveIsAwaited
  <2>3. CASE q.late # 0
    BY <1>1, <1>4, <2>1, <2>2, <2>3 DEF AnswerIsAwaited, Respond
  <2>4. CASE q.late = 0
    <3>1. answer' = [answer EXCEPT ![q.cli] = {[kind |-> kind, row |-> row]}]
      BY <1>4, <2>4 DEF Respond
    <3>. SUFFICES ASSUME NEW d \in Client, NEW a \in answer'[d]
                  PROVE  /\ inflight[d] # {}
                         /\ \A p \in requests' : p.cli = d => p.late # 0
                         /\ a.kind = "ok" =>
                              \A f \in inflight[d] : <<d, f.entry.rec, f.row.ver>> \in accepted'
      BY <1>1, <2>2 DEF AnswerIsAwaited
    <3>2. CASE d # q.cli
      BY <1>1, <2>1, <3>1, <3>2 DEF AnswerIsAwaited, TypeOK
    <3>3. CASE d = q.cli
      <4>1. a = [kind |-> kind, row |-> row]
        BY <1>1, <3>1, <3>3 DEF TypeOK
      <4>2. /\ inflight[d] # {}
            /\ \A f \in inflight[d] : q.rec = f.entry.rec /\ q.ver = f.row.ver
            /\ \A p \in requests : p.late = 0 /\ p.cli = q.cli => p = q
        BY <2>4, <3>3 DEF LiveIsAwaited
      <4>. QED BY <1>4, <2>1, <3>3, <4>1, <4>2
    <3>. QED BY <3>2, <3>3
  <2>. QED BY <2>2, <2>3, <2>4
<1>5. CASE Deny(q) \/ Refuse(q) \/ Clash(q)
  <2>1. PICK kind \in {"conflict", "error"}, row \in {NoServerRow, server[q.rec]} :
          Respond(q, kind, row)
    BY <1>5 DEF Deny, Refuse, Clash
  <2>. QED BY <1>2, <1>4, <2>1
<1>6. CASE Commit(q)
  <2>1. PICK row : Respond(q, "ok", row)
    BY <1>6 DEF Commit
  <2>2. <<q.cli, q.rec, q.ver>> \in accepted'
    BY <1>6 DEF Commit, Change
  <2>. QED BY <1>2, <1>4, <2>1, <2>2
<1>. QED BY <1>3, <1>5, <1>6 DEF ServerStep

(* SyncInv is inductive.                                                   *)
LEMMA NextSyncInv == SyncInv /\ [Next]_vars => SyncInv'
<1>. SUFFICES ASSUME SyncInv, [Next]_vars
              PROVE  SyncInv'
  OBVIOUS
<1>1. TypeOK'
  BY NextTypeOK DEF SyncInv
<1>. QED BY <1>1, AppSyncInv, TakeItemSyncInv, ReceiveOkSyncInv, ReceiveOtherSyncInv,
            AbandonSyncInv, QuietSyncInv, ServerSyncInv DEF Next, FlushStep

(* No change that upsert enqueued is ever lost, however many devices,      *)
(* records and server workers there are, whatever the clocks say, and      *)
(* whatever is lost, late or crashes: it stays queued until the server has *)
(* committed it or a later version of it.                                  *)
THEOREM NoChangeLost == Spec => []NoLostSync
<1>1. SyncInv => NoLostSync
  BY DEF SyncInv
<1>. QED BY <1>1, InitSyncInv, NextSyncInv, PTL DEF Spec

-----------------------------------------------------------------------------
(* A recorded conflict is a real one.                                      *)

(* A request the client waits for carries the stamp of the row it sent.    *)
SentStamp ==
  \A q \in requests : q.late = 0 => \A f \in inflight[q.cli] : q.ts = f.row.ts

(* A row that is not the REST endpoint's is a change the server committed, *)
(* whatever the session wrote of it.                                       *)
Committed(r, row) == row.cli # Rest => <<row.cli, r, row.ver>> \in accepted

ServerCommitted == \A r \in Record : Committed(r, server[r])

(* One answer at a time; a 409 carries a committed row, stamped later than *)
(* the row sent.                                                           *)
RefusalIsNewer ==
  \A c \in Client :
    /\ \A a, b \in answer[c] : a = b
    /\ \A a \in answer[c], f \in inflight[c] :
         a.kind = "conflict" => a.row.ts > f.row.ts /\ Committed(f.entry.rec, a.row)

ReviewInv == SyncInv /\ SentStamp /\ ServerCommitted /\ RefusalIsNewer /\ ConflictIsGenuine

(* Nothing is sent, stored or refused at the start.                        *)
LEMMA InitReviewInv == Init => ReviewInv
  BY InitSyncInv DEF Init, ReviewInv, SentStamp, ServerCommitted, Committed, NoServerRow,
                     RefusalIsNewer, ConflictIsGenuine

(* What the server committed it has committed for good.                    *)
LEMMA CommittedStays ==
  ASSUME accepted \subseteq accepted', NEW r, NEW row, Committed(r, row)
  PROVE  Committed(r, row)'
  BY DEF Committed

(* The item that is sent next finds no answer waiting.                     *)
LEMMA TakeItemReviewInv ==
  ASSUME ReviewInv, NEW c \in Client, NEW e \in todo[c], TakeItem(c, e)
  PROVE  SentStamp' /\ ServerCommitted' /\ RefusalIsNewer' /\ ConflictIsGenuine'
<1>. USE DEF ReviewInv, SyncInv
<1>. DEFINE row == local[c][e.rec]
            put == [cli |-> c, rec |-> e.rec, ver |-> row.ver, ts |-> row.ts,
                    auth |-> (token[c] = "valid"), late |-> 0, st |-> "sent",
                    seen |-> NoServerRow]
            flight == [entry |-> e, row |-> row]
<1>1. /\ inflight[c] = {} /\ UNCHANGED <<answer, server, accepted, conflicts>>
      /\ \/ UNCHANGED <<inflight, requests>>
         \/ /\ inflight' = [inflight EXCEPT ![c] = {flight}]
            /\ requests' = requests \cup {put}
  BY DEF TakeItem
<1>2. answer[c] = {} /\ \A q \in requests : q.late = 0 => q.cli # c
  BY <1>1 DEF AnswerIsAwaited, LiveIsAwaited
<1>3. SentStamp'
  <2>. SUFFICES ASSUME NEW q \in requests', q.late = 0, NEW f \in inflight'[q.cli]
                PROVE  q.ts = f.row.ts
    BY DEF SentStamp
  <2>1. CASE q \in requests
    BY <1>1, <1>2, <2>1 DEF SentStamp, TypeOK, Request
  <2>2. CASE q \notin requests
    <3>1. q = put /\ inflight' = [inflight EXCEPT ![c] = {flight}]
      BY <1>1, <2>2
    <3>2. q.cli = c /\ q.ts = row.ts
      BY <3>1
    <3>3. f = flight
      BY <3>1, <3>2 DEF TypeOK
    <3>. QED BY <3>2, <3>3
  <2>. QED BY <2>1, <2>2
<1>4. RefusalIsNewer'
  <2>1. \A d \in Client \ {c} : inflight'[d] = inflight[d]
    BY <1>1 DEF TypeOK
  <2>. HIDE DEF put, flight
  <2>2. ASSUME NEW d \in Client
        PROVE  /\ \A a, b \in answer[d] : a = b
               /\ \A a \in answer[d], f \in inflight'[d] :
                    a.kind = "conflict" => a.row.ts > f.row.ts /\ Committed(f.entry.rec, a.row)
    BY <1>2, <2>1 DEF RefusalIsNewer
  <2>. QED BY <1>1, <2>2 DEF RefusalIsNewer, Committed
<1>. QED BY <1>1, <1>3, <1>4 DEF ServerCommitted, Committed, ConflictIsGenuine

(* A conflict that is recorded is the 409 that came, and the row sent.     *)
LEMMA ReceiveReviewInv ==
  ASSUME ReviewInv, NEW c \in Client,
         ReceiveOk(c) \/ ReceiveConflict(c) \/ ReceiveError(c)
  PROVE  SentStamp' /\ ServerCommitted' /\ RefusalIsNewer' /\ ConflictIsGenuine'
<1>. USE DEF ReviewInv, SyncInv
<1>1. /\ answer' = [answer EXCEPT ![c] = {}]
      /\ inflight' = [inflight EXCEPT ![c] = {}]
      /\ UNCHANGED <<requests, server, accepted>>
  BY DEF ReceiveOk, ReceiveConflict, ReceiveError, Receive, serverVars
<1>2. SentStamp' /\ ServerCommitted' /\ RefusalIsNewer'
  BY <1>1 DEF SentStamp, ServerCommitted, Committed, RefusalIsNewer, TypeOK, Request
<1>3. CASE ReceiveOk(c) \/ ReceiveError(c)
  <2>1. conflicts' = conflicts
    BY <1>3 DEF ReceiveOk, ReceiveError
  <2>. QED BY <1>1, <1>2, <2>1 DEF ConflictIsGenuine
<1>4. CASE ReceiveConflict(c)
  <2>. DEFINE new == {[rec |-> f.entry.rec, local |-> f.row, remote |-> a.row] :
                        f \in inflight[c], a \in answer[c]}
  <2>1. conflicts' = [conflicts EXCEPT ![c] = @ \cup new]
    BY <1>4 DEF ReceiveConflict
  <2>2. \A a \in answer[c] : a.kind = "conflict"
    <3>1. PICK a \in answer[c] : a.kind = "conflict"
      BY <1>4 DEF ReceiveConflict, Receive
    <3>. QED BY <3>1 DEF RefusalIsNewer
  <2>3. \A k \in new : k.remote.ts > k.local.ts /\ Committed(k.rec, k.remote)
    BY <2>2 DEF RefusalIsNewer
  <2>4. \A d \in Client : \A k \in conflicts'[d] : k \in conflicts[d] \/ k \in new
    <3>. HIDE DEF new
    <3>. QED BY <2>1 DEF TypeOK
  <2>. HIDE DEF new
  <2>5. ConflictIsGenuine'
    BY <1>1, <2>3, <2>4 DEF ConflictIsGenuine, Committed, Change
  <2>. QED BY <1>2, <2>5
<1>. QED BY <1>3, <1>4

(* A client that gives up awaits nothing.                                  *)
LEMMA AbandonReviewInv ==
  ASSUME ReviewInv, NEW c \in Client, PutFails(c) \/ SyncCrash(c)
  PROVE  SentStamp' /\ ServerCommitted' /\ RefusalIsNewer' /\ ConflictIsGenuine'
<1>. USE DEF ReviewInv, SyncInv
<1>1. /\ answer' = [answer EXCEPT ![c] = {}]
      /\ inflight' = [inflight EXCEPT ![c] = {}]
      /\ UNCHANGED <<server, accepted, conflicts>>
  BY DEF PutFails, SyncCrash, clientVars
<1>2. \A q \in requests' : q \in requests \/ q.late = faults + 1
  BY DEF PutFails, SyncCrash, Abandon, Live, TypeOK, Request
<1>3. faults + 1 # 0
  BY DEF TypeOK
<1>4. SentStamp'
  BY <1>1, <1>2, <1>3 DEF SentStamp, TypeOK, Request
<1>. QED BY <1>1, <1>4 DEF ServerCommitted, Committed, RefusalIsNewer, ConflictIsGenuine, TypeOK

(* The server answers a request with what its row was at that moment.      *)
LEMMA RespondReviewInv ==
  ASSUME ReviewInv, NEW q \in requests, NEW kind, NEW row, Respond(q, kind, row),
         inflight' = inflight, accepted \subseteq accepted',
         kind = "conflict" => row.ts > q.ts /\ Committed(q.rec, row)
  PROVE  SentStamp' /\ RefusalIsNewer'
<1>. USE DEF ReviewInv, SyncInv
<1>1. requests' = requests \ {q} /\ q.cli \in Client
  BY DEF Respond, TypeOK, Request
<1>2. SentStamp'
  BY <1>1 DEF SentStamp
<1>3. CASE q.late # 0
  BY <1>2, <1>3, CommittedStays DEF Respond, RefusalIsNewer
<1>4. CASE q.late = 0
  <2>1. answer' = [answer EXCEPT ![q.cli] = {[kind |-> kind, row |-> row]}]
    BY <1>4 DEF Respond
  <2>2. /\ answer'[q.cli] = {[kind |-> kind, row |-> row]}
        /\ \A d \in Client \ {q.cli} : answer'[d] = answer[d]
    BY <1>1, <2>1 DEF TypeOK
  <2>3. \A f \in inflight[q.cli] : f.entry.rec = q.rec /\ f.row.ts = q.ts
    BY <1>4 DEF LiveIsAwaited, SentStamp
  <2>. SUFFICES ASSUME NEW d \in Client
                PROVE  /\ \A a, b \in answer'[d] : a = b
                       /\ \A a \in answer'[d], f \in inflight[d] :
                            a.kind = "conflict" =>
                              a.row.ts > f.row.ts /\ Committed(f.entry.rec, a.row)'
    BY <1>2 DEF RefusalIsNewer, Committed
  <2>4. CASE d # q.cli
    BY <2>2, <2>4, CommittedStays DEF RefusalIsNewer
  <2>5. CASE d = q.cli
    <3>1. kind = "conflict" => row.ts > q.ts /\ Committed(q.rec, row)'
      BY CommittedStays
    <3>2. \A a \in answer'[d] : a.kind = kind /\ a.row = row
      BY <2>2, <2>5
    <3>. QED BY <2>2, <2>3, <2>5, <3>1, <3>2 DEF Committed
  <2>. QED BY <2>4, <2>5
<1>. QED BY <1>3, <1>4

(* Only committed rows get into the table.  Of two requests that were both *)
(* admitted, the one whose session writes no column but the stamp leaves   *)
(* the other's row.                                                        *)
LEMMA ServerReviewInv ==
  ASSUME ReviewInv, NEW q \in requests, ServerStep(q)
  PROVE  SentStamp' /\ ServerCommitted' /\ RefusalIsNewer' /\ ConflictIsGenuine'
<1>. USE DEF ReviewInv, SyncInv
<1>1. /\ q.rec \in Record /\ q.cli \in Client /\ UNCHANGED <<inflight, conflicts>>
      /\ accepted \subseteq accepted'
  BY DEF ServerStep, Deny, Refuse, Admit, Clash, Commit, clientVars, TypeOK, Request
<1>2. ConflictIsGenuine'
  BY <1>1 DEF ConflictIsGenuine
<1>3. CASE Admit(q)
  <2>. DEFINE p == [q EXCEPT !.st = "checked", !.seen = server[q.rec]]
  <2>1. p.cli = q.cli /\ p.ts = q.ts /\ p.late = q.late
    BY DEF TypeOK, Request
  <2>2. requests' = (requests \ {q}) \cup {p} /\ UNCHANGED <<server, answer, accepted>>
    BY <1>3 DEF Admit
  <2>. HIDE DEF p
  <2>. QED BY <1>1, <1>2, <2>1, <2>2
           DEF SentStamp, ServerCommitted, Committed, RefusalIsNewer
<1>4. CASE Deny(q) \/ Clash(q)
  <2>1. Respond(q, "error", NoServerRow) /\ UNCHANGED <<server, accepted>>
    BY <1>4 DEF Deny, Clash
  <2>. QED BY <1>1, <1>2, <2>1, RespondReviewInv DEF ServerCommitted, Committed
<1>5. CASE Refuse(q)
  <2>1. /\ Respond(q, "conflict", server[q.rec]) /\ UNCHANGED <<server, accepted>>
        /\ server[q.rec].ts > q.ts /\ Committed(q.rec, server[q.rec])
    BY <1>1, <1>5 DEF Refuse, Newer, ServerCommitted
  <2>. QED BY <1>1, <1>2, <2>1, RespondReviewInv DEF ServerCommitted, Committed
<1>6. CASE Commit(q)
  <2>. DEFINE same == q.seen.ver # 0 /\ q.seen.cli = q.cli /\ q.seen.ver = q.ver
              new  == [cli |-> q.cli, ver |-> q.ver, ts |-> now]
              row  == IF same THEN [server[q.rec] EXCEPT !.ts = now] ELSE new
  <2>1. /\ server' = [server EXCEPT ![q.rec] = row] /\ Respond(q, "ok", row)
        /\ accepted' = accepted \cup {<<q.cli, q.rec, q.ver>>}
    BY <1>6 DEF Commit, Change
  <2>2. row.cli # Rest => <<row.cli, q.rec, row.ver>> \in accepted'
    <3>1. CASE same
      <4>1. row.cli = server[q.rec].cli /\ row.ver = server[q.rec].ver
        BY <1>1, <3>1 DEF TypeOK, ServerRow
      <4>2. Committed(q.rec, server[q.rec])
        BY <1>1 DEF ServerCommitted
      <4>. QED BY <1>1, <4>1, <4>2 DEF Committed
    <3>2. CASE ~same
      BY <2>1, <3>2 DEF Committed
    <3>. QED BY <3>1, <3>2
  <2>. HIDE DEF row
  <2>3. ServerCommitted'
    <3>. SUFFICES ASSUME NEW r \in Record, server'[r].cli # Rest
                  PROVE  <<server'[r].cli, r, server'[r].ver>> \in accepted'
      BY DEF ServerCommitted, Committed
    <3>1. CASE r = q.rec
      <4>1. server'[r] = row
        BY <2>1, <3>1 DEF TypeOK
      <4>. QED BY <2>2, <3>1, <4>1
    <3>2. CASE r # q.rec
      <4>1. server'[r] = server[r]
        BY <2>1, <3>2 DEF TypeOK
      <4>. QED BY <1>1, <4>1 DEF ServerCommitted, Committed
    <3>. QED BY <3>1, <3>2
  <2>. QED BY <1>1, <1>2, <2>1, <2>3, RespondReviewInv
<1>. QED BY <1>3, <1>4, <1>5, <1>6 DEF ServerStep

(* ReviewInv is inductive.                                                 *)
LEMMA NextReviewInv == ReviewInv /\ [Next]_vars => ReviewInv'
<1>. SUFFICES ASSUME ReviewInv, [Next]_vars PROVE ReviewInv'
  OBVIOUS
<1>1. SyncInv'
  BY NextSyncInv DEF ReviewInv
<1>2. ASSUME NEW r \in Record, RestPut(r) PROVE ReviewInv'
  <2>1. /\ UNCHANGED <<inflight, answer, requests, accepted, conflicts>>
        /\ server' = [server EXCEPT ![r] = [cli |-> Rest, ver |-> restWrites + 1, ts |-> now]]
    BY <1>2 DEF RestPut, clientVars, flushVars
  <2>2. ServerCommitted'
    BY <2>1 DEF ReviewInv, SyncInv, TypeOK, ServerCommitted, Committed
  <2>. QED BY <1>1, <2>1, <2>2 DEF ReviewInv, SentStamp, RefusalIsNewer, Committed,
                                   ConflictIsGenuine
<1>3. CASE \/ Tick \/ UNCHANGED vars
           \/ \E c \in Client : \/ \E r \in Record : UpsertRow(c, r)
                                \/ Enqueue(c) \/ AppCrash(c)
                                \/ Authenticate(c) \/ TokenExpires(c)
                                \/ StartFlush(c) \/ FinishFlush(c)
  <2>1. UNCHANGED <<inflight, answer, requests, server, accepted, conflicts>>
    BY <1>3 DEF Tick, vars, UpsertRow, Enqueue, AppCrash, Authenticate, TokenExpires, StartFlush,
                FinishFlush, clientVars, flushVars, serverVars
  <2>. QED BY <1>1, <2>1 DEF ReviewInv, SentStamp, ServerCommitted, RefusalIsNewer, Committed,
                             ConflictIsGenuine
<1>. QED BY <1>1, <1>2, <1>3, TakeItemReviewInv, ReceiveReviewInv, AbandonReviewInv,
            ServerReviewInv DEF ReviewInv, Next, FlushStep

(* No technician is asked to review a conflict that was none: the other    *)
(* row was committed, and later than the one sent, however answers, time-  *)
(* outs and the server's workers interleave.                               *)
THEOREM ConflictTheorem == Spec => []ConflictIsGenuine
<1>1. ReviewInv => ConflictIsGenuine
  BY DEF ReviewInv
<1>. QED BY <1>1, InitReviewInv, NextReviewInv, PTL DEF Spec

-----------------------------------------------------------------------------
(* The sync system implements SyncContract.                                *)

(* What the contract's steps need beside SyncInv: versions stay within the *)
(* bound, a change is promised once, and one PUT is awaited at a time.     *)
RefineInv ==
  /\ SyncInv
  /\ \A c \in Client, r \in Record : local[c][r].ver <= MaxVer
  /\ \A q \in requests : q.ver <= MaxVer
  /\ \A p \in promised : p[3] <= local[p[1]][p[2]].ver
  /\ \A c \in Client : \A e \in upserting[c] : Change(c, e) \notin promised
  /\ \A c \in Client : \A f, g \in inflight[c] : f = g

(* At the start nobody waits for anything.                                 *)
LEMMA InitRefineInv == Init => RefineInv
  BY InitSyncInv, ConstantsOK DEF Init, RefineInv, NoRow

(* RefineInv is inductive.                                                 *)
LEMMA NextRefineInv == RefineInv /\ [Next]_vars => RefineInv'
<1>. SUFFICES ASSUME RefineInv, [Next]_vars
              PROVE  RefineInv'
  OBVIOUS
<1>. USE DEF RefineInv
<1>1. SyncInv' /\ TypeOK /\ TypeOK'
  BY NextSyncInv DEF SyncInv
<1>2. ASSUME NEW c \in Client, NEW r \in Record, UpsertRow(c, r)
      PROVE  RefineInv'
  <2>. DEFINE row == [ver |-> local[c][r].ver + 1, ts |-> now + Skew[c]]
  <2>1. /\ local' = [local EXCEPT ![c][r] = row]
        /\ upserting' = [upserting EXCEPT ![c] = {[rec |-> r, ver |-> row.ver]}]
        /\ local[c][r].ver < MaxVer
        /\ UNCHANGED <<inflight, requests, promised>>
    BY <1>2 DEF UpsertRow, flushVars, serverVars
  <2>2. \A d \in Client, s \in Record : local[d][s].ver \in Nat
    BY <1>1 DEF TypeOK, Row
  <2>3. \A d \in Client, s \in Record : local'[d][s].ver <= MaxVer
    BY <1>1, <2>1, <2>2, ConstantsOK DEF TypeOK
  <2>4. \A d \in Client, s \in Record : local[d][s].ver <= local'[d][s].ver
    BY <1>1, <2>1, <2>2 DEF TypeOK
  <2>5. \A p \in promised' : p[3] <= local'[p[1]][p[2]].ver
    <3>. SUFFICES ASSUME NEW p \in promised
                  PROVE  p[3] <= local'[p[1]][p[2]].ver
      BY <2>1
    <3>1. p[1] \in Client /\ p[2] \in Record /\ p[3] \in Nat
      BY <1>1 DEF TypeOK
    <3>2. local'[p[1]][p[2]].ver \in Nat
      BY <1>1, <3>1 DEF TypeOK, Row
    <3>. QED BY <3>1, <3>2, <2>2, <2>4
  <2>6. \A d \in Client : \A e \in upserting'[d] : Change(d, e) \notin promised'
    <3>1. Change(c, [rec |-> r, ver |-> row.ver]) \notin promised
      BY <2>2 DEF Change
    <3>. QED BY <1>1, <2>1, <3>1 DEF TypeOK
  <2>. QED BY <1>1, <2>1, <2>3, <2>5, <2>6
<1>3. ASSUME NEW c \in Client, Enqueue(c)
      PROVE  RefineInv'
  <2>1. PICK e \in upserting[c] :
          /\ upserting' = [upserting EXCEPT ![c] = {}]
          /\ promised' = promised \cup {Change(c, e)}
          /\ UNCHANGED <<local, inflight, requests>>
    BY <1>3 DEF Enqueue, flushVars, serverVars
  <2>2. e.ver <= local[c][e.rec].ver
    BY DEF SyncInv, RowBeforeQueue
  <2>3. \A p \in promised' : p[3] <= local'[p[1]][p[2]].ver
    BY <2>1, <2>2 DEF Change
  <2>4. \A d \in Client : \A x \in upserting'[d] : Change(d, x) \notin promised'
    <3>. SUFFICES ASSUME NEW d \in Client, NEW x \in upserting'[d]
                  PROVE  Change(d, x) \notin promised'
      OBVIOUS
    <3>1. d # c /\ x \in upserting[d]
      BY <1>1, <2>1 DEF TypeOK
    <3>2. Change(d, x) # Change(c, e)
      BY <3>1 DEF Change
    <3>. QED BY <2>1, <3>1, <3>2
  <2>. QED BY <1>1, <2>1, <2>3, <2>4
<1>4. ASSUME NEW c \in Client, NEW e \in todo[c], TakeItem(c, e)
      PROVE  RefineInv'
  <2>1. /\ \/ inflight' = inflight
           \/ inflight' = [inflight EXCEPT ![c] = {[entry |-> e, row |-> local[c][e.rec]]}]
        /\ \A q \in requests' : q \in requests \/ q.ver = local[c][e.rec].ver
        /\ UNCHANGED <<local, upserting, promised>>
    BY <1>4 DEF TakeItem
  <2>2. local[c][e.rec].ver <= MaxVer
    BY <1>1 DEF TypeOK, Entry
  <2>3. \A q \in requests' : q.ver <= MaxVer
    BY <2>1, <2>2
  <2>4. \A d \in Client : \A f, g \in inflight'[d] : f = g
    <3>1. CASE inflight' = inflight
      BY <3>1
    <3>2. CASE inflight' # inflight
      <4>1. PICK x : inflight' = [inflight EXCEPT ![c] = {x}]
        BY <2>1, <3>2
      <4>. QED BY <1>1, <4>1 DEF TypeOK
    <3>. QED BY <3>1, <3>2
  <2>. QED BY <1>1, <2>1, <2>3, <2>4
<1>5. ASSUME NEW c \in Client,
             ReceiveOk(c) \/ ReceiveConflict(c) \/ ReceiveError(c)
      PROVE  RefineInv'
  <2>1. /\ inflight' = [inflight EXCEPT ![c] = {}]
        /\ UNCHANGED <<local, upserting, promised, requests>>
    BY <1>5 DEF ReceiveOk, ReceiveConflict, ReceiveError, Receive, serverVars
  <2>2. \A d \in Client : \A f, g \in inflight'[d] : f = g
    BY <1>1, <2>1 DEF TypeOK
  <2>. QED BY <1>1, <2>1, <2>2
<1>6. ASSUME NEW c \in Client, PutFails(c) \/ SyncCrash(c)
      PROVE  RefineInv'
  <2>1. /\ inflight' = [inflight EXCEPT ![c] = {}]
        /\ UNCHANGED <<local, upserting, promised>>
    BY <1>6 DEF PutFails, SyncCrash, clientVars
  <2>2. \A q \in requests' : \E p \in requests : q.ver = p.ver
    BY <1>1, <1>6 DEF PutFails, SyncCrash, Abandon, Live, TypeOK, Request
  <2>. QED BY <1>1, <2>1, <2>2 DEF TypeOK
<1>7. ASSUME NEW q \in requests, ServerStep(q)
      PROVE  RefineInv'
  <2>1. UNCHANGED <<local, upserting, promised, inflight>>
    BY <1>7 DEF ServerStep, clientVars
  <2>2. \A p \in requests' : p \in requests \/ p.ver = q.ver
    <3>1. CASE Admit(q)
      <4>1. [q EXCEPT !.st = "checked", !.seen = server[q.rec]].ver = q.ver
        BY <1>1 DEF TypeOK, Request
      <4>. QED BY <3>1, <4>1 DEF Admit
    <3>2. CASE Deny(q) \/ Refuse(q) \/ Clash(q) \/ Commit(q)
      BY <3>2 DEF Deny, Refuse, Clash, Commit, Respond
    <3>. QED BY <1>7, <3>1, <3>2 DEF ServerStep
  <2>. QED BY <1>1, <2>1, <2>2
<1>8. ASSUME \/ \E c \in Client : \/ AppCrash(c) \/ Authenticate(c) \/ TokenExpires(c)
                                  \/ StartFlush(c) \/ FinishFlush(c)
             \/ Tick
             \/ \E r \in Record : RestPut(r)
             \/ UNCHANGED vars
      PROVE  RefineInv'
  <2>1. /\ UNCHANGED <<local, inflight, requests, promised>>
        /\ \A d \in Client : upserting'[d] \subseteq upserting[d]
    BY <1>1, <1>8 DEF AppCrash, Authenticate, TokenExpires, StartFlush, FinishFlush, Tick,
                      RestPut, vars, clientVars, flushVars, serverVars, TypeOK
  <2>. QED BY <1>1, <2>1
<1>. QED BY <1>2, <1>3, <1>4, <1>5, <1>6, <1>7, <1>8 DEF Next, FlushStep

(* An empty system maps to an empty contract.                              *)
LEMMA InitRefines == Init => Contract!Init
  BY DEF Init, Contract!Init, Outbox

(* A step that leaves the queues and the history alone is invisible.       *)
LEMMA Stutters ==
  ASSUME UNCHANGED <<queue, promised, accepted>>
  PROVE  UNCHANGED Contract!vars
  BY DEF Contract!vars, Outbox

(* Enqueue promises a change.                                              *)
LEMMA EnqueuePromises ==
  ASSUME RefineInv, RefineInv', NEW c \in Client, Enqueue(c)
  PROVE  Contract!Next
<1>. USE DEF RefineInv, SyncInv
<1>1. PICK e \in upserting[c] :
        /\ queue' = [queue EXCEPT ![c] = @ \cup {e}]
        /\ promised' = promised \cup {Change(c, e)}
        /\ UNCHANGED <<local, accepted>>
  BY DEF Enqueue
<1>. DEFINE a == Change(c, e)
<1>2. e \in Entry /\ e = [rec |-> e.rec, ver |-> e.ver] /\ e.rec \in Record /\ e.ver \in Nat \ {0}
  BY DEF TypeOK, Entry
<1>3. e.ver <= MaxVer
  <2>1. e.ver <= local[c][e.rec].ver /\ local[c][e.rec].ver <= MaxVer
    BY <1>2 DEF RowBeforeQueue
  <2>2. local[c][e.rec].ver \in Nat
    BY <1>2 DEF TypeOK, Row
  <2>. QED BY <1>2, <2>1, <2>2, ConstantsOK
<1>4. a \in Contract!Change
  BY <1>2, <1>3, ConstantsOK DEF Change, Contract!Change
<1>5. Outbox' = Outbox \cup {a}
  <2>1. a \in Outbox'
    BY <1>1, <1>2 DEF Outbox, TypeOK
  <2>2. ASSUME NEW x \in Outbox
        PROVE  x \in Outbox'
    BY <1>1 DEF Outbox, TypeOK
  <2>3. ASSUME NEW x \in Outbox', x # a
        PROVE  x \in Outbox
    BY <1>1, <2>3 DEF Outbox, TypeOK
  <2>. QED BY <2>1, <2>2, <2>3
<1>6. a \notin promised
  OBVIOUS
<1>7. Contract!Promise(a)
  BY <1>1, <1>5, <1>6 DEF Contract!Promise
<1>. QED BY <1>4, <1>7 DEF Contract!Next

(* A commit of the server stores a change.                                 *)
LEMMA CommitStores ==
  ASSUME RefineInv, NEW q \in requests, ServerStep(q), Commit(q)
  PROVE  Contract!Next
<1>. USE DEF RefineInv, SyncInv
<1>1. Change(q.cli, q) \in Contract!Change
  BY ConstantsOK DEF TypeOK, Request, Change, Contract!Change
<1>2. /\ accepted' = accepted \cup {Change(q.cli, q)}
      /\ Outbox' = Outbox
      /\ promised' = promised
  BY DEF Commit, ServerStep, clientVars, Outbox
<1>3. Contract!Store(Change(q.cli, q))
  BY <1>2 DEF Contract!Store
<1>. QED BY <1>1, <1>3 DEF Contract!Next

(* A successful PUT settles the change its item stands for.                *)
LEMMA ReceiveOkSettles ==
  ASSUME RefineInv, RefineInv', NEW c \in Client, ReceiveOk(c)
  PROVE  Contract!Next \/ UNCHANGED Contract!vars
<1>. USE DEF RefineInv, SyncInv
<1>1. PICK r \in answer[c] : r.kind = "ok"
  BY DEF ReceiveOk, Receive
<1>2. PICK f \in inflight[c] : TRUE
  BY <1>1 DEF AnswerIsAwaited
<1>3. inflight[c] = {f}
  OBVIOUS
<1>4. /\ queue' = [queue EXCEPT ![c] = @ \ {f.entry}]
      /\ UNCHANGED <<promised, accepted>>
  <2>1. {g.entry : g \in inflight[c]} = {f.entry}
    BY <1>3
  <2>. QED BY <2>1 DEF ReceiveOk, Receive
<1>5. CASE f.entry \notin queue[c]
  <2>1. queue' = queue
    BY <1>4, <1>5 DEF TypeOK
  <2>. QED BY <1>4, <2>1, Stutters
<1>6. CASE f.entry \in queue[c]
  <2>. DEFINE e == f.entry
              a == Change(c, e)
              b == <<c, e.rec, f.row.ver>>
  <2>1. /\ e \in Entry /\ e = [rec |-> e.rec, ver |-> e.ver]
        /\ e.rec \in Record /\ e.ver \in Nat \ {0} /\ f.row.ver \in Nat
    BY DEF TypeOK, Flight, Entry, Row
  <2>2. b \in accepted /\ e.ver <= f.row.ver
    BY <1>1 DEF AnswerIsAwaited, SentCoversItem
  <2>3. Contract!Covers(b, a)
    BY <2>1, <2>2 DEF Contract!Covers, Change
  <2>4. a \in Outbox
    BY <1>6 DEF Outbox
  <2>5. Outbox' = Outbox \ {a}
    <3>1. ASSUME NEW x \in Outbox'
          PROVE  x \in Outbox /\ x # a
      <4>0. PICK d \in Client : \E g \in queue'[d] : x = Change(d, g)
        BY DEF Outbox
      <4>1. PICK g \in queue'[d] : x = Change(d, g)
        BY <4>0
      <4>2. g \in queue[d] /\ (d = c => g # e)
        BY <1>4, <4>1 DEF TypeOK
      <4>3. g = [rec |-> g.rec, ver |-> g.ver]
        BY <4>2 DEF TypeOK, Entry
      <4>4. x \in Outbox
        BY <4>1, <4>2 DEF Outbox
      <4>5. x # a
        BY <2>1, <4>1, <4>2, <4>3 DEF Change
      <4>. QED BY <4>4, <4>5
    <3>2. ASSUME NEW x \in Outbox, x # a
          PROVE  x \in Outbox'
      <4>0. PICK d \in Client : \E g \in queue[d] : x = Change(d, g)
        BY DEF Outbox
      <4>1. PICK g \in queue[d] : x = Change(d, g)
        BY <4>0
      <4>2. g \in queue'[d]
        BY <1>4, <3>2, <4>1 DEF TypeOK
      <4>. QED BY <4>1, <4>2 DEF Outbox
    <3>. QED BY <3>1, <3>2
  <2>6. a \in Contract!Change
    <3>1. e.ver <= local[c][e.rec].ver /\ local[c][e.rec].ver <= MaxVer
      BY <1>6, <2>1 DEF RowBeforeQueue
    <3>2. local[c][e.rec].ver \in Nat
      BY <2>1 DEF TypeOK, Row
    <3>3. e.ver <= MaxVer
      BY <2>1, <3>1, <3>2, ConstantsOK
    <3>. QED BY <2>1, <3>3, ConstantsOK DEF Change, Contract!Change
  <2>7. Contract!Settle(a)
    BY <1>4, <2>2, <2>3, <2>4, <2>5 DEF Contract!Settle
  <2>. QED BY <2>6, <2>7 DEF Contract!Next
<1>. QED BY <1>5, <1>6

(* Every step of the sync system is a step of the contract, or invisible.  *)
LEMMA NextRefines ==
  RefineInv /\ RefineInv' /\ [Next]_vars => [Contract!Next]_(Contract!vars)
<1>. SUFFICES ASSUME RefineInv, RefineInv', [Next]_vars
              PROVE  Contract!Next \/ UNCHANGED Contract!vars
  OBVIOUS
<1>1. ASSUME NEW c \in Client, NEW e \in todo[c], TakeItem(c, e)
      PROVE  UNCHANGED Contract!vars
  <2>1. local[c][e.rec].ver # 0
    BY DEF RefineInv, SyncInv, RowBeforeQueue, TypeOK, Entry, Row
  <2>. QED BY <1>1, <2>1, Stutters DEF TakeItem
<1>2. ASSUME NEW q \in requests, ServerStep(q)
      PROVE  Contract!Next \/ UNCHANGED Contract!vars
  <2>1. CASE Commit(q)
    BY <1>2, <2>1, CommitStores
  <2>2. CASE Deny(q) \/ Refuse(q) \/ Admit(q) \/ Clash(q)
    BY <1>2, <2>2, Stutters DEF ServerStep, Deny, Refuse, Admit, Clash, clientVars
  <2>. QED BY <1>2, <2>1, <2>2 DEF ServerStep
<1>3. ASSUME NEW c \in Client, Enqueue(c) \/ ReceiveOk(c)
      PROVE  Contract!Next \/ UNCHANGED Contract!vars
  BY <1>3, EnqueuePromises, ReceiveOkSettles
<1>4. ASSUME NEW c \in Client,
             \/ \E r \in Record : UpsertRow(c, r)
             \/ AppCrash(c) \/ Authenticate(c) \/ TokenExpires(c) \/ StartFlush(c)
             \/ ReceiveConflict(c) \/ ReceiveError(c) \/ FinishFlush(c)
             \/ PutFails(c) \/ SyncCrash(c)
      PROVE  UNCHANGED Contract!vars
  <2>1. UNCHANGED <<queue, promised, accepted>>
    BY <1>4 DEF UpsertRow, AppCrash, Authenticate, TokenExpires, StartFlush, ReceiveConflict,
                ReceiveError, Receive, FinishFlush, PutFails, SyncCrash, clientVars
  <2>. QED BY <2>1, Stutters
<1>5. ASSUME Tick \/ (\E r \in Record : RestPut(r)) \/ UNCHANGED vars
      PROVE  UNCHANGED Contract!vars
  <2>1. UNCHANGED <<queue, promised, accepted>>
    BY <1>5 DEF Tick, RestPut, vars, clientVars
  <2>. QED BY <2>1, Stutters
<1>. QED BY <1>1, <1>2, <1>3, <1>4, <1>5 DEF Next, FlushStep

(* The whole of the sync system, with its crashes, losses and races, is an *)
(* implementation of the abstract queue: the steps of SyncContract are all *)
(* that can be seen of it from outside.                                    *)
THEOREM SyncImplementsContract == Spec => ImplementsContract
  BY InitRefineInv, NextRefineInv, InitRefines, NextRefines, PTL
     DEF Spec, Contract!Spec, ImplementsContract
(* The contract is strong enough: under it no promised change is lost, and *)
(* so none is in whatever implements it.                                   *)
THEOREM ContractLosesNothing == Contract!Spec => []Contract!NothingLost
<1>. USE DEF Contract!NothingLost
<1>1. Contract!Init => Contract!NothingLost
  BY DEF Contract!Init
<1>2. Contract!NothingLost /\ [Contract!Next]_(Contract!vars) => Contract!NothingLost'
  <2>. SUFFICES ASSUME Contract!NothingLost, [Contract!Next]_(Contract!vars)
                PROVE  Contract!NothingLost'
    OBVIOUS
  <2>1. ASSUME NEW a \in Contract!Change, Contract!Promise(a)
        PROVE  Contract!NothingLost'
    BY <2>1 DEF Contract!Promise
  <2>2. ASSUME NEW a \in Contract!Change, Contract!Store(a)
        PROVE  Contract!NothingLost'
    BY <2>2 DEF Contract!Store
  <2>3. ASSUME NEW a \in Contract!Change, Contract!Settle(a)
        PROVE  Contract!NothingLost'
    BY <2>3 DEF Contract!Settle
  <2>4. CASE UNCHANGED Contract!vars
    BY <2>4 DEF Contract!vars
  <2>. QED BY <2>1, <2>2, <2>3, <2>4 DEF Contract!Next
<1>. QED BY <1>1, <1>2, PTL DEF Contract!Spec
=============================================================================
