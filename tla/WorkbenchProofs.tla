-------------------------- MODULE WorkbenchProofs --------------------------
(***************************************************************************)
(* Theorems of Workbench, for any status graphs of the server and of the   *)
(* page, any number of requests of the page in flight and of other         *)
(* clients, when the other clients quote only versions they have seen.     *)
(* That the page does, although nothing in the model makes it, is proved.  *)
(***************************************************************************)
EXTENDS Workbench, RecordServiceProofs

USE PageAssumption, NoneOpenAssumption

-----------------------------------------------------------------------------
(* Types.                                                                  *)

LEMMA CallFields ==
  ASSUME NEW x \in Call
  PROVE  /\ x.kind \in {"load", "loadError", "items", "create", "transition", "saved", "error"}
         /\ x.kind \in {"load", "loadError", "items"} => x.end \in Changes \union {"query"}
         /\ x.kind = "items" => x.items \in Table
         /\ x.kind \in Changes => x.code \in Codes
         /\ x.kind = "transition" => x.item \in ShownRow /\ x.target \in Status
         /\ x.kind = "saved" => x.end \in Changes
BY DEF Call, Changes

LEMMA InCallIsCall ==
  ASSUME PageTypeOK, NEW s \in Slots, NEW kind, InCall(s, kind)
  PROVE  call[s] \in Call /\ call[s].kind = kind
BY DEF PageTypeOK, InCall

LEMMA CallsAreCalls ==
  /\ \A end \in Changes \union {"query"} :
       LoadCall(end) \in Call /\ [kind |-> "loadError", end |-> end] \in Call
  /\ \A end \in Changes \union {"query"}, items \in Table :
       [kind |-> "items", end |-> end, items |-> items] \in Call
  /\ \A c \in Codes : CreateCall(c) \in Call
  /\ \A d \in Pending : TransitionCall(d) \in Call
  /\ \A end \in Changes : [kind |-> "saved", end |-> end] \in Call
  /\ [kind |-> "error"] \in Call
<1>1. \A end \in Changes \union {"query"} :
        LoadCall(end) \in Call /\ [kind |-> "loadError", end |-> end] \in Call
  BY DEF Call, LoadCall
<1>2. \A end \in Changes \union {"query"}, items \in Table :
        [kind |-> "items", end |-> end, items |-> items] \in Call
  BY DEF Call
<1>3. \A c \in Codes : CreateCall(c) \in Call
  BY DEF Call, CreateCall
<1>4. \A d \in Pending : TransitionCall(d) \in Call
  BY DEF Call, TransitionCall, Pending
<1>5. \A end \in Changes : [kind |-> "saved", end |-> end] \in Call
  BY DEF Call
<1>6. [kind |-> "error"] \in Call
  BY DEF Call
<1> QED
  BY <1>1, <1>2, <1>3, <1>4, <1>5, <1>6

\* The rows that the server lists are rows the page can show.
LEMMA ListedIsTable ==
  ASSUME TypeOK, NEW codes
  PROVE  Listed(codes) \in Table
<1>1. \A c \in Codes : Found(c) => rows[c] \in ShownRow
  <2> SUFFICES ASSUME NEW c \in Codes, Found(c) PROVE rows[c] \in ShownRow
    OBVIOUS
  <2>1. rows[c] \in Row /\ rows[c].deleted = FALSE
    BY FoundIsRow DEF Found, Row
  <2> QED
    BY <2>1 DEF Row, ShownRow
<1> QED
  BY <1>1 DEF Listed, Table

\* Setting the chain of one slot.
LEMMA RespondTyped ==
  ASSUME PageTypeOK, NEW s \in Slots, NEW x \in Call \union {NoCall}, Respond(s, x)
  PROVE  call' \in [Slots -> Call \union {NoCall}]
BY DEF PageTypeOK, Respond

LEMMA UserTyped ==
  ASSUME PageTypeOK, NEW s \in Slots, User(s)
  PROVE  PageTypeOK'
<1> USE CallsAreCalls
<1>1. ASSUME NEW x \in Call, Send(s, x) PROVE call' \in [Slots -> Call \union {NoCall}] /\ loading'
  BY <1>1 DEF Send, PageTypeOK
<1>2. CASE Query(s)
  BY <1>1, <1>2 DEF Query, PageTypeOK
<1>3. CASE Confirm(s)
  <2>1. dialog \in Pending
    BY <1>3 DEF Confirm, TransitionOpen, PageTypeOK
  <2> QED
    BY <1>1, <1>3, <2>1 DEF Confirm, PageTypeOK
<1>4. CASE ConfirmCreate(s)
  BY <1>1, <1>4 DEF ConfirmCreate, PageTypeOK
<1> QED
  BY <1>2, <1>3, <1>4 DEF User

LEMMA DialogTyped ==
  ASSUME PageTypeOK, OpenTransition \/ OpenCreate \/ Cancel
  PROVE  PageTypeOK'
<1>1. CASE OpenTransition
  <2>1. PICK c \in Codes : /\ shown[c] # Absent
                           /\ \E t \in Offers[shown[c].status] :
                                dialog' = [code |-> c, item |-> shown[c], target |-> t]
                           /\ UNCHANGED <<vars, shown, loading, call>>
    BY <1>1 DEF OpenTransition
  <2>2. PICK t \in Offers[shown[c].status] :
          dialog' = [code |-> c, item |-> shown[c], target |-> t]
    BY <2>1
  <2>3. shown[c] \in ShownRow
    BY <2>1 DEF PageTypeOK, Table
  <2>4. t \in Status
    BY <2>3 DEF ShownRow
  <2>5. dialog' \in Pending
    BY <2>2, <2>3, <2>4 DEF Pending
  <2> QED
    BY <2>1, <2>5 DEF PageTypeOK
<1>2. CASE OpenCreate \/ Cancel
  BY <1>2 DEF OpenCreate, Cancel, PageTypeOK
<1> QED
  BY <1>1, <1>2

\* What the server works on for a slot is what the slot asked for.
Fits(j, x) ==
  /\ x # NoCall
  /\ \/ x.kind = "create" /\ j.op = "create"
     \/ /\ x.kind = "transition" /\ j.op = "transition"
        /\ j.code = x.code /\ j.expected = x.item.version /\ j.item.status = x.target

JobsFitCalls == \A s \in Slots : job[s] # Idle => Fits(job[s], call[s])

LEMMA ServerTyped ==
  ASSUME TypeOK, PageTypeOK, JobsFitCalls, NEW s \in Slots, Server(s)
  PROVE  PageTypeOK'
<1> USE CallsAreCalls
<1>1. ASSUME UNCHANGED <<shown, loading, dialog>>, NEW x \in Call, Respond(s, x) PROVE PageTypeOK'
  BY <1>1, RespondTyped DEF PageTypeOK
<1>2. ASSUME UNCHANGED pageVars PROVE PageTypeOK'
  BY <1>2 DEF pageVars, PageTypeOK
<1>3. CASE AnswerLoad(s)
  <2>1. call[s].end \in Changes \union {"query"}
    BY <1>3, InCallIsCall, CallFields DEF AnswerLoad
  <2> QED
    BY <1>1, <1>3, <2>1, ListedIsTable DEF AnswerLoad
<1>4. ASSUME Failed(s), UNCHANGED <<shown, loading, dialog>> PROVE PageTypeOK'
  BY <1>1, <1>4 DEF Failed
<1>5. ASSUME Saved(s), job[s] # Idle, UNCHANGED <<shown, loading, dialog>> PROVE PageTypeOK'
  <2>1. call[s].kind \in Changes
    BY <1>5 DEF JobsFitCalls, Fits, Changes
  <2> QED
    BY <1>1, <1>5, <2>1 DEF Saved
<1>6. CASE Handle(s)
  BY <1>2, <1>4, <1>5, <1>6 DEF Handle, Insert, Reply, Writing, InPhase
<1> QED
  BY <1>2, <1>3, <1>4, <1>6 DEF Server, Accept, Reject

LEMMA ReceiveTyped ==
  ASSUME PageTypeOK, NEW s \in Slots, Receive(s)
  PROVE  PageTypeOK'
<1>1. CASE ReceiveLoad(s)
  <2>1. shown' \in Table
    BY <1>1, InCallIsCall, CallFields DEF ReceiveLoad, PageTypeOK
  <2>2. dialog' \in {dialog, NoDialog}
    BY <1>1 DEF ReceiveLoad, AfterChain
  <2>3. call' \in [Slots -> Call \union {NoCall}]
    BY <1>1 DEF ReceiveLoad, Free, PageTypeOK
  <2> QED
    BY <1>1, <2>1, <2>2, <2>3 DEF ReceiveLoad, PageTypeOK
<1>2. CASE ReceiveSaved(s)
  <2>1. LoadCall(call[s].end) \in Call
    BY <1>2, InCallIsCall, CallFields, CallsAreCalls DEF ReceiveSaved
  <2> QED
    BY <1>2, <2>1 DEF ReceiveSaved, PageTypeOK
<1>3. CASE ReceiveError(s)
  BY <1>3 DEF ReceiveError, Free, PageTypeOK
<1> QED
  BY <1>1, <1>2, <1>3 DEF Receive

LEMMA PageKeepsPageTypes ==
  ASSUME TypeOK, PageTypeOK, JobsFitCalls, [PageNext]_allVars
  PROVE  PageTypeOK'
<1>1. CASE UNCHANGED pageVars
  BY <1>1 DEF pageVars, PageTypeOK
<1> QED
  BY <1>1, UserTyped, DialogTyped, ServerTyped, ReceiveTyped DEF PageNext, Other, allVars, pageVars

-----------------------------------------------------------------------------
(* The steps of the page, as steps of the service.                         *)

\* A slot's transition starts like any other client's, on the version that
\* the page quotes.
Starts(s) ==
  /\ InCall(s, "transition")
  /\ BeginTransition(s, call[s].code, call[s].target, call[s].item.version)

\* Apart from that, a step is one of RecordService, or changes none of its
\* variables.
LEMMA PageStepOfService ==
  ASSUME PageTypeOK, [PageNext]_allVars
  PROVE  [Next]_vars \/ \E s \in Slots : Starts(s)
<1>1. ASSUME NEW s \in Slots, User(s) \/ Receive(s) PROVE UNCHANGED vars
  BY <1>1 DEF User, Query, Confirm, ConfirmCreate, Receive, ReceiveLoad, ReceiveSaved, ReceiveError
<1>2. CASE OpenTransition \/ OpenCreate \/ Cancel
  BY <1>2 DEF OpenTransition, OpenCreate, Cancel
<1>3. ASSUME NEW s \in Slots, AnswerLoad(s) \/ Reject(s) PROVE UNCHANGED vars
  BY <1>3 DEF AnswerLoad, Reject
<1>4. ASSUME NEW s \in Slots, Handle(s) PROVE Next
  BY <1>4 DEF Handle, Next, EndRequest
<1>5. ASSUME NEW s \in Slots, Accept(s) PROVE Next \/ Starts(s)
  <2>1. InCall(s, "create") => call[s].code \in Codes
    BY <1>5, InCallIsCall, CallFields DEF Changes
  <2> QED
    BY <1>5, <2>1 DEF Accept, Starts, Next, Begin
<1>6. ASSUME NEW w \in Workers \ Slots, Other(w) PROVE Next
  BY <1>6 DEF Other, Next
<1>7. CASE UNCHANGED allVars
  BY <1>7 DEF allVars, vars
<1> QED
  BY <1>1, <1>2, <1>3, <1>4, <1>5, <1>6, <1>7 DEF PageNext, Server

\* The inductive invariant.
PageSound ==
  TypeOK /\ PageTypeOK /\ JobsFitCalls /\ PendingSavesAreSound /\ ShownIsCurrentOrOutdated

\* The page quotes a version that is stored or outdated, so its job starts
\* as sound as those of the clients that RecordService knows.
LEMMA StartsSound ==
  ASSUME PageSound, NEW s \in Slots, Starts(s)
  PROVE  /\ TypeOK'
         /\ rows' = rows
         /\ \A w \in Workers : w # s => job'[w] = job[w]
         /\ (ReadIsCurrentOrOutdated(job[s]) /\ SavesALegalStep(job[s]))'
         /\ Fits(job'[s], call[s])
<1> DEFINE c == call[s].code
           t == call[s].target
           e == call[s].item.version
           j == EditJob("transition", c, e, [rows[c] EXCEPT !.status = t])
<1> USE SentinelAssumption DEF PageSound
<1>1. /\ call[s] # NoCall /\ call[s].kind = "transition"
      /\ c \in Codes /\ t \in Status /\ call[s].item \in ShownRow /\ e \in Nat
  BY InCallIsCall, CallFields DEF Starts, InCall, Changes, ShownRow
<1>2. rows[c] \in Row /\ Found(c) /\ s \in Workers
  BY <1>1, FoundIsRow DEF Starts, BeginTransition
<1>3. e <= rows[c].version
  BY DEF ShownIsCurrentOrOutdated, CurrentOrOutdated, Starts
<1>4. [rows[c] EXCEPT !.status = t] \in Row
  BY <1>1, <1>2 DEF Row
<1>5. j \in Job
  BY <1>1, <1>2, <1>4, EditJobIsJob
<1>6. Start(s, j) /\ t \in Graph[rows[c].status]
  BY DEF Starts, BeginTransition
<1>7. TypeOK'
  BY <1>2, <1>5, <1>6, StartKeepsTypes
<1>8. /\ job'[s] = j /\ rows' = rows
      /\ \A w \in Workers : w # s => job'[w] = job[w]
  BY <1>2, <1>6 DEF Start, TypeOK, storeVars
<1>9. /\ j.op = "transition" /\ j.code = c /\ j.expected = e /\ j.read = rows[c]
      /\ j.item.version = e + 1 /\ j.item.status = t /\ j.item.data = rows[c].data
      /\ j.item.deleted = rows[c].deleted
  BY <1>1, <1>2 DEF EditJob, Row
<1>10. ReadIsCurrentOrOutdated(job[s])'
  BY <1>2, <1>3, <1>8, <1>9 DEF ReadIsCurrentOrOutdated, Found, Row
<1>11. SavesALegalStep(job[s])'
  BY <1>2, <1>6, <1>8, <1>9 DEF SavesALegalStep, Found
<1>12. Fits(job'[s], call[s])
  BY <1>1, <1>8, <1>9 DEF Fits
<1> QED
  BY <1>7, <1>8, <1>10, <1>11, <1>12

\* What is proved of a step of RecordService holds of a step of the page.
LEMMA PageKeepsService ==
  ASSUME Lookahead = 0, PageSound, [PageNext]_allVars
  PROVE  TypeOK' /\ PendingSavesAreSound' /\ \A c \in Codes : RowStep(c)
<1> USE DEF PageSound
<1>1. CASE [Next]_vars
  BY <1>1, NextKeepsTypes, NextKeepsPendingSavesSound, EveryStepIsARowStep
<1>2. ASSUME NEW s \in Slots, Starts(s)
      PROVE  TypeOK' /\ PendingSavesAreSound' /\ \A c \in Codes : RowStep(c)
  <2>1. /\ TypeOK' /\ rows' = rows
        /\ \A w \in Workers : w # s => job'[w] = job[w]
        /\ (ReadIsCurrentOrOutdated(job[s]) /\ SavesALegalStep(job[s]))'
    BY <1>2, StartsSound
  <2>2. ASSUME NEW v \in Workers, Writing(v, {"update", "transition"})'
        PROVE  (ReadIsCurrentOrOutdated(job[v]) /\ SavesALegalStep(job[v]))'
    <3>1. CASE v = s
      BY <2>1, <3>1
    <3>2. CASE v # s
      BY <2>1, <2>2, <3>2
      DEF PendingSavesAreSound, Writing, InPhase, ReadIsCurrentOrOutdated, SavesALegalStep, Found
    <3> QED
      BY <3>1, <3>2
  <2>3. \A c \in Codes : RowStep(c)
    BY <2>1 DEF RowStep, Kept
  <2> QED
    BY <2>1, <2>2, <2>3 DEF PendingSavesAreSound
<1> QED
  BY <1>1, <1>2, PageStepOfService

LEMMA PageKeepsJobsFit ==
  ASSUME PageSound, [PageNext]_allVars
  PROVE  JobsFitCalls'
<1> USE DEF PageSound
<1> SUFFICES ASSUME NEW s \in Slots, job'[s] # Idle
             PROVE  Fits(job'[s], call'[s])
  BY DEF JobsFitCalls
<1>1. ASSUME job'[s] = job[s], call'[s] = call[s] PROVE Fits(job'[s], call'[s])
  BY <1>1 DEF JobsFitCalls
<1>2. ASSUME job[s] = Idle, job'[s] = job[s] PROVE Fits(job'[s], call'[s])
  BY <1>2
<1>3. ASSUME NEW v \in Slots, v # s, User(v) \/ Server(v) \/ Receive(v)
      PROVE  Fits(job'[s], call'[s])
  <2>1. call'[s] = call[s]
    BY <1>3 DEF User, Query, Confirm, ConfirmCreate, Send, Server, AnswerLoad, Accept, Reject,
       Handle, Saved, Failed, Respond, Receive, ReceiveLoad, ReceiveSaved, ReceiveError, Free,
       pageVars, PageTypeOK
  <2>2. CASE UNCHANGED vars
    BY <1>1, <2>1, <2>2 DEF vars
  <2>3. CASE EndRequest(v) \/ Abort(v)
    BY <1>1, <1>3, <2>1, <2>3, StepChangesOneJob
  <2>4. CASE Accept(v)
    BY <1>1, <1>3, <2>1, <2>4 DEF Accept, BeginCreate, BeginTransition, Start, TypeOK
  <2> QED
    BY <1>3, <2>2, <2>3, <2>4 DEF User, Query, Confirm, ConfirmCreate, Server, AnswerLoad, Reject,
       Handle, EndRequest, Receive, ReceiveLoad, ReceiveSaved, ReceiveError
<1>4. CASE User(s) \/ Receive(s)
  <2>1. job'[s] = job[s] /\ ~\E x \in Changes : InCall(s, x)
    BY <1>4 DEF User, Query, Confirm, ConfirmCreate, Send, Receive, ReceiveLoad, ReceiveSaved,
       ReceiveError, InCall, Changes, vars
  <2>2. ~Fits(job[s], call[s])
    BY <2>1 DEF Fits, InCall, Changes
  <2> QED
    BY <1>2, <2>1, <2>2 DEF JobsFitCalls
<1>5. CASE AnswerLoad(s) \/ Reject(s)
  <2>1. job'[s] = job[s]
    BY <1>5 DEF AnswerLoad, Reject, vars
  <2>2. CASE Reject(s)
    BY <1>2, <2>1, <2>2 DEF Reject
  <2>3. CASE AnswerLoad(s)
    <3>1. ~Fits(job[s], call[s])
      BY <2>3 DEF AnswerLoad, Fits, InCall
    <3> QED
      BY <1>2, <2>1, <3>1 DEF JobsFitCalls
  <2> QED
    BY <1>5, <2>2, <2>3
<1>6. CASE Accept(s)
  <2>1. call'[s] = call[s]
    BY <1>6 DEF Accept, pageVars
  <2>2. ASSUME NEW d \in Data, InCall(s, "create"), BeginCreate(s, call[s].code, d)
        PROVE  Fits(job'[s], call[s])
    BY <2>2 DEF BeginCreate, CreateJob, Start, TypeOK, InCall, Fits
  <2> QED
    BY <1>6, <2>1, <2>2, StartsSound DEF Accept, Starts
<1>7. CASE Handle(s)
  <2>1. CASE Save(s) /\ UNCHANGED pageVars
    <3>1. job[s] \in Job /\ job[s] # Idle
      BY <2>1, BusyHoldsJob DEF Save, Writing, InPhase
    <3>2. job'[s] = [job[s] EXCEPT !.phase = "reply"]
      BY <2>1 DEF Save, GoTo, TypeOK
    <3>3. /\ job'[s].op = job[s].op /\ job'[s].code = job[s].code
          /\ job'[s].expected = job[s].expected /\ job'[s].item = job[s].item
      BY <3>1, <3>2 DEF Job
    <3> QED
      BY <2>1, <3>1, <3>3 DEF JobsFitCalls, Fits, pageVars
  <2>2. CASE Insert(s) \/ Reply(s) \/ Refuse(s) \/ Abort(s)
    BY <2>2 DEF Insert, Reply, Refuse, Abort, Answer, TypeOK
  <2> QED
    BY <1>7, <2>1, <2>2 DEF Handle
<1>8. CASE OpenTransition \/ OpenCreate \/ Cancel \/ UNCHANGED allVars
  BY <1>1, <1>8 DEF OpenTransition, OpenCreate, Cancel, vars, allVars
<1>9. ASSUME NEW w \in Workers \ Slots, Other(w) PROVE Fits(job'[s], call'[s])
  BY <1>1, <1>9, StepChangesOneJob DEF Other, pageVars
<1> QED
  BY <1>3, <1>4, <1>5, <1>6, <1>7, <1>8, <1>9 DEF PageNext, Server

-----------------------------------------------------------------------------
(* The page's copies of rows.                                              *)

\* The stored row moves to later versions only.
LEMMA RowStepKeepsCopies ==
  ASSUME NEW c \in Codes, NEW copy \in ShownRow, CurrentOrOutdated(c, copy), RowStep(c),
         rows[c] \in Row \union {Absent}
  PROVE  CurrentOrOutdated(c, copy)'
<1> USE SentinelAssumption
<1>1. rows[c] \in Row /\ copy.version \in Nat /\ rows[c].version \in Nat
  BY DEF CurrentOrOutdated, Row, ShownRow
<1>2. CASE Kept(c)
  BY <1>2 DEF Kept, CurrentOrOutdated
<1>3. CASE Edited(c) \/ Advanced(c)
  <2>1. rows'[c] # Absent
    BY <1>3, RowStepKeepsRows
  <2>2. rows'[c].version = rows[c].version + 1
    <3>1. ASSUME Edited(c) PROVE rows'[c].version = rows[c].version + 1
      BY <3>1 DEF Edited
    <3>2. ASSUME Advanced(c) PROVE rows'[c].version = rows[c].version + 1
      BY <3>2 DEF Advanced
    <3> QED
      BY <1>3, <3>1, <3>2
  <2> QED
    BY <1>1, <2>1, <2>2 DEF CurrentOrOutdated
<1>4. CASE Retired(c)
  <2>1. rows'[c] # Absent
    BY <1>4, RowStepKeepsRows
  <2>2. rows'[c] = [rows[c] EXCEPT !.deleted = TRUE]
    BY <1>4 DEF Retired
  <2>3. rows'[c].version = rows[c].version
    BY <1>1, <2>2 DEF Row
  <2>4. [rows'[c] EXCEPT !.deleted = FALSE] = [rows[c] EXCEPT !.deleted = FALSE]
    BY <1>1, <2>2 DEF Row
  <2> QED
    BY <2>1, <2>3, <2>4 DEF CurrentOrOutdated
<1> QED
  BY <1>2, <1>3, <1>4 DEF RowStep, Created, CurrentOrOutdated

\* ShownIsCurrentOrOutdated, in parts that name the stored rows and the copy.
CopySound(row, copy) ==
  /\ row # Absent
  /\ copy.version <= row.version
  /\ copy.version = row.version => copy = [row EXCEPT !.deleted = FALSE]

TableSound(store, table) == \A c \in Codes : table[c] # Absent => CopySound(store[c], table[c])

DialogSound(store, d) ==
  d \notin {NoDialog, CreateDialog} => CopySound(store[d.code], d.item)

CallSound(store, x) ==
  x # NoCall =>
    /\ x.kind = "transition" => CopySound(store[x.code], x.item)
    /\ x.kind = "items" => TableSound(store, x.items)

LEMMA SoundNow ==
  ShownIsCurrentOrOutdated <=>
    TableSound(rows, shown) /\ DialogSound(rows, dialog) /\ \A s \in Slots : CallSound(rows, call[s])
BY DEF ShownIsCurrentOrOutdated, CurrentOrOutdated, TransitionOpen, InCall,
   CopySound, TableSound, DialogSound, CallSound

LEMMA SoundNext ==
  ShownIsCurrentOrOutdated' <=>
    TableSound(rows', shown') /\ DialogSound(rows', dialog') /\ \A s \in Slots : CallSound(rows', call'[s])
BY DEF ShownIsCurrentOrOutdated, CurrentOrOutdated, TransitionOpen, InCall,
   CopySound, TableSound, DialogSound, CallSound

\* Copies stay sound, wherever they are.
LEMMA CopiesStaySound ==
  ASSUME PageSound, \A c \in Codes : RowStep(c)
  PROVE  /\ \A table \in Table : TableSound(rows, table) => TableSound(rows', table)
         /\ \A d \in Pending \union {NoDialog, CreateDialog} : DialogSound(rows, d) => DialogSound(rows', d)
         /\ \A x \in Call \union {NoCall} : CallSound(rows, x) => CallSound(rows', x)
<1>1. ASSUME NEW c \in Codes, NEW copy \in ShownRow, CopySound(rows[c], copy)
      PROVE  CopySound(rows'[c], copy)
  BY <1>1, RowStepKeepsCopies DEF PageSound, TypeOK, CurrentOrOutdated, CopySound
<1>2. ASSUME NEW table \in Table, TableSound(rows, table) PROVE TableSound(rows', table)
  BY <1>1, <1>2 DEF TableSound, Table
<1>3. ASSUME NEW d \in Pending, CopySound(rows[d.code], d.item) PROVE CopySound(rows'[d.code], d.item)
  BY <1>1, <1>3 DEF Pending
<1>4. ASSUME NEW x \in Call, CallSound(rows, x) PROVE CallSound(rows', x)
  BY <1>1, <1>2, <1>4, CallFields DEF CallSound, Changes
<1> QED
  BY <1>2, <1>3, <1>4 DEF CallSound, DialogSound

\* The rows that the server lists are stored.
LEMMA ListedSound ==
  ASSUME TypeOK, NEW codes
  PROVE  TableSound(rows, Listed(codes))
<1> SUFFICES ASSUME NEW c \in Codes, Listed(codes)[c] # Absent
             PROVE  CopySound(rows[c], Listed(codes)[c])
  BY DEF TableSound
<1>1. Found(c) /\ Listed(codes)[c] = rows[c]
  BY DEF Listed
<1>2. rows[c] \in Row /\ rows[c].deleted = FALSE
  BY <1>1, FoundIsRow DEF Found, Row
<1>3. [rows[c] EXCEPT !.deleted = FALSE] = rows[c] /\ rows[c].version \in Nat
  BY <1>2 DEF Row
<1> QED
  BY <1>1, <1>3 DEF Found, CopySound

\* What a step gives to the table, the dialog and a slot is what one of them
\* had, or a list of the stored rows.
LEMMA PageMovesCopies ==
  ASSUME PageSound, [PageNext]_allVars
  PROVE  /\ TableSound(rows, shown')
         /\ DialogSound(rows, dialog')
         /\ \A s \in Slots : CallSound(rows, call'[s])
<1> USE DEF PageSound
<1> DEFINE Goal == /\ TableSound(rows, shown')
                   /\ DialogSound(rows, dialog')
                   /\ \A s \in Slots : CallSound(rows, call'[s])
<1>0. /\ TableSound(rows, shown) /\ DialogSound(rows, dialog)
      /\ \A s \in Slots : CallSound(rows, call[s])
  BY SoundNow
<1>1. CASE UNCHANGED pageVars
  BY <1>0, <1>1 DEF pageVars
<1>2. ASSUME NEW s \in Slots, NEW x, Respond(s, x), CallSound(rows, x)
      PROVE  \A v \in Slots : CallSound(rows, call'[v])
  BY <1>0, <1>2 DEF Respond, PageTypeOK
<1>3. ASSUME NEW s \in Slots, NEW x, Respond(s, x), x.kind \notin {"transition", "items"}
      PROVE  \A v \in Slots : CallSound(rows, call'[v])
  BY <1>2, <1>3 DEF CallSound
<1>4. ASSUME NEW s \in Slots, User(s) PROVE Goal
  <2>1. CASE Query(s)
    BY <1>0, <1>3, <1>4, <2>1 DEF Query, Send, Respond, LoadCall
  <2>2. CASE Confirm(s)
    <3>1. CallSound(rows, TransitionCall(dialog))
      BY <1>0, <2>2 DEF Confirm, TransitionOpen, DialogSound, CallSound, TransitionCall
    <3> QED
      BY <1>0, <1>2, <2>2, <3>1 DEF Confirm, Send, Respond
  <2>3. CASE ConfirmCreate(s)
    BY <1>0, <1>3, <2>3 DEF ConfirmCreate, Send, Respond, CreateCall
  <2> QED
    BY <1>4, <2>1, <2>2, <2>3 DEF User
<1>5. CASE OpenTransition
  <2>1. PICK c \in Codes : /\ shown[c] # Absent
                           /\ \E t \in Offers[shown[c].status] :
                                dialog' = [code |-> c, item |-> shown[c], target |-> t]
                           /\ UNCHANGED <<vars, shown, loading, call>>
    BY <1>5 DEF OpenTransition
  <2>2. dialog'.code = c /\ dialog'.item = shown[c]
    BY <2>1
  <2> QED
    BY <1>0, <2>1, <2>2 DEF TableSound, DialogSound
<1>6. CASE OpenCreate \/ Cancel
  BY <1>0, <1>6 DEF OpenCreate, Cancel, DialogSound
<1>7. ASSUME NEW s \in Slots, Server(s) PROVE Goal
  <2>1. CASE AnswerLoad(s)
    <3>1. ASSUME NEW codes, NEW end,
                 Respond(s, [kind |-> "items", end |-> end, items |-> Listed(codes)])
          PROVE  \A v \in Slots : CallSound(rows, call'[v])
      BY <1>2, <3>1, ListedSound DEF CallSound
    <3>2. ASSUME NEW end, Respond(s, [kind |-> "loadError", end |-> end])
          PROVE  \A v \in Slots : CallSound(rows, call'[v])
      BY <1>3, <3>2
    <3> QED
      BY <1>0, <2>1, <3>1, <3>2 DEF AnswerLoad
  <2>2. ASSUME Saved(s) \/ Failed(s) PROVE \A v \in Slots : CallSound(rows, call'[v])
    BY <1>3, <2>2 DEF Saved, Failed
  <2> QED
    BY <1>0, <1>1, <1>7, <2>1, <2>2 DEF Server, Accept, Reject, Handle
<1>8. ASSUME NEW s \in Slots, Receive(s) PROVE Goal
  <2>1. CASE ReceiveLoad(s)
    <3>1. TableSound(rows, shown')
      BY <1>0, <2>1 DEF ReceiveLoad, InCall, CallSound
    <3>2. dialog' \in {dialog, NoDialog}
      BY <2>1 DEF ReceiveLoad, AfterChain
    <3>3. CallSound(rows, NoCall)
      BY DEF CallSound
    <3>4. \A v \in Slots : CallSound(rows, call'[v])
      BY <1>2, <2>1, <3>3 DEF ReceiveLoad, Free, Respond
    <3> QED
      BY <1>0, <3>1, <3>2, <3>4 DEF DialogSound
  <2>2. CASE ReceiveSaved(s)
    BY <1>0, <1>3, <2>2 DEF ReceiveSaved, Respond, LoadCall
  <2>3. CASE ReceiveError(s)
    <3>1. CallSound(rows, NoCall)
      BY DEF CallSound
    <3> QED
      BY <1>0, <1>2, <2>3, <3>1 DEF ReceiveError, Free, Respond
  <2> QED
    BY <1>8, <2>1, <2>2, <2>3 DEF Receive
<1> QED
  BY <1>1, <1>4, <1>5, <1>6, <1>7, <1>8 DEF PageNext, Other, allVars, pageVars

LEMMA PageKeepsSound ==
  ASSUME Lookahead = 0, PageSound, [PageNext]_allVars
  PROVE  PageSound'
<1>1. TypeOK' /\ PendingSavesAreSound' /\ \A c \in Codes : RowStep(c)
  BY PageKeepsService
<1>2. PageTypeOK' /\ JobsFitCalls'
  BY PageKeepsPageTypes, PageKeepsJobsFit DEF PageSound
<1>3. ShownIsCurrentOrOutdated'
  <2>1. /\ shown' \in Table
        /\ dialog' \in Pending \union {NoDialog, CreateDialog}
        /\ \A s \in Slots : call'[s] \in Call \union {NoCall}
    BY <1>2 DEF PageTypeOK
  <2> QED
    BY <1>1, <2>1, PageMovesCopies, CopiesStaySound, SoundNext
<1> QED
  BY <1>1, <1>2, <1>3 DEF PageSound

LEMMA AlwaysPageSound ==
  ASSUME Lookahead = 0
  PROVE  PageSpec => []PageSound
<1>1. PageInit => PageSound
  <2> SUFFICES ASSUME PageInit PROVE PageSound
    OBVIOUS
  <2>1. TypeOK
    BY InitHasTypes DEF PageInit
  <2>2. PageTypeOK
    BY DEF PageInit, PageTypeOK, NoItems, Table
  <2>3. JobsFitCalls /\ PendingSavesAreSound
    BY DEF PageInit, Init, JobsFitCalls, PendingSavesAreSound, Writing, InPhase
  <2>4. ShownIsCurrentOrOutdated
    BY DEF PageInit, NoItems, ShownIsCurrentOrOutdated, TransitionOpen, InCall
  <2> QED
    BY <2>1, <2>2, <2>3, <2>4 DEF PageSound
<1>2. PageSound /\ [PageNext]_allVars => PageSound'
  BY PageKeepsSound
<1> QED
  BY <1>1, <1>2, PTL DEF PageSpec

-----------------------------------------------------------------------------
(* What the user may rely on.                                              *)

\* Rows, dialogs and requests of the page keep their types.
THEOREM PageTypeCorrect ==
  ASSUME Lookahead = 0
  PROVE  PageSpec => []PageTypeOK
<1>1. PageSound => PageTypeOK
  BY DEF PageSound
<1> QED
  BY <1>1, AlwaysPageSound, PTL

\* In whatever order loads are answered, the page shows, and quotes, only
\* versions that have been stored.
THEOREM PageShowsStoredRows ==
  ASSUME Lookahead = 0
  PROVE  PageSpec => []ShownIsCurrentOrOutdated
<1>1. PageSound => ShownIsCurrentOrOutdated
  BY DEF PageSound
<1> QED
  BY <1>1, AlwaysPageSound, PTL

\* A confirmed transition is saved on the row that its dialog showed, or
\* not at all.
THEOREM ConfirmationsAreHonest ==
  ASSUME Lookahead = 0
  PROVE  PageSpec => ConfirmedAsShown
<1>1. ASSUME PageSound, NEW s \in Slots, Save(s)
      PROVE  /\ rows[call[s].code] = call[s].item
             /\ rows'[call[s].code].status = call[s].target
  <2> DEFINE j == job[s]
             c == j.code
  <2> USE <1>1 DEF PageSound
  <2>1. j \in Job /\ j.op \in {"update", "transition"} /\ job[s] # Idle
    BY BusyHoldsJob DEF Save, Writing, InPhase
  <2>2. /\ call[s] # NoCall /\ call[s].kind = "transition" /\ c = call[s].code
        /\ j.expected = call[s].item.version /\ j.item.status = call[s].target
    BY <2>1 DEF JobsFitCalls, Fits
  <2>3. c \in Codes /\ j.item \in Row
    BY <2>1, AuditEntryType
  <2>4. Found(c) /\ rows[c].version = j.expected
    BY DEF Save, UpdateAudited, VersionMatches
  <2>5. rows[c] \in Row /\ rows[c].deleted = FALSE
    BY <2>3, <2>4, FoundIsRow DEF Found, Row
  <2>6. [rows[c] EXCEPT !.deleted = FALSE] = rows[c]
    BY <2>5 DEF Row
  <2>7. rows[c] = call[s].item
    BY <2>2, <2>4, <2>6 DEF ShownIsCurrentOrOutdated, CurrentOrOutdated, InCall
  <2>8. rows'[c] = [j.item EXCEPT !.deleted = rows[c].deleted]
    BY <2>3 DEF Save, UpdateAudited, TypeOK
  <2>9. rows'[c].status = j.item.status
    BY <2>3, <2>8 DEF Row
  <2> QED
    BY <2>2, <2>7, <2>9
<1>2. PageSound /\ [PageNext]_allVars
        => [\A s \in Slots :
              Save(s) => /\ rows[call[s].code] = call[s].item
                         /\ rows'[call[s].code].status = call[s].target]_allVars
  BY <1>1
<1> QED
  BY <1>2, AlwaysPageSound, PTL DEF PageSpec, ConfirmedAsShown

\* The loading sign is out once nothing is in flight: the last answer puts
\* it out, and what starts a request lights it.
THEOREM LoadingSignGoesOut ==
  ASSUME Lookahead = 0
  PROVE  PageSpec => []SpinnerStops
<1>1. PageInit => SpinnerStops
  BY DEF PageInit, SpinnerStops
<1>2. ASSUME PageSound, SpinnerStops, [PageNext]_allVars PROVE SpinnerStops'
  <2> SUFFICES ASSUME \A s \in Slots : call'[s] = NoCall PROVE ~loading'
    BY DEF SpinnerStops
  <2> USE <1>2 DEF PageSound
  <2>1. ASSUME NEW s \in Slots, NEW x, x # NoCall PROVE ~Respond(s, x) /\ ~Send(s, x)
    BY <2>1 DEF Respond, Send, PageTypeOK
  <2>2. CASE UNCHANGED <<loading, call>>
    BY <2>2 DEF SpinnerStops
  <2>3. ASSUME NEW s \in Slots, User(s) PROVE FALSE
    <3>1. dialog \in Pending \/ ~Confirm(s)
      BY DEF Confirm, TransitionOpen, PageTypeOK
    <3>2. \A c \in Codes : CreateCall(c) # NoCall
      BY CallsAreCalls
    <3>3. LoadCall("query") # NoCall
      BY CallsAreCalls
    <3>4. \A d \in Pending : TransitionCall(d) # NoCall
      BY CallsAreCalls
    <3> QED
      BY <2>1, <2>3, <3>1, <3>2, <3>3, <3>4 DEF User, Query, Confirm, ConfirmCreate
  <2>4. ASSUME NEW s \in Slots, Server(s) PROVE ~loading'
    <3>1. CASE UNCHANGED pageVars
      BY <2>2, <3>1 DEF pageVars
    <3>2. CASE AnswerLoad(s)
      <4>1. call[s].end \in Changes \union {"query"}
        BY <3>2, InCallIsCall, CallFields DEF AnswerLoad
      <4> QED
        BY <2>1, <3>2, <4>1, CallsAreCalls, ListedIsTable DEF AnswerLoad
    <3>3. ~Failed(s)
      BY <2>1, CallsAreCalls DEF Failed
    <3>4. ASSUME Saved(s), job[s] # Idle PROVE FALSE
      <4>1. call[s].kind \in Changes
        BY <3>4 DEF JobsFitCalls, Fits, Changes
      <4> QED
        BY <2>1, <3>4, <4>1, CallsAreCalls DEF Saved
    <3> QED
      BY <2>4, <3>1, <3>2, <3>3, <3>4
      DEF Server, Accept, Reject, Handle, Insert, Reply, Writing, InPhase
  <2>5. ASSUME NEW s \in Slots, Receive(s) PROVE ~loading'
    <3>1. CASE ReceiveSaved(s)
      <4>1. LoadCall(call[s].end) \in Call
        BY <3>1, InCallIsCall, CallFields, CallsAreCalls DEF ReceiveSaved
      <4>2. LoadCall(call[s].end) # NoCall
        BY <4>1, NoneOpenAssumption
      <4> QED
        BY <2>1, <3>1, <4>2 DEF ReceiveSaved, Respond
    <3>2. CASE ReceiveLoad(s) \/ ReceiveError(s)
      BY <3>2 DEF ReceiveLoad, ReceiveError
    <3> QED
      BY <2>5, <3>1, <3>2 DEF Receive
  <2>6. CASE OpenTransition \/ OpenCreate \/ Cancel
    BY <2>2, <2>6 DEF OpenTransition, OpenCreate, Cancel
  <2> QED
    BY <1>2, <2>2, <2>3, <2>4, <2>5, <2>6 DEF PageNext, Other, allVars, pageVars
<1>3. PageSound /\ SpinnerStops /\ [PageNext]_allVars => SpinnerStops'
  BY <1>2
<1> QED
  BY <1>1, <1>3, AlwaysPageSound, PTL DEF PageSpec
=============================================================================
