----------------------------- MODULE Workbench -----------------------------
(***************************************************************************)
(* One page of the browser workbench (entity-page.component.ts over the    *)
(* EntityStore of stores/factory.ts), composed with the service of its     *)
(* aggregate.  Every click starts an asynchronous chain of requests that   *)
(* nobody cancels, so several are in flight and are answered in any order, *)
(* while other clients change the same records.                            *)
(*                                                                         *)
(* The dialogs are modal: as long as one is open, no query is started and  *)
(* no other dialog opened, but it can be cancelled, or confirmed again     *)
(* before the first confirmation is answered.                              *)
(*                                                                         *)
(* The text of errors, the metrics and the pager's numbers are left out:   *)
(* a query shows any part of the records, for its page and search text.    *)
(***************************************************************************)
EXTENDS RecordService, FiniteSets

CONSTANTS
  Slots,        \* requests of the page that may be in flight, among Workers
  PageSize,     \* records on a page of the table (20 in the code)
  Offers,       \* the page's copy of the status graph (TRANSITIONS)
  NoCall,       \* in call: the slot is free
  NoDialog,     \* in dialog: none is open
  CreateDialog  \* in dialog: showCreate

ASSUME PageAssumption ==
  Slots \subseteq Workers /\ Offers \in [Status -> SUBSET Status] /\ PageSize \in Nat \ {0}

VARIABLES
  shown,    \* EntityState.items, by code
  loading,  \* EntityState.loading
  dialog,   \* showCreate, or pending: the row and the target it was opened on
  call      \* the chain that a slot is in, and the request it waits for

pageVars == <<shown, loading, dialog, call>>
allVars == <<rows, trail, job, shown, loading, dialog, call>>

NoItems == [c \in Codes |-> Absent]

PageInit ==
  /\ Init
  /\ shown = NoItems
  /\ loading = FALSE
  /\ dialog = NoDialog
  /\ call = [s \in Slots |-> NoCall]

-----------------------------------------------------------------------------
(* Requests.  A load carries the kind of chain that it ends; a creation or *)
(* a transition is followed by a load when it succeeds.                    *)

Changes == {"create", "transition"}
InCall(s, kind) == call[s] # NoCall /\ call[s].kind = kind

LoadCall(end) == [kind |-> "load", end |-> end]
CreateCall(c) == [kind |-> "create", code |-> c]
TransitionCall(d) ==
  [kind |-> "transition", code |-> d.code, item |-> d.item, target |-> d.target]

Send(s, request) ==
  /\ call[s] = NoCall
  /\ call' = [call EXCEPT ![s] = request]
  /\ loading' = TRUE

\* ngOnInit, query, reset, previousPage and nextPage.
Query(s) ==
  /\ dialog = NoDialog
  /\ Send(s, LoadCall("query"))
  /\ UNCHANGED <<vars, shown, dialog>>

\* A button of the table: the transitions offered for the row as it is shown.
OpenTransition ==
  \E c \in Codes :
    /\ dialog = NoDialog
    /\ shown[c] # Absent
    /\ \E s \in Offers[shown[c].status] :
         dialog' = [code |-> c, item |-> shown[c], target |-> s]
    /\ UNCHANGED <<vars, shown, loading, call>>

OpenCreate ==
  /\ dialog = NoDialog
  /\ dialog' = CreateDialog
  /\ UNCHANGED <<vars, shown, loading, call>>

\* closeTransition, closeCreate: requests in flight are not cancelled.
Cancel ==
  /\ dialog # NoDialog
  /\ dialog' = NoDialog
  /\ UNCHANGED <<vars, shown, loading, call>>

TransitionOpen == dialog \notin {NoDialog, CreateDialog}

\* Mutant: the version is quoted from the row as it is shown now.
ConfirmRowShownNow(s) ==
  /\ TransitionOpen
  /\ Send(s, TransitionCall(
       IF shown[dialog.code] = Absent THEN dialog
       ELSE [dialog EXCEPT !.item.version = shown[dialog.code].version]))
  /\ UNCHANGED <<vars, shown, dialog>>

\* Mutant: the table shows the new status before the server has answered.
ConfirmAtOnce(s) ==
  /\ TransitionOpen
  /\ Send(s, TransitionCall(dialog))
  /\ shown' = [shown EXCEPT ![dialog.code] = [dialog.item EXCEPT !.status = dialog.target]]
  /\ UNCHANGED <<vars, dialog>>

\* confirmTransition quotes the version of the row the dialog was opened on.
\* Bound: no confirmation at MaxVersion, as for every other client.
Confirm(s) ==
  /\ TransitionOpen
  /\ dialog.item.version < MaxVersion[dialog.code]
  /\ Send(s, TransitionCall(dialog))
  /\ UNCHANGED <<vars, shown, dialog>>

\* createDemo: the code is made of the clock's last digits, so any code.
ConfirmCreate(s) ==
  /\ dialog = CreateDialog
  /\ \E c \in Codes : Send(s, CreateCall(c))
  /\ UNCHANGED <<vars, shown, dialog>>

-----------------------------------------------------------------------------
(* What the server does with them.                                         *)

Respond(s, answer) == call' = [call EXCEPT ![s] = answer]

Saved(s) == Respond(s, [kind |-> "saved", end |-> call[s].kind])
Failed(s) == Respond(s, [kind |-> "error"])

\* Mutant: the list includes the soft-deleted rows.
ListedUnscoped(codes) == [c \in Codes |-> IF c \in codes THEN rows[c] ELSE Absent]

\* Store.List with a page and a search text that select these codes.
Listed(codes) == [c \in Codes |-> IF c \in codes /\ Found(c) THEN rows[c] ELSE Absent]

\* Without a search text the first page is full, or it has every record.
FirstPages ==
  LET records == {c \in Codes : Found(c)} IN
  {codes \in SUBSET records : \/ Cardinality(codes) = PageSize
                              \/ codes = records /\ Cardinality(codes) < PageSize}

\* The load after a change asks for the first page and no search text.
AnswerLoad(s) ==
  /\ InCall(s, "load")
  /\ \/ \E codes \in IF call[s].end = "query" THEN SUBSET Codes ELSE FirstPages :
          Respond(s, [kind |-> "items", end |-> call[s].end, items |-> Listed(codes)])
     \/ Respond(s, [kind |-> "loadError", end |-> call[s].end])
  /\ UNCHANGED <<vars, shown, loading, dialog>>

\* From here on the service handles the request, as worker s.
Accept(s) ==
  /\ \/ InCall(s, "create") /\ \E d \in Data : BeginCreate(s, call[s].code, d)
     \/ /\ InCall(s, "transition")
        /\ BeginTransition(s, call[s].code, call[s].target, call[s].item.version)
  /\ UNCHANGED pageVars

\* The row is gone, or its status does not lead to the target.
Reject(s) ==
  LET c == call[s].code IN
  /\ InCall(s, "transition")
  /\ job[s] = Idle
  /\ ~Found(c) \/ call[s].target \notin Graph[rows[c].status]
  /\ Failed(s)
  /\ UNCHANGED <<vars, shown, loading, dialog>>

\* After the commit the answer may still be lost on its way.
Handle(s) ==
  \/ Save(s) /\ UNCHANGED pageVars
  \/ /\ Insert(s) \/ Reply(s)
     /\ Saved(s) \/ Failed(s)
     /\ UNCHANGED <<shown, loading, dialog>>
  \/ /\ Refuse(s) \/ Abort(s)
     /\ Failed(s)
     /\ UNCHANGED <<shown, loading, dialog>>

-----------------------------------------------------------------------------
(* Answers at the page.                                                    *)

Free(s) == call' = [call EXCEPT ![s] = NoCall]

\* What the end of a chain closes: whatever transition is pending by now, or
\* the creation dialog.
AfterChain(end) ==
  CASE end = "create"     -> IF dialog = CreateDialog THEN NoDialog ELSE dialog
    [] end = "transition" -> IF TransitionOpen THEN NoDialog ELSE dialog
    [] OTHER              -> dialog

\* EntityStore.load keeps its error to itself, so a chain whose load failed
\* counts as done.
ReceiveLoad(s) ==
  /\ \/ InCall(s, "items") /\ shown' = call[s].items
     \/ InCall(s, "loadError") /\ UNCHANGED shown
  /\ loading' = FALSE
  /\ dialog' = AfterChain(call[s].end)
  /\ Free(s)
  /\ UNCHANGED vars

\* createRecord and transition load the table again.
ReceiveSaved(s) ==
  /\ InCall(s, "saved")
  /\ call' = [call EXCEPT ![s] = LoadCall(call[s].end)]
  /\ loading' = TRUE
  /\ UNCHANGED <<vars, shown, dialog>>

\* Mutant: the error is recorded, the loading flag is left set.
ReceiveErrorLoading(s) ==
  /\ InCall(s, "error")
  /\ Free(s)
  /\ UNCHANGED <<vars, shown, loading, dialog>>

\* The dialog stays open on an error.
ReceiveError(s) ==
  /\ InCall(s, "error")
  /\ loading' = FALSE
  /\ Free(s)
  /\ UNCHANGED <<vars, shown, dialog>>

-----------------------------------------------------------------------------
User(s) == Query(s) \/ Confirm(s) \/ ConfirmCreate(s)
Server(s) == AnswerLoad(s) \/ Accept(s) \/ Reject(s) \/ Handle(s)
Receive(s) == ReceiveLoad(s) \/ ReceiveSaved(s) \/ ReceiveError(s)

\* The requests of other clients.
Other(w) ==
  /\ EndRequest(w) \/ Abort(w) \/ \E c \in Codes : Begin(w, c)
  /\ UNCHANGED pageVars

PageNext ==
  \/ OpenTransition \/ OpenCreate \/ Cancel
  \/ \E s \in Slots : User(s) \/ Server(s) \/ Receive(s)
  \/ \E w \in Workers \ Slots : Other(w)

PageSpec == PageInit /\ [][PageNext]_allVars

-----------------------------------------------------------------------------
ShownRow == [deleted: {FALSE}, status: Status, version: Nat \ {0}, data: Data]
Table == [Codes -> ShownRow \union {Absent}]
Pending == [code: Codes, item: ShownRow, target: Status]
Call ==
  [kind: {"load", "loadError"}, end: Changes \union {"query"}]
  \union [kind: {"items"}, end: Changes \union {"query"}, items: Table]
  \union [kind: {"create"}, code: Codes]
  \union [kind: {"transition"}, code: Codes, item: ShownRow, target: Status]
  \union [kind: {"saved"}, end: Changes]
  \union [kind: {"error"}]

ASSUME NoneOpenAssumption ==
  NoCall \notin Call /\ NoDialog # CreateDialog /\ {NoDialog, CreateDialog} \intersect Pending = {}

\* Type invariant of the page: it shows, offers and confirms rows that are
\* not removed.
PageTypeOK ==
  /\ shown \in Table
  /\ loading \in BOOLEAN
  /\ dialog \in Pending \union {NoDialog, CreateDialog}
  /\ call \in [Slots -> Call \union {NoCall}]

\* A copy of a row is behind the stored row, or it is the stored row.
CurrentOrOutdated(c, copy) ==
  /\ rows[c] # Absent
  /\ copy.version <= rows[c].version
  /\ copy.version = rows[c].version => copy = [rows[c] EXCEPT !.deleted = FALSE]

\* Whatever order loads are answered in, each copy of a row that the page
\* holds, in the table, a dialog or a request in flight, is a version that
\* was stored: so the page never quotes a version that does not exist yet.
ShownIsCurrentOrOutdated ==
  /\ \A c \in Codes : shown[c] # Absent => CurrentOrOutdated(c, shown[c])
  /\ TransitionOpen => CurrentOrOutdated(dialog.code, dialog.item)
  /\ \A s \in Slots :
       /\ InCall(s, "transition") => CurrentOrOutdated(call[s].code, call[s].item)
       /\ InCall(s, "items") =>
            \A c \in Codes :
              call[s].items[c] # Absent => CurrentOrOutdated(c, call[s].items[c])

\* A transition that the user confirmed is saved on the very row that the
\* dialog showed, or not at all: so a confirmation that is repeated, or
\* overtaken by other clients, changes nothing.
ConfirmedAsShown ==
  [][\A s \in Slots :
       Save(s) => /\ rows[call[s].code] = call[s].item
                  /\ rows'[call[s].code].status = call[s].target]_allVars

\* The table stops saying that it is loading once nothing is in flight,
\* through whatever errors and overtaken answers.
SpinnerStops == (\A s \in Slots : call[s] = NoCall) => ~loading
=============================================================================
