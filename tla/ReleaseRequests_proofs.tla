----------------------- MODULE ReleaseRequests_proofs -----------------------
(***************************************************************************)
(* Proofs about ReleaseRequests, for any calls, ids and limit.             *)
(***************************************************************************)
EXTENDS ReleaseRequests, TLAPS

(***************************************************************************)
(* What a save does to the table.                                          *)
(***************************************************************************)
\* A save touches one row; PostgreSQL keeps its creation time.
LEMMA SaveRows ==
  ASSUME TypeOK, NEW id \in Id, NEW row \in Row
  PROVE  /\ DOMAIN Save(id, row) = DOMAIN rows \cup {id}
         /\ \A k \in DOMAIN rows \ {id} : Save(id, row)[k] = rows[k]
         /\ Save(id, row)[id] \in Row
         /\ Save(id, row)[id].content = row.content
         /\ Save(id, row)[id].status = row.status
         /\ Save(id, row)[id].approver = row.approver
         /\ Save(id, row)[id].note = row.note
         /\ Save(id, row)[id].created =
              IF durable /\ id \in DOMAIN rows THEN rows[id].created ELSE row.created
<1>1. id \in DOMAIN rows => rows[id].created \in Time
  BY DEF TypeOK, Row
<1>2. Save(id, row)[id] =
        IF durable /\ id \in DOMAIN rows THEN [row EXCEPT !.created = rows[id].created]
        ELSE row
  BY DEF Save
<1>3. Save(id, row)[id] \in Row
  BY <1>1, <1>2 DEF Row
<1> QED
  BY <1>1, <1>2, <1>3 DEF Save, Row

\* A new id comes before all others, an old one stays where it is.
LEMMA PlacedOrder ==
  ASSUME TypeOK, NEW id \in Id
  PROVE  /\ DOMAIN Placed(id) = IF durable THEN {} ELSE DOMAIN rows \cup {id}
         /\ ~durable => \A k \in DOMAIN rows : Placed(id)[k] = order[k]
         /\ ~durable /\ id \notin DOMAIN rows => Placed(id)[id] = DOMAIN rows
         /\ \A k \in DOMAIN Placed(id) : Placed(id)[k] \subseteq DOMAIN rows
<1>1. DOMAIN Placed(id) = IF durable THEN {} ELSE DOMAIN rows \cup {id}
  BY DEF Placed
<1>2. \A k \in DOMAIN Placed(id) :
        Placed(id)[k] = IF k \in DOMAIN rows THEN order[k] ELSE DOMAIN rows
  BY <1>1 DEF Placed
<1> QED
  BY <1>1, <1>2 DEF TypeOK

\* The table after a write, whatever its outcome.
LEMMA WriteRows ==
  ASSUME TypeOK, NEW c \in Call, NEW id \in Id, NEW row \in Row,
         NEW then \in {"list", "done"}, Write(c, id, row, then)
  PROVE  /\ \/ /\ rows' = Save(id, row) /\ writer' = [writer EXCEPT ![id] = c]
               /\ order' = Placed(id)
            \/ UNCHANGED <<rows, order, writer, confirmed>>
         /\ confirmed' \in {confirmed, confirmed \cup {c}}
         /\ c \in confirmed' \ confirmed => rows' = Save(id, row)
         /\ pc' \in {[pc EXCEPT ![c] = then], [pc EXCEPT ![c] = "done"]}
BY DEF Write

\* A fresh row is a row.
LEMMA BlankType ==
  ASSUME TypeOK, NEW c \in Call, NEW status \in Posted
  PROVE  Blank(c, status) \in Row
BY DEF TypeOK, Blank, Row

(***************************************************************************)
(* Type correctness.                                                       *)
(***************************************************************************)
\* The initial state is type-correct.
LEMMA TypeInit == Init => TypeOK
<1> SUFFICES ASSUME Init PROVE TypeOK
  OBVIOUS
<1>1. 1 \in Time
  BY RequestsAssumption DEF RequestsAssumption, Time
<1>2. DOMAIN rows = {}
  BY DEF Init
<1> QED
  BY <1>1, <1>2 DEF Init, TypeOK

\* A write keeps the types of what it changes.
LEMMA TypeWrite ==
  ASSUME TypeOK, NEW c \in Call, NEW id \in Id, NEW row \in Row,
         NEW then \in {"list", "done"}, Write(c, id, row, then)
  PROVE  /\ DOMAIN rows' \subseteq Id
         /\ \A k \in DOMAIN rows' : rows'[k] \in Row
         /\ DOMAIN order' = IF durable THEN {} ELSE DOMAIN rows'
         /\ \A k \in DOMAIN order' : order'[k] \subseteq DOMAIN rows'
         /\ pc' \in [Call -> {"idle", "decide", "list", "render", "done"}]
         /\ confirmed' \subseteq Call
         /\ writer' \in [Id -> Call \cup {None}]
<1>1. pc' \in [Call -> {"idle", "decide", "list", "render", "done"}]
  BY WriteRows DEF TypeOK
<1>2. confirmed' \subseteq Call /\ writer' \in [Id -> Call \cup {None}]
  BY WriteRows DEF TypeOK
<1>3. DOMAIN rows' \subseteq Id /\ \A k \in DOMAIN rows' : rows'[k] \in Row
  <2>1. CASE rows' = Save(id, row)
    <3>1. DOMAIN rows' = DOMAIN rows \cup {id}
      BY <2>1, SaveRows
    <3>2. rows'[id] \in Row /\ \A k \in DOMAIN rows \ {id} : rows'[k] = rows[k]
      BY <2>1, SaveRows
    <3> QED
      BY <3>1, <3>2 DEF TypeOK
  <2>2. CASE rows' = rows
    BY <2>2 DEF TypeOK
  <2>3. rows' = Save(id, row) \/ rows' = rows
    BY WriteRows
  <2> QED
    BY <2>1, <2>2, <2>3
<1>4. /\ DOMAIN order' = IF durable THEN {} ELSE DOMAIN rows'
      /\ \A k \in DOMAIN order' : order'[k] \subseteq DOMAIN rows'
  <2>1. CASE rows' = Save(id, row) /\ order' = Placed(id)
    <3>1. DOMAIN rows' = DOMAIN rows \cup {id}
      BY <2>1, SaveRows
    <3> QED
      BY <2>1, <3>1, PlacedOrder
  <2>2. CASE rows' = rows /\ order' = order
    BY <2>2 DEF TypeOK
  <2> QED
    BY <2>1, <2>2, WriteRows
<1> QED
  BY <1>1, <1>2, <1>3, <1>4

\* The step of a create, by an API client or by the console.
LEMMA CreateStep ==
  ASSUME NEW c \in Call, ClientCreates(c) \/ ConsoleCreates(c)
  PROVE  \E id \in Id, status \in Posted, then \in {"list", "done"} :
           Create(c, id, status, then)
BY DEF ClientCreates, ConsoleCreates, Posted

\* A step of a call preserves type correctness.
LEMMA TypeCall ==
  ASSUME TypeOK, NEW c \in Call,
         \/ ClientCreates(c) \/ ConsoleCreates(c)
         \/ \E id \in Id : DecideNotFound(c, id) \/ \E verdict \in Decision : DecideGet(c, id, verdict)
         \/ DecideSave(c)
         \/ Refresh(c) \/ List(c) \/ Render(c) \/ ListFails(c),
         pc[c] = "decide" => item[c] \in Row /\ target[c] \in Id
  PROVE  TypeOK'
<1>1. ASSUME NEW id \in Id, NEW status \in Posted, NEW then \in {"list", "done"},
             Create(c, id, status, then)
      PROVE  TypeOK'
  <2>1. Write(c, id, Blank(c, status), then) /\ Blank(c, status) \in Row
    BY <1>1, BlankType DEF Create
  <2>2. before' \in [Call -> SUBSET Call] /\ target' \in [Call -> Id \cup {None}]
    BY <1>1 DEF Create, Begin, Over, TypeOK
  <2>3. submitted' \in [Id -> SUBSET Call]
    BY <1>1 DEF Create, TypeOK
  <2> QED
    BY <1>1, <2>1, <2>2, <2>3, TypeWrite DEF Create, TypeOK, console
<1>2. ASSUME NEW id \in Id, DecideNotFound(c, id) PROVE TypeOK'
  BY <1>2 DEF DecideNotFound, Begin, Over, TypeOK, store, console
<1>3. ASSUME NEW id \in Id, NEW verdict \in Decision, DecideGet(c, id, verdict)
      PROVE  TypeOK'
  <2>1. Decided(rows[id], c, verdict) \in Row
    BY <1>3 DEF DecideGet, Decided, Row, TypeOK
  <2> QED
    BY <1>3, <2>1 DEF DecideGet, Begin, Over, TypeOK, store, console
<1>4. CASE DecideSave(c)
  BY <1>4, TypeWrite DEF DecideSave, TypeOK, console
<1>5. CASE Refresh(c) \/ Render(c) \/ ListFails(c)
  BY <1>5 DEF Refresh, Render, ListFails, TypeOK, store, console, history
<1>6. CASE List(c)
  BY <1>6 DEF List, TypeOK, store, console
<1> QED
  BY <1>1, <1>2, <1>3, <1>4, <1>5, <1>6, CreateStep

(***************************************************************************)
(* Decisions.  What is in the table was computed by one decide call, from  *)
(* a row whose content had been submitted for the same id.                 *)
(***************************************************************************)
ItemsWhole ==
  \A c \in Call :
    /\ pc[c] = "idle" => decision[c] = None
    /\ pc[c] = "decide" => decision[c] # None
    /\ decision[c] # None =>
         /\ item[c] \in Row
         /\ target[c] \in DOMAIN rows
         /\ decision[c] \in Decision /\ item[c].status = decision[c]
         /\ item[c].approver = c /\ item[c].note = c
         /\ item[c].content \in submitted[target[c]]

RowsWhole ==
  \A id \in DOMAIN rows :
    /\ rows[id].content \in submitted[id]
    /\ rows[id].approver # None =>
         /\ decision[rows[id].approver] # None
         /\ rows[id].note = rows[id].approver
         /\ rows[id].status = decision[rows[id].approver]
         /\ target[rows[id].approver] = id

IInv == TypeOK /\ ItemsWhole /\ RowsWhole

\* The initial state.
LEMMA WholeInit == Init => IInv
<1> SUFFICES ASSUME Init PROVE ItemsWhole /\ RowsWhole
  BY TypeInit DEF IInv
<1>1. DOMAIN rows = {}
  BY DEF Init
<1> QED
  BY <1>1 DEF Init, ItemsWhole, RowsWhole

\* A create.
LEMMA WholeCreate ==
  ASSUME IInv, NEW c \in Call, NEW id \in Id, NEW status \in Posted,
         NEW then \in {"list", "done"}, Create(c, id, status, then)
  PROVE  ItemsWhole' /\ RowsWhole'
<1> DEFINE row == Blank(c, status)
<1>1. /\ Write(c, id, row, then) /\ row \in Row
      /\ row.content = c /\ row.approver = None
  BY BlankType DEF Create, IInv, Blank
<1>2. /\ pc[c] = "idle" /\ decision[c] = None /\ item' = item /\ decision' = decision
      /\ target' = [target EXCEPT ![c] = id]
      /\ submitted' = [submitted EXCEPT ![id] = @ \cup {c}]
  BY DEF Create, Begin, IInv, ItemsWhole
<1>3. \A k \in Id : submitted[k] \subseteq submitted'[k]
  BY <1>2 DEF IInv, TypeOK
<1>4. c \in submitted'[id]
  BY <1>2 DEF IInv, TypeOK
<1>5. rows' = Save(id, row) \/ rows' = rows
  BY <1>1, WriteRows DEF IInv
<1>6. DOMAIN rows \subseteq DOMAIN rows' /\ \A k \in DOMAIN rows' \ {id} :
        k \in DOMAIN rows /\ rows'[k] = rows[k]
  <2>1. DOMAIN Save(id, row) = DOMAIN rows \cup {id}
    BY <1>1, SaveRows DEF IInv
  <2>2. \A k \in DOMAIN rows \ {id} : Save(id, row)[k] = rows[k]
    BY <1>1, SaveRows DEF IInv
  <2> QED
    BY <1>5, <2>1, <2>2
<1>7. \A d \in Call \ {c} : target'[d] = target[d] /\ pc'[d] = pc[d]
  BY <1>1, <1>2, WriteRows DEF IInv, TypeOK
<1>8. pc'[c] \in {"list", "done"}
  BY <1>1, WriteRows DEF IInv, TypeOK
<1>9. ItemsWhole'
  <2> SUFFICES ASSUME NEW d \in Call
               PROVE  /\ pc'[d] = "idle" => decision'[d] = None
                      /\ pc'[d] = "decide" => decision'[d] # None
                      /\ decision'[d] # None =>
                           /\ item'[d] \in Row
                           /\ target'[d] \in DOMAIN rows'
                           /\ decision'[d] \in Decision /\ item'[d].status = decision'[d]
                           /\ item'[d].approver = d /\ item'[d].note = d
                           /\ item'[d].content \in submitted'[target'[d]]
    BY DEF ItemsWhole
  <2>1. CASE d = c
    BY <1>2, <1>8, <2>1
  <2>2. CASE d # c /\ decision[d] = None
    BY <1>2, <1>7, <2>2 DEF IInv, ItemsWhole
  <2>3. CASE d # c /\ decision[d] # None
    <3>1. target[d] \in DOMAIN rows /\ target[d] \in Id
      BY <2>3 DEF IInv, ItemsWhole, TypeOK
    <3> QED
      BY <1>2, <1>3, <1>6, <1>7, <2>3, <3>1 DEF IInv, ItemsWhole
  <2> QED
    BY <2>1, <2>2, <2>3
<1>10. RowsWhole'
  <2> SUFFICES ASSUME NEW k \in DOMAIN rows'
               PROVE  /\ rows'[k].content \in submitted'[k]
                      /\ rows'[k].approver # None =>
                           /\ decision'[rows'[k].approver] # None
                           /\ rows'[k].note = rows'[k].approver
                           /\ rows'[k].status = decision'[rows'[k].approver]
                           /\ target'[rows'[k].approver] = k
    BY DEF RowsWhole
  <2>1. CASE k = id /\ rows' = Save(id, row)
    <3>1. rows'[id].content = row.content /\ rows'[id].approver = row.approver
      BY <1>1, <2>1, SaveRows DEF IInv, Row
    <3> QED
      BY <1>1, <1>4, <2>1, <3>1
  <2>2. CASE k \in DOMAIN rows /\ rows'[k] = rows[k]
    <3>1. k \in Id /\ rows[k] \in Row
      BY <2>2 DEF IInv, TypeOK
    <3>2. rows[k].approver # None => rows[k].approver \in Call \ {c}
      BY <1>2, <3>1, <2>2 DEF IInv, RowsWhole, Row
    <3> QED
      BY <1>2, <1>3, <1>7, <2>2, <3>1, <3>2 DEF IInv, RowsWhole
  <2> QED
    BY <1>5, <1>6, <2>1, <2>2
<1> QED
  BY <1>9, <1>10

\* The first step of a decide.
LEMMA WholeDecideGet ==
  ASSUME IInv, NEW c \in Call, NEW id \in Id, NEW verdict \in Decision,
         DecideGet(c, id, verdict)
  PROVE  ItemsWhole' /\ RowsWhole'
<1>1. /\ pc[c] = "idle" /\ decision[c] = None /\ id \in DOMAIN rows
      /\ rows' = rows /\ submitted' = submitted
      /\ rows[id] \in Row /\ rows[id].content \in submitted[id]
  BY DEF DecideGet, Begin, IInv, ItemsWhole, RowsWhole, TypeOK, store
<1>2. /\ item'[c] = Decided(rows[id], c, verdict)
      /\ target'[c] = id /\ decision'[c] = verdict /\ pc'[c] = "decide"
      /\ \A d \in Call \ {c} : /\ item'[d] = item[d] /\ target'[d] = target[d]
                              /\ decision'[d] = decision[d] /\ pc'[d] = pc[d]
  BY DEF DecideGet, Begin, IInv, TypeOK
<1>3. /\ item'[c] \in Row /\ item'[c].status = verdict /\ item'[c].approver = c
      /\ item'[c].note = c /\ item'[c].content = rows[id].content
  BY <1>1, <1>2 DEF Decided, Row
<1>4. verdict # None
  BY RequestsAssumption DEF RequestsAssumption
<1>5. ItemsWhole'
  BY <1>1, <1>2, <1>3, <1>4 DEF IInv, ItemsWhole
<1>6. RowsWhole'
  <2>1. \A k \in DOMAIN rows : rows[k].approver # None =>
          rows[k].approver \in Call \ {c}
    BY <1>1 DEF IInv, RowsWhole, TypeOK, Row
  <2> QED
    BY <1>1, <1>2, <2>1 DEF IInv, RowsWhole
<1> QED
  BY <1>5, <1>6

\* The second step of a decide.
LEMMA WholeDecideSave ==
  ASSUME IInv, NEW c \in Call, DecideSave(c)
  PROVE  ItemsWhole' /\ RowsWhole'
<1> DEFINE id == target[c]
           row == item[c]
<1>1. /\ pc[c] = "decide" /\ decision[c] # None /\ row \in Row /\ id \in DOMAIN rows /\ id \in Id
      /\ row.approver = c /\ row.note = c /\ row.status = decision[c]
      /\ row.content \in submitted[id]
  BY DEF DecideSave, IInv, ItemsWhole, TypeOK
<1>2. Write(c, id, row, "done") /\ UNCHANGED <<target, decision, item, submitted>>
  BY DEF DecideSave
<1>3. rows' = Save(id, row) \/ rows' = rows
  BY <1>1, <1>2, WriteRows DEF IInv
<1>4. /\ DOMAIN Save(id, row) = DOMAIN rows
      /\ \A k \in DOMAIN rows \ {id} : Save(id, row)[k] = rows[k]
      /\ Save(id, row)[id].content = row.content /\ Save(id, row)[id].status = row.status
      /\ Save(id, row)[id].approver = row.approver /\ Save(id, row)[id].note = row.note
  <2>1. DOMAIN Save(id, row) = DOMAIN rows \cup {id}
    BY <1>1, SaveRows DEF IInv
  <2>2. DOMAIN rows \cup {id} = DOMAIN rows
    BY <1>1
  <2>3. \A k \in DOMAIN rows \ {id} : Save(id, row)[k] = rows[k]
    BY <1>1, SaveRows DEF IInv
  <2> QED
    BY <1>1, <2>1, <2>2, <2>3, SaveRows DEF IInv
<1>5. pc'[c] = "done" /\ \A d \in Call \ {c} : pc'[d] = pc[d]
  BY <1>1, <1>2, WriteRows DEF IInv, TypeOK
<1>6. ItemsWhole'
  BY <1>2, <1>3, <1>4, <1>5 DEF IInv, ItemsWhole
<1>7. RowsWhole'
  BY <1>1, <1>2, <1>3, <1>4 DEF IInv, RowsWhole
<1> QED
  BY <1>6, <1>7

\* Every step.
LEMMA WholeNext == IInv /\ [Next]_vars => IInv'
<1> SUFFICES ASSUME IInv, [Next]_vars PROVE IInv'
  OBVIOUS
<1> DEFINE Rest(c) ==
      \/ \E id \in Id : DecideNotFound(c, id)
      \/ Refresh(c) \/ List(c) \/ Render(c) \/ ListFails(c)
<1>1. ASSUME NEW c \in Call,
             \/ ClientCreates(c) \/ ConsoleCreates(c)
             \/ \E id \in Id : DecideNotFound(c, id) \/ \E verdict \in Decision : DecideGet(c, id, verdict)
             \/ DecideSave(c)
             \/ Refresh(c) \/ List(c) \/ Render(c) \/ ListFails(c)
      PROVE  IInv'
  <2>1. TypeOK'
    <3>1. pc[c] = "decide" => item[c] \in Row /\ target[c] \in Id
      BY DEF IInv, ItemsWhole, TypeOK
    <3> QED
      BY <1>1, <3>1, TypeCall DEF IInv
  <2>2. CASE ClientCreates(c) \/ ConsoleCreates(c)
    BY <2>1, <2>2, CreateStep, WholeCreate DEF IInv
  <2>3. CASE \E id \in Id, verdict \in Decision : DecideGet(c, id, verdict)
    BY <2>1, <2>3, WholeDecideGet DEF IInv
  <2>4. CASE DecideSave(c)
    BY <2>1, <2>4, WholeDecideSave DEF IInv
  <2>5. CASE Rest(c)
    <3>1. /\ UNCHANGED <<rows, item, decision, submitted>>
          /\ \A d \in Call : pc'[d] = pc[d] \/ pc'[d] \in {"list", "render", "done"}
          /\ \A d \in Call : target'[d] = target[d] \/ pc[d] = "idle"
      BY <2>5 DEF DecideNotFound, Begin, Refresh, List, Render, ListFails, store,
                  history, IInv, TypeOK
    <3>2. ItemsWhole'
      BY <3>1 DEF IInv, ItemsWhole
    <3>3. RowsWhole'
      <4>1. \A k \in DOMAIN rows : rows[k].approver # None =>
              /\ rows[k].approver \in Call
              /\ pc[rows[k].approver] # "idle"
        BY DEF IInv, RowsWhole, ItemsWhole, TypeOK, Row
      <4> QED
        BY <3>1, <4>1 DEF IInv, RowsWhole
    <3> QED
      BY <2>1, <3>2, <3>3 DEF IInv
  <2> QED
    BY <1>1, <2>2, <2>3, <2>4, <2>5
<1>2. CASE Tick
  <2>1. now' \in Time
    BY <1>2, RequestsAssumption DEF Tick, IInv, TypeOK, Time, RequestsAssumption
  <2>2. TypeOK'
    BY <1>2, <2>1 DEF Tick, IInv, TypeOK, calls, console, history
  <2> QED
    BY <1>2, <2>2 DEF Tick, IInv, ItemsWhole, RowsWhole, calls, history
<1>3. CASE UNCHANGED vars
  BY <1>3 DEF vars, store, calls, console, history, IInv, TypeOK, ItemsWhole, RowsWhole
<1> QED
  BY <1>1, <1>2, <1>3 DEF Next

\* The invariant.
LEMMA Whole == Spec => []IInv
BY WholeInit, WholeNext, PTL DEF Spec

\* The table and the calls are of their types, for any number of calls.
THEOREM TypeCorrect == Spec => []TypeOK
<1>1. IInv => TypeOK
  BY DEF IInv
<1> QED
  BY Whole, <1>1, PTL

\* However many clients decide a request at once, status, approver and note of
\* its row are those of one decision.
THEOREM DecisionsWhole == Spec => []DecisionIsWhole
<1>1. IInv => DecisionIsWhole
  BY DEF IInv, RowsWhole, DecisionIsWhole
<1> QED
  BY Whole, <1>1, PTL

(***************************************************************************)
(* The handlers implement the registry.                                    *)
(***************************************************************************)
\* The entry of a row in the registry.
LEMMA BookEntries ==
  /\ DOMAIN Book = DOMAIN rows
  /\ \A id \in DOMAIN rows :
       /\ Book[id].content = rows[id].content
       /\ Book[id].verdict = IF rows[id].approver = None THEN "open" ELSE rows[id].status
       /\ Book[id] = [content |-> Book[id].content, verdict |-> Book[id].verdict]
BY DEF Book

\* The same after a step.
LEMMA BookEntriesNext ==
  /\ DOMAIN Book' = DOMAIN rows'
  /\ \A id \in DOMAIN rows' :
       /\ Book'[id].content = rows'[id].content
       /\ Book'[id].verdict = IF rows'[id].approver = None THEN "open" ELSE rows'[id].status
       /\ Book'[id] = [content |-> Book'[id].content, verdict |-> Book'[id].verdict]
BY DEF Book

\* Rows that stay keep their entries.
LEMMA BookOthers ==
  ASSUME NEW id, \A k \in DOMAIN rows \ {id} : k \in DOMAIN rows' /\ rows'[k] = rows[k]
  PROVE  \A k \in DOMAIN Book \ {id} : k \in DOMAIN Book' /\ Book'[k] = Book[k]
BY DEF Book

\* A create is a submission.
LEMMA CreateSubmits ==
  ASSUME IInv, NEW c \in Call, NEW id \in Id, NEW status \in Posted,
         NEW then \in {"list", "done"}, Create(c, id, status, then)
  PROVE  Registry!Submit(id, c)
<1> DEFINE row == Blank(c, status)
<1>1. /\ Write(c, id, row, then) /\ row \in Row
      /\ row.content = c /\ row.approver = None
  BY BlankType DEF Create, IInv, Blank
<1>2. submitted' = [submitted EXCEPT ![id] = @ \cup {c}]
  BY DEF Create
<1>3. CASE rows' = rows
  BY <1>2, <1>3 DEF Registry!Submit, Book
<1>4. CASE rows' = Save(id, row)
  <2>1. DOMAIN rows' = DOMAIN rows \cup {id}
    BY <1>1, <1>4, SaveRows DEF IInv
  <2>2. \A k \in DOMAIN rows \ {id} : rows'[k] = rows[k]
    BY <1>1, <1>4, SaveRows DEF IInv
  <2>3. rows'[id].content = c /\ rows'[id].approver = None
    BY <1>1, <1>4, SaveRows DEF IInv
  <2>4. Book'[id] = [content |-> c, verdict |-> "open"]
    BY <2>1, <2>3, BookEntriesNext
  <2>5. \A k \in DOMAIN Book \ {id} : k \in DOMAIN Book' /\ Book'[k] = Book[k]
    BY <2>1, <2>2, BookOthers
  <2>6. DOMAIN Book' = DOMAIN Book \cup {id}
    BY <2>1, BookEntries, BookEntriesNext
  <2> QED
    BY <1>2, <2>4, <2>5, <2>6 DEF Registry!Submit, Registry!Others
<1> QED
  BY <1>1, <1>3, <1>4, WriteRows DEF IInv

\* The save of a decide is a verdict.
LEMMA SaveDecides ==
  ASSUME IInv, NEW c \in Call, DecideSave(c), rows' # rows
  PROVE  Registry!Decide(target[c])
<1> DEFINE id == target[c]
           row == item[c]
<1>1. /\ row \in Row /\ id \in DOMAIN rows /\ id \in Id
      /\ row.approver = c /\ row.status \in Decision
      /\ row.content \in submitted[id] /\ c # None
  BY RequestsAssumption
     DEF DecideSave, IInv, ItemsWhole, TypeOK, RequestsAssumption
<1>2. Write(c, id, row, "done") /\ submitted' = submitted
  BY DEF DecideSave
<1>3. rows' = Save(id, row)
  BY <1>1, <1>2, WriteRows DEF IInv
<1>4. DOMAIN rows' = DOMAIN rows
  <2>1. DOMAIN rows' = DOMAIN rows \cup {id}
    BY <1>1, <1>3, SaveRows DEF IInv
  <2> QED
    BY <1>1, <2>1
<1>5. \A k \in DOMAIN rows \ {id} : k \in DOMAIN rows' /\ rows'[k] = rows[k]
  BY <1>1, <1>3, <1>4, SaveRows DEF IInv
<1>6. /\ rows'[id].content = row.content /\ rows'[id].approver = c
      /\ rows'[id].status = row.status
  BY <1>1, <1>3, SaveRows DEF IInv
<1>7. /\ DOMAIN Book' = DOMAIN Book /\ id \in DOMAIN Book
      /\ Book'[id].content = row.content /\ Book'[id].verdict = row.status
  BY <1>1, <1>4, <1>6, BookEntries, BookEntriesNext
<1>8. \A k \in DOMAIN Book \ {id} : k \in DOMAIN Book' /\ Book'[k] = Book[k]
  BY <1>5, BookOthers
<1> QED
  BY <1>1, <1>2, <1>7, <1>8 DEF Registry!Decide, Registry!Others, Decision

\* Every other step changes neither the table nor what has been submitted.
LEMMA StepImplements ==
  IInv /\ [Next]_vars => [Registry!Next]_<<Book, submitted>>
<1> SUFFICES ASSUME IInv, [Next]_vars
             PROVE  Registry!Next \/ UNCHANGED <<Book, submitted>>
  OBVIOUS
<1>1. ASSUME NEW c \in Call, NEW id \in Id, NEW status \in Posted,
             NEW then \in {"list", "done"}, Create(c, id, status, then)
      PROVE  Registry!Next
  BY <1>1, CreateSubmits DEF Registry!Next
<1>2. ASSUME NEW c \in Call, DecideSave(c), rows' # rows PROVE Registry!Next
  <2>1. target[c] \in Id
    BY <1>2 DEF DecideSave, IInv, ItemsWhole, TypeOK
  <2> QED
    BY <1>2, <2>1, SaveDecides DEF Registry!Next
<1>3. \/ \E c \in Call : ClientCreates(c) \/ ConsoleCreates(c)
      \/ \E c \in Call : DecideSave(c) /\ rows' # rows
      \/ UNCHANGED <<rows, submitted>>
  BY DEF Next, vars, DecideNotFound, DecideGet, DecideSave, Refresh, List, Render,
         ListFails, Tick, store, history
<1>4. UNCHANGED rows => UNCHANGED Book
  BY DEF Book
<1> QED
  BY <1>1, <1>2, <1>3, <1>4, CreateStep

\* The initial table is an empty registry.
LEMMA InitImplements == Init => Registry!Init
<1> SUFFICES ASSUME Init PROVE Registry!Init
  OBVIOUS
<1>1. rows = [id \in {} |-> None] /\ submitted = [id \in Id |-> {}]
  BY DEF Init
<1>2. Book = [id \in {} |-> [content |-> "none", verdict |-> "open"]]
  BY <1>1 DEF Book
<1> QED
  BY <1>1, <1>2 DEF Registry!Init

\* The handlers of release requests implement RequestRegistry: only submitted
\* content, verdicts only for requests that exist, and no verdict lost but to a
\* client that submits the request again.
THEOREM RegistryImplemented == Spec => ImplementsRegistry
BY Whole, InitImplements, StepImplements, PTL DEF Spec, ImplementsRegistry, Registry!Spec

(***************************************************************************)
(* Confirmed writes.                                                       *)
(***************************************************************************)
\* A decide that overlapped c has read the content.
Overlap(c, content) ==
  \E d \in Call : /\ target[d] = target[c] /\ decision[d] # None
                  /\ item[d].content = content
                  /\ c \notin before[d] /\ d \notin before[c]

HistoryTrue ==
  /\ \A c, d \in Call : d \in before[c] => pc[d] = "done" /\ d # c
  /\ \A c \in Call : pc[c] = "idle" => c \notin confirmed
  /\ \A c \in Call, id \in Id : c \in submitted[id] =>
       pc[c] # "idle" /\ decision[c] = None
  /\ \A c \in confirmed : target[c] \in DOMAIN rows

Stand(c) ==
  /\ writer[target[c]] \notin before[c]
  /\ c \in submitted[target[c]] /\ rows[target[c]].content \in before[c] =>
       Overlap(c, rows[target[c]].content)
  /\ \A d \in Call :
       /\ c \in submitted[target[c]] /\ decision[d] # None /\ target[d] = target[c]
       /\ c \in before[d] /\ item[d].content \in before[c]
       => Overlap(c, item[d].content)

WInv == IInv /\ HistoryTrue /\ \A c \in confirmed : Stand(c)

\* What a step does not touch: all of a call that has begun but its place, and
\* the places of rows.
PlacesKept ==
  \A id \in DOMAIN rows :
    /\ id \in DOMAIN rows'
    /\ durable => rows'[id].created = rows[id].created
    /\ ~durable => order'[id] = order[id]

LEMMA Fixed ==
  ASSUME IInv, [Next]_vars
  PROVE  /\ \A d \in Call : pc[d] # "idle" =>
              /\ target'[d] = target[d] /\ decision'[d] = decision[d]
              /\ item'[d] = item[d] /\ before'[d] = before[d]
              /\ pc'[d] # "idle"
              /\ pc[d] = "done" => pc'[d] = "done"
         /\ PlacesKept /\ durable' = durable
<1>0. rows' = rows /\ order' = order => PlacesKept
  BY DEF PlacesKept
<1>1. ASSUME NEW c \in Call, NEW id \in Id, NEW row \in Row,
             NEW then \in {"list", "done"}, Write(c, id, row, then)
      PROVE  /\ \A d \in Call \ {c} : pc'[d] = pc[d]
             /\ pc'[c] \in {"list", "done"}
             /\ PlacesKept
  <2>1. \/ rows' = Save(id, row) /\ order' = Placed(id)
        \/ rows' = rows /\ order' = order
    BY <1>1, WriteRows DEF IInv
  <2>2. ASSUME rows' = Save(id, row), order' = Placed(id) PROVE PlacesKept
    <3>1. DOMAIN Save(id, row) = DOMAIN rows \cup {id}
      BY SaveRows DEF IInv
    <3>2. \A k \in DOMAIN rows \ {id} : Save(id, row)[k] = rows[k]
      BY SaveRows DEF IInv
    <3>3. durable /\ id \in DOMAIN rows => Save(id, row)[id].created = rows[id].created
      BY SaveRows DEF IInv
    <3>4. ~durable => \A k \in DOMAIN rows : Placed(id)[k] = order[k]
      BY PlacedOrder DEF IInv
    <3> QED
      BY <2>2, <3>1, <3>2, <3>3, <3>4 DEF PlacesKept
  <2>3. \A d \in Call \ {c} : pc'[d] = pc[d]
    BY <1>1, WriteRows DEF IInv, TypeOK
  <2>4. pc'[c] \in {"list", "done"}
    BY <1>1, WriteRows DEF IInv, TypeOK
  <2> QED
    BY <1>0, <2>1, <2>2, <2>3, <2>4
<1>2. ASSUME NEW c \in Call, NEW id \in Id, NEW status \in Posted,
             NEW then \in {"list", "done"}, Create(c, id, status, then)
      PROVE  /\ \A d \in Call : pc[d] # "idle" =>
                  /\ target'[d] = target[d] /\ decision'[d] = decision[d]
                  /\ item'[d] = item[d] /\ before'[d] = before[d]
                  /\ pc'[d] = pc[d]
             /\ PlacesKept /\ durable' = durable
  <2>1. Write(c, id, Blank(c, status), then) /\ Blank(c, status) \in Row
    BY <1>2, BlankType DEF Create, IInv
  <2> QED
    BY <1>1, <1>2, <2>1 DEF Create, Begin, IInv, TypeOK
<1>3. ASSUME NEW c \in Call, DecideSave(c)
      PROVE  /\ \A d \in Call : pc[d] # "idle" =>
                  /\ pc'[d] # "idle"
                  /\ pc[d] = "done" => pc'[d] = "done"
             /\ UNCHANGED <<target, decision, item, before>>
             /\ PlacesKept /\ durable' = durable
  <2>1. pc[c] = "decide" /\ target[c] \in Id /\ item[c] \in Row
    BY <1>3 DEF DecideSave, IInv, ItemsWhole, TypeOK
  <2> QED
    BY <1>1, <1>3, <2>1 DEF DecideSave
<1>4. ASSUME NEW c \in Call, NEW id \in Id,
             DecideNotFound(c, id) \/ \E verdict \in Decision : DecideGet(c, id, verdict)
      PROVE  /\ \A d \in Call : pc[d] # "idle" =>
                  /\ target'[d] = target[d] /\ decision'[d] = decision[d]
                  /\ item'[d] = item[d] /\ before'[d] = before[d]
                  /\ pc'[d] = pc[d]
             /\ UNCHANGED <<durable, rows, order>>
  BY <1>4 DEF DecideNotFound, DecideGet, Begin, store, IInv, TypeOK
<1>5. ASSUME NEW c \in Call, Refresh(c) \/ List(c) \/ Render(c) \/ ListFails(c)
      PROVE  /\ UNCHANGED <<durable, rows, order, target, decision, item, before>>
             /\ \A d \in Call : pc[d] # "idle" =>
                  /\ pc'[d] # "idle"
                  /\ pc[d] = "done" => pc'[d] = "done"
  BY <1>5 DEF Refresh, List, Render, ListFails, store, history, IInv, TypeOK
<1>6. CASE Tick \/ UNCHANGED vars
  BY <1>0, <1>6 DEF Tick, vars, store, calls, history
<1>7. ASSUME NEW c \in Call, ClientCreates(c) \/ ConsoleCreates(c)
      PROVE  /\ \A d \in Call : pc[d] # "idle" =>
                  /\ target'[d] = target[d] /\ decision'[d] = decision[d]
                  /\ item'[d] = item[d] /\ before'[d] = before[d]
                  /\ pc'[d] = pc[d]
             /\ PlacesKept /\ durable' = durable
  BY <1>2, <1>7, CreateStep
<1> QED
  BY <1>0, <1>3, <1>4, <1>5, <1>6, <1>7 DEF Next

\* An overlap is for ever.
LEMMA OverlapStays ==
  ASSUME IInv, [Next]_vars, NEW c \in Call, pc[c] # "idle", NEW content,
         Overlap(c, content)
  PROVE  Overlap(c, content)'
<1>1. PICK d \in Call : /\ target[d] = target[c] /\ decision[d] # None
                        /\ item[d].content = content
                        /\ c \notin before[d] /\ d \notin before[c]
  BY DEF Overlap
<1>2. pc[d] # "idle"
  BY <1>1 DEF IInv, ItemsWhole
<1>3. /\ target'[d] = target[d] /\ decision'[d] = decision[d]
      /\ item'[d] = item[d] /\ before'[d] = before[d]
  BY <1>2, Fixed
<1>4. target'[c] = target[c] /\ before'[c] = before[c]
  BY Fixed
<1> QED
  BY <1>1, <1>3, <1>4 DEF Overlap

\* A create.
LEMMA StandCreate ==
  ASSUME WInv, [Next]_vars, NEW c \in Call, NEW id \in Id, NEW status \in Posted,
         NEW then \in {"list", "done"}, Create(c, id, status, then)
  PROVE  HistoryTrue' /\ \A e \in confirmed' : Stand(e)'
<1> DEFINE row == Blank(c, status)
<1>1. /\ Write(c, id, row, then) /\ row \in Row /\ row.content = c
  BY BlankType DEF Create, WInv, IInv, Blank
<1>2. /\ pc[c] = "idle" /\ decision[c] = None /\ decision' = decision /\ item' = item
      /\ c \notin confirmed
  BY DEF Create, Begin, WInv, IInv, ItemsWhole, HistoryTrue
<1>3. /\ target'[c] = id /\ before'[c] = Over
      /\ \A d \in Call \ {c} : target'[d] = target[d] /\ before'[d] = before[d]
  BY DEF Create, Begin, WInv, IInv, TypeOK
<1>4. submitted' = [submitted EXCEPT ![id] = @ \cup {c}]
  BY DEF Create
<1>5. pc'[c] \in {"list", "done"} /\ \A d \in Call \ {c} : pc'[d] = pc[d]
  BY <1>1, WriteRows DEF WInv, IInv, TypeOK
<1>6. /\ \A d \in Call : c \notin before[d]
      /\ c \notin before'[c] /\ \A d \in Call : c \notin before'[d]
  BY <1>2, <1>3 DEF WInv, HistoryTrue, Over
<1>7. /\ \/ rows' = Save(id, row) /\ writer' = [writer EXCEPT ![id] = c]
         \/ UNCHANGED <<rows, writer, confirmed>>
      /\ confirmed' \subseteq confirmed \cup {c}
      /\ c \in confirmed' => rows' = Save(id, row)
  BY <1>1, <1>2, WriteRows DEF WInv, IInv
<1>8. /\ DOMAIN Save(id, row) = DOMAIN rows \cup {id}
      /\ \A k \in DOMAIN rows \ {id} : Save(id, row)[k] = rows[k]
      /\ Save(id, row)[id].content = c
  BY <1>1, SaveRows DEF WInv, IInv
<1>9. HistoryTrue'
  <2>1. \A e, d \in Call : d \in before'[e] => pc'[d] = "done" /\ d # e
    BY <1>2, <1>3, <1>5, <1>6 DEF WInv, HistoryTrue, Over
  <2>2. \A e \in Call : pc'[e] = "idle" => e \notin confirmed'
    BY <1>5, <1>7 DEF WInv, HistoryTrue
  <2>3. \A e \in Call, k \in Id : e \in submitted'[k] =>
          pc'[e] # "idle" /\ decision'[e] = None
    BY <1>2, <1>4, <1>5 DEF WInv, HistoryTrue, IInv, TypeOK
  <2>4. \A e \in confirmed' : target'[e] \in DOMAIN rows'
    <3>1. \A e \in confirmed : e \in Call \ {c} /\ target[e] \in DOMAIN rows
      BY <1>2 DEF WInv, HistoryTrue, IInv, TypeOK
    <3> QED
      BY <1>3, <1>7, <1>8, <3>1
  <2> QED
    BY <2>1, <2>2, <2>3, <2>4 DEF HistoryTrue
<1>10. ASSUME NEW e \in confirmed', e # c PROVE Stand(e)'
  <2>1. /\ e \in confirmed /\ e \in Call /\ pc[e] # "idle" /\ Stand(e)
        /\ target'[e] = target[e] /\ before'[e] = before[e]
        /\ target[e] \in DOMAIN rows /\ target[e] \in Id
    BY <1>3, <1>7, <1>10 DEF WInv, HistoryTrue, IInv, TypeOK
  <2>2. e \in submitted'[target[e]] => e \in submitted[target[e]]
    BY <1>4, <1>10, <2>1 DEF WInv, IInv, TypeOK
  <2>3. \A d \in Call : decision[d] # None => d # c
    BY <1>2
  <2>4. CASE rows'[target[e]] = rows[target[e]] /\ writer'[target[e]] = writer[target[e]]
    BY <1>2, <1>3, <2>1, <2>2, <2>3, <2>4, OverlapStays DEF Stand, WInv
  <2>5. CASE rows'[target[e]].content = c /\ writer'[target[e]] = c
    BY <1>2, <1>3, <1>6, <2>1, <2>2, <2>3, <2>5, OverlapStays DEF Stand, WInv
  <2>6. CASE rows' = Save(id, row) /\ writer' = [writer EXCEPT ![id] = c]
    <3>1. CASE target[e] = id
      BY <1>8, <2>1, <2>5, <2>6, <3>1 DEF WInv, IInv, TypeOK
    <3>2. CASE target[e] # id
      BY <1>8, <2>1, <2>4, <2>6, <3>2 DEF WInv, IInv, TypeOK
    <3> QED
      BY <3>1, <3>2
  <2> QED
    BY <1>7, <2>4, <2>6
<1>11. ASSUME c \in confirmed' PROVE Stand(c)'
  <2>1. rows'[id].content = c /\ writer'[id] = c
    BY <1>2, <1>7, <1>8, <1>11 DEF WInv, IInv, TypeOK
  <2> QED
    BY <1>2, <1>3, <1>6, <2>1 DEF Stand
<1> QED
  BY <1>9, <1>10, <1>11

\* The first step of a decide: by Stand, what it reads has been overlapped if
\* it is not the newest.
LEMMA StandDecideGet ==
  ASSUME WInv, [Next]_vars, NEW c \in Call, NEW id \in Id, NEW verdict \in Decision,
         DecideGet(c, id, verdict)
  PROVE  HistoryTrue' /\ \A e \in confirmed' : Stand(e)'
<1>1. /\ pc[c] = "idle" /\ c \notin confirmed /\ confirmed' = confirmed
      /\ rows' = rows /\ writer' = writer /\ submitted' = submitted
      /\ id \in DOMAIN rows /\ rows[id] \in Row
  BY DEF DecideGet, Begin, WInv, HistoryTrue, IInv, TypeOK, store
<1>2. /\ target'[c] = id /\ before'[c] = Over /\ pc'[c] = "decide"
      /\ item'[c].content = rows[id].content
      /\ \A d \in Call \ {c} : /\ target'[d] = target[d] /\ before'[d] = before[d]
                              /\ item'[d] = item[d] /\ decision'[d] = decision[d]
                              /\ pc'[d] = pc[d]
  BY <1>1 DEF DecideGet, Begin, Decided, Row, WInv, IInv, TypeOK
<1>3. HistoryTrue'
  <2>1. \A e, d \in Call : d \in before'[e] => pc'[d] = "done" /\ d # e
    BY <1>1, <1>2 DEF WInv, HistoryTrue, Over
  <2>2. \A e \in Call : pc'[e] = "idle" => e \notin confirmed'
    BY <1>1, <1>2 DEF WInv, HistoryTrue
  <2>3. \A e \in Call, k \in Id : e \in submitted'[k] =>
          pc'[e] # "idle" /\ decision'[e] = None
    BY <1>1, <1>2 DEF WInv, HistoryTrue
  <2>4. \A e \in confirmed' : target'[e] \in DOMAIN rows'
    BY <1>1, <1>2 DEF WInv, HistoryTrue, IInv, TypeOK
  <2> QED
    BY <2>1, <2>2, <2>3, <2>4 DEF HistoryTrue
<1>4. ASSUME NEW e \in confirmed' PROVE Stand(e)'
  <2>1. /\ e \in confirmed /\ e \in Call /\ e # c /\ pc[e] # "idle" /\ Stand(e)
        /\ target'[e] = target[e] /\ before'[e] = before[e]
    BY <1>1, <1>2 DEF WInv, HistoryTrue, IInv, TypeOK
  <2>2. \A content : Overlap(e, content) => Overlap(e, content)'
    BY <2>1, OverlapStays DEF WInv
  <2>3. ASSUME NEW d \in Call, e \in submitted'[target'[e]], decision'[d] # None,
               target'[d] = target'[e], e \in before'[d], item'[d].content \in before'[e]
        PROVE  Overlap(e, item[d].content)'
    <3>1. CASE d = c
      <4>1. PICK content : content = rows[id].content
        OBVIOUS
      <4>2. Overlap(e, content)
        BY <1>1, <1>2, <2>1, <2>3, <3>1, <4>1 DEF Stand
      <4>3. Overlap(e, content)' /\ item'[d].content = content
        BY <1>2, <2>2, <3>1, <4>1, <4>2
      <4> QED
        BY <4>3 DEF Overlap
    <3>2. CASE d # c
      <4>1. PICK content : content = item[d].content
        OBVIOUS
      <4>2. Overlap(e, content)
        BY <1>1, <1>2, <2>1, <2>3, <3>2, <4>1 DEF Stand
      <4>3. Overlap(e, content)' /\ item'[d].content = content
        BY <1>2, <2>2, <3>2, <4>1, <4>2
      <4> QED
        BY <4>3 DEF Overlap
    <3> QED
      BY <3>1, <3>2
  <2> QED
    BY <1>1, <2>1, <2>2, <2>3 DEF Stand, Overlap
<1> QED
  BY <1>3, <1>4

\* The second step of a decide.
LEMMA StandDecideSave ==
  ASSUME WInv, [Next]_vars, NEW c \in Call, DecideSave(c)
  PROVE  HistoryTrue' /\ \A e \in confirmed' : Stand(e)'
<1> DEFINE id == target[c]
           row == item[c]
<1>1. /\ pc[c] = "decide" /\ decision[c] # None /\ row \in Row
      /\ id \in DOMAIN rows /\ id \in Id
  BY DEF DecideSave, WInv, IInv, ItemsWhole, TypeOK
<1>2. Write(c, id, row, "done") /\ UNCHANGED <<target, decision, item, submitted, before>>
  BY DEF DecideSave
<1>3. /\ \/ rows' = Save(id, row) /\ writer' = [writer EXCEPT ![id] = c]
         \/ UNCHANGED <<rows, writer, confirmed>>
      /\ confirmed' \subseteq confirmed \cup {c}
      /\ c \in confirmed' \ confirmed => rows' = Save(id, row)
  BY <1>1, <1>2, WriteRows DEF WInv, IInv
<1>4. /\ \A k \in DOMAIN rows \ {id} : Save(id, row)[k] = rows[k]
      /\ Save(id, row)[id].content = row.content
      /\ DOMAIN Save(id, row) = DOMAIN rows \cup {id}
  BY <1>1, SaveRows DEF WInv, IInv
<1>5. pc'[c] = "done" /\ \A d \in Call \ {c} : pc'[d] = pc[d]
  BY <1>1, <1>2, WriteRows DEF WInv, IInv, TypeOK
<1>6. /\ \A d \in Call : c \notin before[d]
      /\ \A k \in Id : c \notin submitted[k]
  BY <1>1 DEF WInv, HistoryTrue
<1>7. HistoryTrue'
  <2>1. \A e \in confirmed' : target'[e] \in DOMAIN rows'
    BY <1>1, <1>2, <1>3, <1>4 DEF WInv, HistoryTrue
  <2>2. \A e, d \in Call : d \in before'[e] => pc'[d] = "done" /\ d # e
    BY <1>2, <1>5 DEF WInv, HistoryTrue
  <2>3. \A e \in Call : pc'[e] = "idle" => e \notin confirmed'
    BY <1>3, <1>5 DEF WInv, HistoryTrue
  <2>4. \A e \in Call, k \in Id : e \in submitted'[k] =>
          pc'[e] # "idle" /\ decision'[e] = None
    BY <1>2, <1>5 DEF WInv, HistoryTrue
  <2> QED
    BY <2>1, <2>2, <2>3, <2>4 DEF HistoryTrue
<1>8. ASSUME NEW e \in confirmed', e \in confirmed PROVE Stand(e)'
  <2>1. /\ e \in Call /\ pc[e] # "idle" /\ Stand(e)
        /\ target[e] \in DOMAIN rows /\ target[e] \in Id
    BY <1>8 DEF WInv, HistoryTrue, IInv, TypeOK
  <2>2. \A content : Overlap(e, content) => Overlap(e, content)'
    BY <2>1, OverlapStays DEF WInv
  <2>3. CASE rows'[target[e]] = rows[target[e]] /\ writer'[target[e]] = writer[target[e]]
    BY <1>2, <2>1, <2>2, <2>3 DEF Stand
  <2>4. CASE /\ target[e] = id /\ writer'[target[e]] = c
             /\ rows'[target[e]].content = row.content
    <3>1. ASSUME e \in submitted[id], row.content \in before[e]
          PROVE  Overlap(e, item[c].content)'
      <4>1. CASE e \in before[c]
        BY <1>1, <1>2, <2>1, <2>2, <2>4, <3>1, <4>1 DEF Stand, Overlap
      <4>2. CASE e \notin before[c]
        BY <1>1, <1>2, <1>6, <2>1, <2>4, <4>2 DEF Overlap
      <4> QED
        BY <4>1, <4>2
    <3> QED
      BY <1>2, <1>6, <2>1, <2>2, <2>4, <3>1 DEF Stand, Overlap
  <2>5. CASE rows' = Save(id, row) /\ writer' = [writer EXCEPT ![id] = c]
    <3>1. CASE target[e] = id
      BY <1>4, <2>1, <2>4, <2>5, <3>1 DEF WInv, IInv, TypeOK
    <3>2. CASE target[e] # id
      BY <1>4, <2>1, <2>3, <2>5, <3>2 DEF WInv, IInv, TypeOK
    <3> QED
      BY <3>1, <3>2
  <2> QED
    BY <1>3, <2>3, <2>5
<1>9. ASSUME c \in confirmed' \ confirmed PROVE Stand(c)'
  <2>1. writer'[id] = c
    BY <1>1, <1>3, <1>9 DEF WInv, IInv, TypeOK
  <2> QED
    BY <1>1, <1>2, <1>6, <2>1 DEF Stand
<1> QED
  BY <1>3, <1>7, <1>8, <1>9

\* Every step.
LEMMA StandNext == WInv /\ [Next]_vars => WInv'
<1> SUFFICES ASSUME WInv, [Next]_vars PROVE HistoryTrue' /\ \A e \in confirmed' : Stand(e)'
  BY WholeNext DEF WInv
<1>1. CASE \E c \in Call : ClientCreates(c) \/ ConsoleCreates(c)
  BY <1>1, CreateStep, StandCreate
<1>2. CASE \E c \in Call, id \in Id, verdict \in Decision : DecideGet(c, id, verdict)
  BY <1>2, StandDecideGet
<1>3. CASE \E c \in Call : DecideSave(c)
  BY <1>3, StandDecideSave
<1>4. CASE \/ \E c \in Call : Refresh(c) \/ List(c) \/ Render(c) \/ ListFails(c)
           \/ \E c \in Call, id \in Id : DecideNotFound(c, id)
           \/ Tick \/ UNCHANGED vars
  <2>1. UNCHANGED <<rows, writer, confirmed, submitted, decision, item>>
    BY <1>4 DEF Refresh, List, Render, ListFails, DecideNotFound, Tick, vars, store,
                calls, history
  <2>2. \A d \in Call : \/ target'[d] = target[d] /\ before'[d] = before[d]
                        \/ pc[d] = "idle" /\ before'[d] = Over
    BY <1>4 DEF Refresh, List, Render, ListFails, DecideNotFound, Begin, Tick, vars,
                store, calls, history, WInv, IInv, TypeOK
  <2>3. HistoryTrue'
    BY <2>1, <2>2, Fixed DEF WInv, HistoryTrue, Over, IInv, TypeOK
  <2>4. ASSUME NEW e \in confirmed' PROVE Stand(e)'
    <3>1. /\ e \in confirmed /\ e \in Call /\ pc[e] # "idle" /\ Stand(e)
          /\ target'[e] = target[e] /\ before'[e] = before[e]
      BY <2>1, Fixed DEF WInv, HistoryTrue, IInv, TypeOK
    <3>2. \A content : Overlap(e, content) => Overlap(e, content)'
      BY <3>1, OverlapStays DEF WInv
    <3>3. \A d \in Call : decision[d] # None =>
            target'[d] = target[d] /\ before'[d] = before[d]
      BY <2>2 DEF WInv, IInv, ItemsWhole
    <3> QED
      BY <2>1, <3>1, <3>2, <3>3 DEF Stand
  <2> QED
    BY <2>3, <2>4
<1> QED
  BY <1>1, <1>2, <1>3, <1>4 DEF Next

\* A confirmed create or decision is undone only by a call that overlapped it:
\* nobody's later call is lost, however many decide and submit at once.
THEOREM WritesStand == Spec => []ConfirmedWritesStand
<1>1. Init => WInv
  <2> SUFFICES ASSUME Init PROVE HistoryTrue /\ \A e \in confirmed : Stand(e)
    BY WholeInit DEF WInv
  <2> QED
    BY DEF Init, HistoryTrue
<1>2. WInv => ConfirmedWritesStand
  BY DEF WInv, HistoryTrue, Stand, Overlap, ConfirmedWritesStand, IInv, TypeOK
<1> QED
  BY <1>1, <1>2, StandNext, PTL DEF Spec

(***************************************************************************)
(* What the console shows.                                                 *)
(***************************************************************************)
Shows(ids, id) ==
  id \in ids \/ Cardinality({x \in ids : NotOlder(x, id)}) >= Limit

ListTrue(c) ==
  /\ listed[c] \subseteq DOMAIN rows
  /\ known[c] \subseteq confirmed
  /\ \A k \in known[c] : Shows(listed[c], target[k])

PInv ==
  /\ WInv
  /\ \A c \in Call : ListTrue(c)
  /\ shown # None => page = listed[shown] /\ pc[shown] = "done"

\* A list shows a row, or enough others, for as long as the rows stay.
LEMMA ShowsStays ==
  ASSUME IInv, [Next]_vars, NEW ids \in SUBSET DOMAIN rows, NEW id \in DOMAIN rows,
         Shows(ids, id)
  PROVE  Shows(ids, id)'
<1>1. \A x \in ids : NotOlder(x, id)' <=> NotOlder(x, id)
  BY Fixed DEF PlacesKept, NotOlder
<1>2. {x \in ids : NotOlder(x, id)'} = {x \in ids : NotOlder(x, id)}
  BY <1>1
<1> QED
  BY <1>2 DEF Shows

\* An answer of List shows every row, or enough others.
LEMMA NewestShows ==
  ASSUME IInv, NEW ids \in SUBSET DOMAIN rows, Newest(ids), NEW id \in DOMAIN rows
  PROVE  Shows(ids, id)
<1> SUFFICES ASSUME id \notin ids
             PROVE  Cardinality({x \in ids : NotOlder(x, id)}) >= Limit
  BY DEF Shows
<1>1. {x \in ids : NotOlder(x, id)} = ids
  BY DEF Newest
<1>2. Cardinality(ids) = Limit
  BY DEF Newest
<1> QED
  BY <1>1, <1>2, RequestsAssumption DEF RequestsAssumption

\* A list that is kept stays true.
LEMMA ListStays ==
  ASSUME PInv, [Next]_vars, NEW c \in Call, confirmed \subseteq confirmed',
         listed'[c] = listed[c], known'[c] = known[c]
  PROVE  ListTrue(c)'
<1>1. listed[c] \subseteq DOMAIN rows'
  BY Fixed DEF PInv, WInv, ListTrue, PlacesKept
<1>2. ASSUME NEW k \in known[c] PROVE Shows(listed[c], target[k])'
  <2>1. /\ k \in Call /\ pc[k] # "idle" /\ target[k] \in DOMAIN rows
        /\ Shows(listed[c], target[k])
    BY DEF PInv, WInv, ListTrue, HistoryTrue, IInv, TypeOK
  <2>2. target'[k] = target[k]
    BY <2>1, Fixed DEF PInv, WInv
  <2>3. PICK ids \in SUBSET DOMAIN rows, id \in DOMAIN rows :
          ids = listed[c] /\ id = target[k]
    BY <2>1 DEF PInv, ListTrue
  <2>4. Shows(ids, id)'
    BY <2>1, <2>3, ShowsStays DEF PInv, WInv
  <2> QED
    BY <2>2, <2>3, <2>4 DEF Shows
<1> QED
  BY <1>1, <1>2 DEF PInv, ListTrue, Shows

\* Every step keeps what the lists and the page tell.
LEMMA PageNext == PInv /\ [Next]_vars => PInv'
<1> SUFFICES ASSUME PInv, [Next]_vars PROVE PInv'
  OBVIOUS
<1>1. WInv'
  BY StandNext DEF PInv
<1>2. confirmed \subseteq confirmed'
  BY DEF Next, ClientCreates, ConsoleCreates, Create, Write, DecideNotFound, DecideGet,
         DecideSave, Refresh, List, Render, ListFails, Tick, vars, history
<1>3. ASSUME NEW c \in Call, List(c) PROVE PInv'
  <2>1. PICK ids \in SUBSET DOMAIN rows : Newest(ids) /\ listed' = [listed EXCEPT ![c] = ids]
    BY <1>3 DEF List
  <2>2. /\ pc[c] = "list" /\ pc' = [pc EXCEPT ![c] = "render"]
        /\ known' = [known EXCEPT ![c] = confirmed] /\ confirmed' = confirmed
        /\ UNCHANGED <<durable, rows, order, target, page, shown>>
    BY <1>3 DEF List, store, console
  <2>3. ListTrue(c)'
    <3>1. listed'[c] = ids /\ known'[c] = confirmed
      BY <2>1, <2>2 DEF PInv, WInv, IInv, TypeOK
    <3>2. \A k \in confirmed : Shows(ids, target[k])
      BY <2>1, NewestShows DEF PInv, WInv, HistoryTrue
    <3> QED
      BY <2>2, <3>1, <3>2 DEF ListTrue, Shows, NotOlder
  <2>4. \A d \in Call \ {c} : ListTrue(d)'
    BY <1>2, <2>1, <2>2, ListStays DEF PInv, WInv, IInv, TypeOK
  <2>5. shown # None => shown \in Call /\ shown # c
    BY <2>2 DEF PInv, WInv, IInv, TypeOK
  <2> QED
    BY <1>1, <2>1, <2>2, <2>3, <2>4, <2>5 DEF PInv, WInv, IInv, TypeOK
<1>4. ASSUME UNCHANGED <<listed, known>>,
             \/ UNCHANGED <<page, shown>>
             \/ shown' = None
             \/ shown' \in Call /\ page' = listed[shown'] /\ pc'[shown'] = "done"
      PROVE  PInv'
  <2>1. \A c \in Call : ListTrue(c)'
    BY <1>2, <1>4, ListStays
  <2>2. shown' # None => page' = listed'[shown'] /\ pc'[shown'] = "done"
    <3>1. shown # None => shown \in Call /\ page = listed[shown] /\ pc'[shown] = "done"
      BY Fixed DEF PInv, WInv, IInv, TypeOK
    <3> QED
      BY <1>4, <3>1
  <2> QED
    BY <1>1, <2>1, <2>2 DEF PInv
<1>5. ASSUME NEW c \in Call, Render(c) PROVE PInv'
  BY <1>4, <1>5 DEF Render, history, PInv, WInv, IInv, TypeOK
<1>6. ASSUME NEW c \in Call, ListFails(c) PROVE PInv'
  BY <1>4, <1>6 DEF ListFails, history
<1>7. CASE \/ \E c \in Call : \/ ClientCreates(c) \/ ConsoleCreates(c)
                              \/ DecideSave(c) \/ Refresh(c)
           \/ \E c \in Call, id \in Id :
                DecideNotFound(c, id) \/ \E verdict \in Decision : DecideGet(c, id, verdict)
           \/ Tick \/ UNCHANGED vars
  <2>1. UNCHANGED <<listed, known, page, shown>>
    BY <1>7 DEF ClientCreates, ConsoleCreates, Create, DecideSave, Refresh,
                DecideNotFound, DecideGet, Tick, vars, calls, console, history
  <2> QED
    BY <1>4, <2>1
<1> QED
  BY <1>3, <1>5, <1>6, <1>7 DEF Next

\* The console shows every request confirmed before the list it shows was
\* read, or a full page of others that are not older.
THEOREM PageShows == Spec => []PageShowsConfirmed
<1>1. Init => PInv
  <2> SUFFICES ASSUME Init
               PROVE  /\ HistoryTrue /\ \A e \in confirmed : Stand(e)
                      /\ \A c \in Call : ListTrue(c)
                      /\ shown = None
    BY WholeInit DEF PInv, WInv
  <2> QED
    BY DEF Init, HistoryTrue, ListTrue
<1>2. PInv => PageShowsConfirmed
  BY DEF PInv, ListTrue, Shows, PageShowsConfirmed, WInv, IInv, TypeOK
<1> QED
  BY <1>1, <1>2, PageNext, PTL DEF Spec

(***************************************************************************)
(* The order of the requests.                                              *)
(***************************************************************************)
\* No request is deleted, those that are there keep their order, and a new one
\* may come before all of them.
OrderIsKept ==
  [][/\ DOMAIN rows \subseteq DOMAIN rows'
     /\ \A x \in DOMAIN rows', y \in DOMAIN rows :
          NotOlder(x, y)' <=> (x \in DOMAIN rows => NotOlder(x, y))]_vars

\* In PostgreSQL none is from the future.
CreatedBefore == durable => \A id \in DOMAIN rows : rows[id].created <= now

\* A save adds only the row of a create, and its created_at is now.
LEMMA NewRows ==
  ASSUME IInv, [Next]_vars, NEW k \in DOMAIN rows' \ DOMAIN rows
  PROVE  rows'[k].created = now
<1>1. ASSUME NEW c \in Call, ClientCreates(c) \/ ConsoleCreates(c)
      PROVE  rows'[k].created = now
  <2>1. PICK id \in Id, status \in Posted, then \in {"list", "done"} :
          Create(c, id, status, then)
    BY <1>1, CreateStep
  <2>2. /\ Write(c, id, Blank(c, status), then)
        /\ Blank(c, status) \in Row /\ Blank(c, status).created = now
    BY <2>1, BlankType DEF Create, IInv, Blank
  <2>3. rows' = Save(id, Blank(c, status))
    BY <2>2, WriteRows DEF IInv
  <2>4. /\ DOMAIN Save(id, Blank(c, status)) = DOMAIN rows \cup {id}
        /\ id \notin DOMAIN rows =>
             Save(id, Blank(c, status))[id] = Blank(c, status)
    BY DEF Save
  <2>5. k = id /\ id \notin DOMAIN rows
    BY <2>3, <2>4
  <2> QED
    BY <2>2, <2>3, <2>4, <2>5
<1>2. ASSUME NEW c \in Call, DecideSave(c) PROVE FALSE
  <2>1. /\ target[c] \in Id /\ target[c] \in DOMAIN rows /\ item[c] \in Row
        /\ Write(c, target[c], item[c], "done")
    BY <1>2 DEF DecideSave, IInv, ItemsWhole, TypeOK
  <2>2. rows' = Save(target[c], item[c])
    BY <2>1, WriteRows DEF IInv
  <2>3. DOMAIN Save(target[c], item[c]) = DOMAIN rows \cup {target[c]}
    BY DEF Save
  <2> QED
    BY <2>1, <2>2, <2>3
<1>3. \/ \E c \in Call : ClientCreates(c) \/ ConsoleCreates(c) \/ DecideSave(c)
      \/ UNCHANGED rows
  BY DEF Next, vars, DecideNotFound, DecideGet, Refresh, List, Render, ListFails, Tick, store
<1> QED
  BY <1>1, <1>2, <1>3

\* In the memory store a new id comes before all others.
LEMMA NewPlaces ==
  ASSUME IInv, [Next]_vars, ~durable, NEW x \in DOMAIN rows' \ DOMAIN rows,
         NEW y \in DOMAIN rows
  PROVE  x \notin order'[y]
<1>1. order'[y] = order[y]
  BY Fixed DEF PlacesKept
<1>2. order[y] \subseteq DOMAIN rows
  BY DEF IInv, TypeOK
<1> QED
  BY <1>1, <1>2

\* Time does not run backwards.
LEMMA CreatedNext == IInv /\ CreatedBefore /\ [Next]_vars => CreatedBefore'
<1> SUFFICES ASSUME IInv, CreatedBefore, [Next]_vars, durable, NEW k \in DOMAIN rows'
             PROVE  rows'[k].created <= now'
  BY Fixed DEF CreatedBefore
<1>1. now \in Nat /\ now' \in {now, now + 1}
  <2>1. now \in Nat
    BY DEF IInv, TypeOK, Time
  <2>2. \/ \E c \in Call : \/ ClientCreates(c) \/ ConsoleCreates(c) \/ DecideSave(c)
                           \/ \E id \in Id : \/ DecideNotFound(c, id)
                                             \/ \E d \in Decision : DecideGet(c, id, d)
                           \/ Refresh(c) \/ List(c) \/ Render(c) \/ ListFails(c)
        \/ Tick \/ UNCHANGED vars
    BY DEF Next
  <2>3. ASSUME NEW c \in Call, ClientCreates(c) \/ ConsoleCreates(c) \/ DecideSave(c)
        PROVE  now' = now
    BY <2>3 DEF ClientCreates, ConsoleCreates, Create, DecideSave
  <2>4. ASSUME NEW c \in Call,
               \/ \E id \in Id : \/ DecideNotFound(c, id)
                                 \/ \E d \in Decision : DecideGet(c, id, d)
               \/ Refresh(c) \/ List(c) \/ Render(c) \/ ListFails(c)
        PROVE  now' = now
    BY <2>4 DEF DecideNotFound, DecideGet, Refresh, List, Render, ListFails, store
  <2>5. UNCHANGED vars => now' = now
    BY DEF vars, store
  <2> QED
    BY <2>1, <2>2, <2>3, <2>4, <2>5 DEF Tick
<1>2. CASE k \in DOMAIN rows
  <2>1. rows'[k].created = rows[k].created /\ rows[k].created <= now
    BY <1>2, Fixed DEF PlacesKept, CreatedBefore
  <2>2. rows[k].created \in Nat
    BY <1>2 DEF IInv, TypeOK, Row, Time
  <2> QED
    BY <1>1, <2>1, <2>2
<1>3. CASE k \notin DOMAIN rows
  BY <1>1, <1>3, NewRows
<1> QED
  BY <1>2, <1>3

\* A step keeps the order.
LEMMA OrderNext ==
  ASSUME IInv, CreatedBefore, [Next]_vars
  PROVE  /\ DOMAIN rows \subseteq DOMAIN rows'
         /\ \A x \in DOMAIN rows', y \in DOMAIN rows :
              NotOlder(x, y)' <=> (x \in DOMAIN rows => NotOlder(x, y))
<1>1. DOMAIN rows \subseteq DOMAIN rows'
  BY Fixed DEF PlacesKept
<1>2. ASSUME NEW x \in DOMAIN rows, NEW y \in DOMAIN rows
      PROVE  NotOlder(x, y)' <=> NotOlder(x, y)
  BY Fixed DEF PlacesKept, NotOlder
<1>3. ASSUME NEW x \in DOMAIN rows' \ DOMAIN rows, NEW y \in DOMAIN rows
      PROVE  NotOlder(x, y)'
  <2>1. CASE durable
    <3>1. rows'[x].created = now /\ rows'[y].created = rows[y].created
      BY <2>1, NewRows, Fixed DEF PlacesKept
    <3>2. rows[y].created <= now /\ now \in Nat /\ rows[y].created \in Nat
      BY <2>1 DEF CreatedBefore, IInv, TypeOK, Row, Time
    <3> QED
      BY <2>1, <3>1, <3>2, Fixed DEF NotOlder
  <2>2. CASE ~durable
    BY <2>2, NewPlaces, Fixed DEF NotOlder
  <2> QED
    BY <2>1, <2>2
<1> QED
  BY <1>1, <1>2, <1>3

\* Whatever is submitted again or decided, in either store: the list of requests
\* has one order, and grows at its new end.
THEOREM RequestsKeepTheirPlace == Spec => OrderIsKept
<1>1. Init => CreatedBefore
  <2> SUFFICES ASSUME Init PROVE DOMAIN rows = {}
    BY DEF CreatedBefore
  <2> QED
    BY DEF Init
<1>2. IInv /\ CreatedBefore /\ [Next]_vars =>
        [/\ DOMAIN rows \subseteq DOMAIN rows'
         /\ \A x \in DOMAIN rows', y \in DOMAIN rows :
              NotOlder(x, y)' <=> (x \in DOMAIN rows => NotOlder(x, y))]_vars
  BY OrderNext
<1> QED
  BY <1>1, <1>2, Whole, CreatedNext, PTL DEF Spec, OrderIsKept
=============================================================================
