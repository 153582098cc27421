--------------------------- MODULE ReleaseRequests ---------------------------
(***************************************************************************)
(* Release requests in cloudops-cicd.  A call of the API creates a request *)
(* (or submits it again, when the body carries its id), decides one, or    *)
(* lists the newest.  Deciding is two calls of the store: Get, then Save   *)
(* of the whole row.  The store is PostgreSQL, where any call may fail and *)
(* a save that fails may have been committed, or the memory of the         *)
(* process, where none fails but an answer may be lost.  The web console   *)
(* creates and then lists, or only lists; it renders the answers in the    *)
(* order they arrive.                                                      *)
(*                                                                         *)
(* Not modelled: bodies with approver, approval_note or created_at, and    *)
(* the fields findApp fills in, which follow from the content.             *)
(***************************************************************************)
EXTENDS Naturals, FiniteSets

CONSTANTS
  Call,    \* calls of the API, each made once; also what its body says
  Id,      \* UUIDs
  None,    \* no call, no id, no row
  Limit,   \* the limit of a list: 20 in the console
  MaxTime  \* bound: seconds that pass (created_at has seconds)

Decision == {"approved", "rejected"}

ASSUME RequestsAssumption ==
  /\ None \notin Call \cup Decision
  /\ Limit \in Nat \ {0} /\ MaxTime \in Nat \ {0}

VARIABLES
  now,        \* the clock
  durable,    \* newReleaseRequestStore has given the store of PostgreSQL
  rows,       \* the table, or items: id -> row
  order,      \* order of the memory store: id -> the ids that come after it
  pc,         \* where a call is
  target,     \* the id it is about
  decision,   \* what it decides
  item,       \* the row a decide has read
  listed,     \* the ids in the answer to its list
  page,       \* the ids the console shows
  shown,      \* history: the call whose answer that was
  confirmed,  \* history: calls whose save was confirmed
  submitted,  \* history: id -> the bodies posted for it
  writer,     \* history: id -> the call that saved its row last
  before,     \* history: the calls that were over when a call began
  known       \* history: the calls confirmed when its list was read

store == <<now, durable, rows, order>>
calls == <<pc, target, decision, item, listed>>
console == <<page, shown>>
history == <<confirmed, submitted, writer, before, known>>
vars == <<store, calls, console, history>>

Time == 1 .. MaxTime

\* The posted status is not checked.
Posted == {"pending", "approved"}

\* A row; approver and note are known by the call that gave them.
Row == [content : Call, status : Posted \cup Decision,
        approver : Call \cup {None}, note : Call \cup {None}, created : Time]

Over == {c \in Call : pc[c] = "done"}

Init ==
  /\ now = 1
  /\ durable \in BOOLEAN
  /\ rows = [id \in {} |-> None]
  /\ order = [id \in {} |-> {}]
  /\ pc = [c \in Call |-> "idle"]
  /\ target = [c \in Call |-> None]
  /\ decision = [c \in Call |-> None]
  /\ item = [c \in Call |-> None]
  /\ listed = [c \in Call |-> {}]
  /\ page = {}
  /\ shown = None
  /\ confirmed = {}
  /\ submitted = [id \in Id |-> {}]
  /\ writer = [id \in Id |-> None]
  /\ before = [c \in Call |-> {}]
  /\ known = [c \in Call |-> {}]

----------------------------------------------------------------------------
(***************************************************************************)
(* The store.                                                              *)
(***************************************************************************)
\* Mutant: ON CONFLICT DO NOTHING.
SaveNew(id, row) ==
  [k \in DOMAIN rows \cup {id} |->
     IF k = id /\ id \notin DOMAIN rows THEN row ELSE rows[k]]

\* Save: an upsert.  PostgreSQL keeps created_at of a row that is there; the
\* memory store takes the row as it is, with a new created_at when it is
\* submitted again.
Save(id, row) ==
  [k \in DOMAIN rows \cup {id} |->
     IF k # id THEN rows[k]
     ELSE IF durable /\ id \in DOMAIN rows THEN [row EXCEPT !.created = rows[id].created]
     ELSE row]

\* The memory store puts a new id before all others and leaves an old one.
Placed(id) ==
  [k \in IF durable THEN {} ELSE DOMAIN rows \cup {id} |->
     IF k \in DOMAIN rows THEN order[k] ELSE DOMAIN rows]

\* A store call of c that saves: it is confirmed and c goes on to the place
\* "then"; or the answer is lost; or PostgreSQL fails and the row is not there.
Write(c, id, row, then) ==
  \/ /\ rows' = Save(id, row) /\ order' = Placed(id)
     /\ confirmed' = confirmed \cup {c}
     /\ pc' = [pc EXCEPT ![c] = then]
     /\ writer' = [writer EXCEPT ![id] = c]
  \/ /\ pc' = [pc EXCEPT ![c] = "done"]
     /\ \/ rows' = Save(id, row) /\ order' = Placed(id) /\ writer' = [writer EXCEPT ![id] = c]
        \/ durable /\ UNCHANGED <<rows, order, writer>>
     /\ UNCHANGED confirmed

\* x may come before y: by created_at, or by the order of the memory store.
NotOlder(x, y) ==
  IF durable THEN rows[x].created >= rows[y].created ELSE x \notin order[y]

\* Mutant: ORDER BY created_at without DESC, or new ids appended.
Oldest(ids) ==
  /\ Cardinality(ids) <= Limit
  /\ \A x \in ids, y \in DOMAIN rows \ ids : NotOlder(y, x)
  /\ ids # DOMAIN rows => Cardinality(ids) = Limit

\* ids may be the answer of List: the newest, ties in any order.
Newest(ids) ==
  /\ Cardinality(ids) <= Limit
  /\ \A x \in ids, y \in DOMAIN rows \ ids : NotOlder(x, y)
  /\ ids # DOMAIN rows => Cardinality(ids) = Limit

----------------------------------------------------------------------------
(***************************************************************************)
(* POST release-requests: a body without id gets a fresh one; the console  *)
(* posts no id.                                                            *)
(***************************************************************************)
Begin(c, id) ==
  /\ pc[c] = "idle"
  /\ target' = [target EXCEPT ![c] = id]
  /\ before' = [before EXCEPT ![c] = Over]

\* Mutant: a body without status keeps none.
NoDefault(c, status) ==
  [content |-> c, status |-> "", approver |-> None, note |-> None, created |-> now]

Blank(c, status) ==
  [content |-> c, status |-> status, approver |-> None, note |-> None, created |-> now]

Create(c, id, status, then) ==
  /\ Begin(c, id)
  /\ submitted' = [submitted EXCEPT ![id] = @ \cup {c}]
  /\ Write(c, id, Blank(c, status), then)
  /\ UNCHANGED <<now, durable, decision, item, listed, console, known>>

ClientCreates(c) == \E id \in Id, status \in Posted : Create(c, id, status, "done")

\* createReleaseRequest awaits the answer and then lists.
ConsoleCreates(c) == \E id \in Id \ DOMAIN rows : Create(c, id, "pending", "list")

----------------------------------------------------------------------------
(***************************************************************************)
(* POST release-requests/{id}/decide.                                      *)
(***************************************************************************)
\* Mutant: the first approver is kept.
FirstApprover(row, c, verdict) ==
  [row EXCEPT !.status = verdict, !.note = c,
              !.approver = IF @ = None THEN c ELSE @]

\* The row as its decider c changes it; without a name c is "operator".
Decided(row, c, verdict) ==
  [row EXCEPT !.status = verdict, !.approver = c, !.note = c]

\* Mutant: a request that is not there is decided all the same.
DecideAnyway(c, id, verdict) ==
  /\ Begin(c, id)
  /\ decision' = [decision EXCEPT ![c] = verdict]
  /\ item' = [item EXCEPT ![c] =
       Decided(IF id \in DOMAIN rows THEN rows[id] ELSE Blank(c, "pending"), c, verdict)]
  /\ pc' = [pc EXCEPT ![c] = "decide"]
  /\ UNCHANGED <<store, listed, console, confirmed, submitted, writer, known>>

DecideGet(c, id, verdict) ==
  /\ Begin(c, id)
  /\ id \in DOMAIN rows
  /\ decision' = [decision EXCEPT ![c] = verdict]
  /\ item' = [item EXCEPT ![c] = Decided(rows[id], c, verdict)]
  /\ pc' = [pc EXCEPT ![c] = "decide"]
  /\ UNCHANGED <<store, listed, console, confirmed, submitted, writer, known>>

\* Get finds no row or fails: both are a 404.
DecideNotFound(c, id) ==
  /\ Begin(c, id)
  /\ durable \/ id \notin DOMAIN rows
  /\ pc' = [pc EXCEPT ![c] = "done"]
  /\ UNCHANGED <<store, decision, item, listed, console, confirmed, submitted,
                 writer, known>>

DecideSave(c) ==
  /\ pc[c] = "decide"
  /\ Write(c, target[c], item[c], "done")
  /\ UNCHANGED <<now, durable, target, decision, item, listed, console, submitted,
                 before, known>>

----------------------------------------------------------------------------
(***************************************************************************)
(* GET release-requests, and listReleaseRequests in the console.           *)
(***************************************************************************)
Refresh(c) ==
  /\ pc[c] = "idle"
  /\ pc' = [pc EXCEPT ![c] = "list"]
  /\ UNCHANGED <<store, target, decision, item, listed, console, history>>

List(c) ==
  /\ pc[c] = "list"
  /\ \E ids \in SUBSET DOMAIN rows :
       Newest(ids) /\ listed' = [listed EXCEPT ![c] = ids]
  /\ pc' = [pc EXCEPT ![c] = "render"]
  /\ known' = [known EXCEPT ![c] = confirmed]
  /\ UNCHANGED <<store, target, decision, item, console, confirmed, submitted,
                 writer, before>>

Render(c) ==
  /\ pc[c] = "render"
  /\ page' = listed[c]
  /\ shown' = c
  /\ pc' = [pc EXCEPT ![c] = "done"]
  /\ UNCHANGED <<store, target, decision, item, listed, history>>

\* The list fails: the page shows an error instead.
ListFails(c) ==
  /\ pc[c] = "list"
  /\ page' = {}
  /\ shown' = None
  /\ pc' = [pc EXCEPT ![c] = "done"]
  /\ UNCHANGED <<store, target, decision, item, listed, history>>

Tick ==
  /\ now < MaxTime /\ now' = now + 1
  /\ UNCHANGED <<durable, rows, order, calls, console, history>>

Next ==
  \/ \E c \in Call :
       \/ ClientCreates(c) \/ ConsoleCreates(c)
       \/ \E id \in Id : DecideNotFound(c, id) \/ \E verdict \in Decision : DecideGet(c, id, verdict)
       \/ DecideSave(c)
       \/ Refresh(c) \/ List(c) \/ Render(c) \/ ListFails(c)
  \/ Tick

Spec == Init /\ [][Next]_vars

----------------------------------------------------------------------------
(***************************************************************************)
(* Properties.                                                             *)
(***************************************************************************)
\* Type invariant.
TypeOK ==
  /\ now \in Time
  /\ durable \in BOOLEAN
  /\ DOMAIN rows \subseteq Id
  /\ \A id \in DOMAIN rows : rows[id] \in Row
  /\ DOMAIN order = IF durable THEN {} ELSE DOMAIN rows
  /\ \A id \in DOMAIN order : order[id] \subseteq DOMAIN rows
  /\ pc \in [Call -> {"idle", "decide", "list", "render", "done"}]
  /\ target \in [Call -> Id \cup {None}]
  /\ decision \in [Call -> Decision \cup {None}]
  /\ item \in [Call -> Row \cup {None}]
  /\ listed \in [Call -> SUBSET Id]
  /\ page \subseteq Id
  /\ shown \in Call \cup {None}
  /\ confirmed \subseteq Call
  /\ submitted \in [Id -> SUBSET Call]
  /\ writer \in [Id -> Call \cup {None}]
  /\ before \in [Call -> SUBSET Call]
  /\ known \in [Call -> SUBSET Call]

\* Two deciders at once: status, approver and note of a decided request are
\* those of one decision; the row never tells one approver's verdict under the
\* name or with the note of another.
DecisionIsWhole ==
  \A id \in DOMAIN rows : rows[id].approver # None =>
    LET d == rows[id].approver IN
      /\ rows[id].note = d
      /\ rows[id].status = decision[d]
      /\ target[d] = id

\* A confirmed create or decision is replaced only by a call that was not yet
\* over when it began; and a content that was over when a confirmed submission
\* began comes back only by a decision that overlapped this submission (and had
\* read the row before it).
ConfirmedWritesStand ==
  \A c \in confirmed :
    LET id == target[c] IN
      /\ id \in DOMAIN rows
      /\ writer[id] \notin before[c]
      /\ c \in submitted[id] /\ rows[id].content \in before[c] =>
           \E d \in Call : /\ target[d] = id /\ decision[d] # None
                           /\ item[d].content = rows[id].content
                           /\ c \notin before[d] /\ d \notin before[c]

\* The console shows every request whose create had been confirmed when the
\* list it shows was read, or as many others that are not older as a list
\* holds: by their first created_at, or in the memory store by their first
\* submission, which a later one does not change.  In particular it shows what
\* it has created itself, unless its own list is overtaken by one that was read
\* before.
PageShowsConfirmed ==
  shown # None =>
    \A c \in known[shown] :
      LET id == target[c] IN
        id \in page \/
        Cardinality({x \in page : NotOlder(x, id)}) >= Limit

\* The registry of requests: a row counts as decided only by its approver.
Book ==
  [id \in DOMAIN rows |->
     [content |-> rows[id].content,
      verdict |-> IF rows[id].approver = None THEN "open" ELSE rows[id].status]]

Registry == INSTANCE RequestRegistry
  WITH Content <- Call, book <- Book, submitted <- submitted

\* The handlers implement it: whatever is decided, submitted again or fails,
\* the table changes as the registry of requests does.
ImplementsRegistry == Registry!Spec
=============================================================================
