--------------------------- MODULE RequestRegistry ---------------------------
(***************************************************************************)
(* What the release requests of cloudops-cicd promise, with calls, answers *)
(* and failures hidden: a request is submitted once under its id; a        *)
(* verdict is given only to a request that exists; content is always one   *)
(* that a client submitted for that very id; and only a client that        *)
(* submits a decided request again takes its verdict away.                 *)
(***************************************************************************)
EXTENDS Naturals

CONSTANTS Id, Content

VARIABLES
  book,      \* id -> its content and its verdict
  submitted  \* id -> the contents submitted for it

Verdict == {"open", "approved", "rejected"}

Init ==
  /\ book = [id \in {} |-> [content |-> "none", verdict |-> "open"]]
  /\ submitted = [id \in Id |-> {}]

Others(id) == \A k \in DOMAIN book \ {id} : k \in DOMAIN book' /\ book'[k] = book[k]

\* A submission that is never seen (its save failed) is one all the same.
Submit(id, content) ==
  /\ submitted' = [submitted EXCEPT ![id] = @ \cup {content}]
  /\ \/ book' = book
     \/ /\ DOMAIN book' = DOMAIN book \cup {id}
        /\ book'[id] = [content |-> content, verdict |-> "open"]
        /\ Others(id)

\* The content may be an earlier one: a verdict carries along what its giver
\* has read.
Decide(id) ==
  /\ id \in DOMAIN book
  /\ DOMAIN book' = DOMAIN book
  /\ book'[id].verdict \in {"approved", "rejected"}
  /\ book'[id].content \in submitted[id]
  /\ Others(id)
  /\ UNCHANGED submitted

Next == \E id \in Id : Decide(id) \/ \E content \in Content : Submit(id, content)

Spec == Init /\ [][Next]_<<book, submitted>>
=============================================================================
