------------------------------- MODULE Mailbox -------------------------------
(***************************************************************************)
(* What a DIDComm mediator promises to the owners of its mailboxes: an     *)
(* accepted item stays in the box until the agent of its owner has handled *)
(* it.  Items are numbered in the order in which they are accepted.  An    *)
(* item may be handled more than once, and by an agent that is not its     *)
(* owner, but neither empties the box.                                     *)
(***************************************************************************)
EXTENDS Naturals, Sequences

CONSTANT Owners

VARIABLES
  owner,      \* owner[i] is the owner of the i-th accepted item
  box,        \* the numbers of the items still in the mailbox
  seen        \* <<o, i>> when the agent of o has handled item i

mailboxVars == <<owner, box, seen>>

Items == 1 .. Len(owner)

Init ==
  /\ owner = <<>>
  /\ box = {}
  /\ seen = {}

Accept(o) ==
  /\ owner' = Append(owner, o)
  /\ box' = box \union {Len(owner) + 1}
  /\ UNCHANGED seen

See(o, i) ==
  /\ i \in Items
  /\ seen' = seen \union {<<o, i>>}
  /\ UNCHANGED <<owner, box>>

Discard(i) ==
  /\ i \in box
  /\ <<owner[i], i>> \in seen
  /\ box' = box \ {i}
  /\ UNCHANGED <<owner, seen>>

Next ==
  \/ \E o \in Owners : Accept(o)
  \/ \E o \in Owners, i \in Items : See(o, i)
  \/ \E i \in box : Discard(i)

Spec == Init /\ [][Next]_mailboxVars

==============================================================================
