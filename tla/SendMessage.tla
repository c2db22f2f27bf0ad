---------------------------- MODULE SendMessage ----------------------------
(***************************************************************************)
(* Sending a packed DIDComm message (did-comm/src/didcomm.ts).  A send     *)
(* walks over the recipient's services; for each it wraps the message for  *)
(* the service's mediators, sends it on to the mediator's DID when the     *)
(* endpoint is one, and gives it to every transport that supports the      *)
(* service.  The send to a mediator's DID is a send of its own, so the     *)
(* calls of one send are a stack.                                          *)
(*                                                                         *)
(* Encryption is abstracted to who can open the envelope.                  *)
(***************************************************************************)
EXTENDS Naturals, Sequences, FiniteSets

CONSTANTS
    Calls,       \* the sends, each of a message of its own
    DIDs,        \* the recipient and the mediators
    Recipients,  \* the DIDs that sends are for
    Services,    \* the DIDComm services of each DID's document
    Transports,  \* the transports for URLs, in the order they are tried
    Url          \* an endpoint that is a URL

VARIABLES
    stack,       \* the sends under way of each call, the innermost first
    outcome,     \* how a call ended: "none" yet, "returned" or "threw"
    delivered,   \* what reached a service
    announced,   \* how often 'DIDCommV2Message-sent' was emitted for a call
    handled      \* how often an answer to a call was given to handleMessage

vars == <<stack, outcome, delivered, announced, handled>>

Service == [endpoint: DIDs \cup {Url}, keys: Seq(DIDs)]
(* An envelope that `for` can open; what is in it goes on to `next`. *)
Layer == [for: DIDs, next: DIDs]

(* A send: its services, the first being served; the envelopes of its packed
   message, the outermost first; whether a send to a mediator's DID, or a
   transport, has succeeded, and come back with an answer; the transports left
   to try; whether the message is as it was given: not wrapped for an earlier
   service, nor sent on past an endpoint with several routing keys. *)
Frame == [to: DIDs, at: {"service", "inner", "transports", "end"}, left: Seq(Service),
          packed: Seq(Layer), ok: BOOLEAN, answer: BOOLEAN, todo: Seq({Transports[i] : i \in DOMAIN Transports}),
          clean: BOOLEAN]

(* Documents are resolved to lists of services; transports are tried in order. *)
SendingAssumption ==
    /\ Services \in [DIDs -> Seq(Service)]
    /\ Recipients \subseteq DIDs
    /\ Transports \in Seq({Transports[i] : i \in DOMAIN Transports})

Delivery == [call: Calls, to: DIDs, service: Service, packed: Seq(Layer), clean: BOOLEAN,
             accepted: BOOLEAN]

TypeOK ==
    /\ \A c \in Calls : \A i \in DOMAIN stack[c] : stack[c][i] \in Frame
    /\ outcome \in [Calls -> {"none", "returned", "threw"}]
    /\ \A d \in delivered : d \in Delivery
    /\ announced \in [Calls -> Nat]
    /\ handled \in [Calls -> Nat]

Init ==
    /\ stack = [c \in Calls |-> <<>>]
    /\ outcome = [c \in Calls |-> "none"]
    /\ delivered = {}
    /\ announced = [c \in Calls |-> 0]
    /\ handled = [c \in Calls |-> 0]

-----------------------------------------------------------------------------
\* Each envelope goes on to the mediator before it.
WrappedOutwards(packed, keys, to) ==
    [i \in 1..Len(keys) |->
        [for |-> keys[i], next |-> IF i = 1 THEN to ELSE keys[i - 1]]] \o packed

(* The packed message wrapped for the mediators `keys`, the last first: the
   innermost envelope goes on to the recipient, every other one to the mediator
   whose envelope it holds. *)
Wrapped(packed, keys, to) ==
    [i \in 1..Len(keys) |->
        [for |-> keys[i], next |-> IF i = Len(keys) THEN to ELSE keys[i + 1]]] \o packed

(* The envelope for a mediator whose DID is the endpoint.  It goes on to the
   last routing key. *)
ForEndpoint(packed, service, to) ==
    << [for |-> service.endpoint,
        next |-> IF service.keys = <<>> THEN to ELSE service.keys[Len(service.keys)]] >> \o packed

Enter(to, packed, clean) ==
    [to |-> to, at |-> "service", left |-> Services[to], packed |-> packed,
     ok |-> FALSE, answer |-> FALSE, todo |-> <<>>, clean |-> clean]

Top(c) == Head(stack[c])
Becomes(c, frame) == stack' = [stack EXCEPT ![c] = <<frame>> \o Tail(@)]

\* Every send to a mediator's DID counts as a success.
LeavesAsIfReturned(c, how, answer) ==
    IF Len(stack[c]) = 1
    THEN /\ stack' = [stack EXCEPT ![c] = <<>>]
         /\ outcome' = [outcome EXCEPT ![c] = how]
    ELSE /\ stack' = [stack EXCEPT ![c] =
                << [@[2] EXCEPT !.at = "transports", !.ok = TRUE] >> \o SubSeq(@, 3, Len(@))]
         /\ UNCHANGED outcome

\* A failed send to a mediator's DID is made again.
LeavesRetrying(c, how, answer) ==
    IF Len(stack[c]) = 1
    THEN /\ stack' = [stack EXCEPT ![c] = <<>>]
         /\ outcome' = [outcome EXCEPT ![c] = how]
    ELSE /\ stack' = [stack EXCEPT ![c] =
                << [@[2] EXCEPT !.at = IF how = "threw" THEN "inner" ELSE "transports",
                                !.ok = @ \/ how = "returned"] >> \o SubSeq(@, 3, Len(@))]
         /\ UNCHANGED outcome

\* What a send notes of the send to a mediator's DID that it made.
Noted(f, how, answer) ==
    [f EXCEPT !.at = "transports", !.ok = @ \/ how = "returned", !.answer = @ \/ answer]

(* A send ends: the caller's call does, or the send it was made by notes the
   result and goes on to the transports. *)
Leaves(c, how, answer) ==
    IF Len(stack[c]) = 1
    THEN /\ stack' = [stack EXCEPT ![c] = <<>>]
         /\ outcome' = [outcome EXCEPT ![c] = how]
    ELSE /\ stack' = [stack EXCEPT ![c] =
                << Noted(@[2], how, answer) >> \o SubSeq(@, 3, Len(@))]
         /\ UNCHANGED outcome
Throws(c) == Leaves(c, "threw", FALSE)

-----------------------------------------------------------------------------
(* sendDIDCommMessage: the document is resolved, and has DIDComm services *)
Begin(c) ==
    /\ outcome[c] = "none" /\ stack[c] = <<>>
    /\ \/ \E to \in Recipients :
            /\ Services[to] # <<>>
            /\ stack' = [stack EXCEPT ![c] = << Enter(to, << [for |-> to, next |-> to] >>, TRUE) >>]
            /\ UNCHANGED outcome
       \/ /\ outcome' = [outcome EXCEPT ![c] = "threw"]
          /\ UNCHANGED stack
    /\ UNCHANGED <<delivered, announced, handled>>

(* The message is wrapped for the mediators of the next service: what the loop
   goes on with, for the services after this one too. *)
Wrap(c) ==
    /\ stack[c] # <<>> /\ Top(c).at = "service" /\ Top(c).left # <<>>
    /\ LET f == Top(c)
           s == Head(f.left)
       IN Becomes(c, [f EXCEPT
            !.packed = Wrapped(@, s.keys, f.to),
            !.at = IF s.endpoint = Url THEN "transports" ELSE "inner",
            !.todo = IF s.endpoint = Url THEN Transports ELSE <<>>])
    /\ UNCHANGED <<outcome, delivered, announced, handled>>

(* The document of a mediator cannot be resolved, or has no key to encrypt for *)
WrapFails(c) ==
    /\ stack[c] # <<>>
    /\ \/ /\ Top(c).at = "service" /\ Top(c).left # <<>>
          /\ Head(Top(c).left).keys # <<>>
       \/ Top(c).at = "inner"
    /\ Throws(c)
    /\ UNCHANGED <<delivered, announced, handled>>

(* The endpoint is a DID: wrapped once more, the message is sent to that DID *)
SendToEndpoint(c) ==
    /\ stack[c] # <<>> /\ Top(c).at = "inner"
    /\ LET f == Top(c)
           s == Head(f.left)
       IN \/ /\ Services[s.endpoint] # <<>>
             /\ stack' = [stack EXCEPT ![c] =
                    << Enter(s.endpoint, ForEndpoint(f.packed, s, f.to),
                             f.clean /\ Len(s.keys) <= 1) >> \o @]
          \/ Becomes(c, [f EXCEPT !.at = "transports"])
    /\ UNCHANGED <<outcome, delivered, announced, handled>>

(* What comes of a post: the service may accept the message and its response
   get lost, which the transport reports as an error; a response may bring a
   message. *)
Posts == {p \in [reached: BOOLEAN, response: BOOLEAN, answer: BOOLEAN] :
            (p.response => p.reached) /\ (p.answer => p.response)}

(* A transport posts the message. *)
Transmit(c) ==
    /\ stack[c] # <<>> /\ Top(c).at = "transports" /\ Top(c).todo # <<>>
    /\ \E p \in Posts :
        LET f == Top(c)
        IN /\ delivered' = IF p.reached
                           THEN delivered \cup {[call |-> c, to |-> f.to, service |-> Head(f.left),
                                    packed |-> f.packed, clean |-> f.clean, accepted |-> p.response]}
                           ELSE delivered
           /\ Becomes(c, [f EXCEPT !.todo = Tail(@), !.ok = @ \/ p.response, !.answer = @ \/ p.answer])
    /\ UNCHANGED <<outcome, announced, handled>>

NextService(c) ==
    /\ stack[c] # <<>> /\ Top(c).at = "transports" /\ Top(c).todo = <<>>
    /\ LET f == Top(c)
       IN Becomes(c, [f EXCEPT !.left = Tail(@), !.at = IF Tail(f.left) = <<>> THEN "end" ELSE "service",
                               !.clean = @ /\ Head(f.left).keys = <<>>])
    /\ UNCHANGED <<outcome, delivered, announced, handled>>

(* All services have been served.  Any success is announced; of the answers the
   first is handled, which may fail. *)
Finish(c) ==
    /\ stack[c] # <<>> /\ Top(c).at = "end"
    /\ announced' = IF Top(c).ok THEN [announced EXCEPT ![c] = @ + 1] ELSE announced
    /\ handled' = IF Top(c).answer THEN [handled EXCEPT ![c] = @ + 1] ELSE handled
    /\ \/ Top(c).ok /\ Leaves(c, "returned", Top(c).answer)
       \/ (Top(c).answer \/ ~Top(c).ok) /\ Throws(c)
    /\ UNCHANGED delivered

Step(c) ==
    \/ Begin(c) \/ Wrap(c) \/ WrapFails(c) \/ SendToEndpoint(c)
    \/ Transmit(c) \/ NextService(c) \/ Finish(c)

Next == \E c \in Calls : Step(c)

Spec == Init /\ [][Next]_vars
(* The event loop goes on with a send whenever it can; resolving, wrapping and
   posting each end, if only in an error. *)
FairSpec == Spec /\ \A c \in Calls : WF_vars(Step(c))

(* Mediators' endpoints lead to a URL, not back to one another.  A document
   resolved from outside need not satisfy this; then a send recurs for ever. *)
EndpointsLeadOut ==
    \E rank \in [DIDs -> 0..Cardinality(DIDs)] :
        \A d \in DIDs : \A i \in DOMAIN Services[d] :
            Services[d][i].endpoint # Url => rank[Services[d][i].endpoint] < rank[d]

-----------------------------------------------------------------------------
(* How the envelopes of a delivery must fit: the service gets what its first
   mediator can open, and who opens one envelope finds the next addressed to the
   one it goes on to. *)
Fits(d) ==
    /\ d.packed[1].for = Head(d.service.keys \o <<d.to>>)
    /\ \A i \in 1..(Len(d.packed) - 1) : d.packed[i].next = d.packed[i + 1].for

(* Each mediator on a message's way can open its envelope and knows the next,
   however many there are and whether they are named by routing keys or by
   endpoints: the envelopes are made from the recipient outwards.  Only for
   messages that are as they were given: the code overwrites packedMessage.message,
   so services after one with routing keys get it wrapped for that one too, and
   behind an endpoint that is a DID it names the last routing key, not the first. *)
EveryHopCanOpen == \A d \in delivered : d.clean => Fits(d)

(* A send that is announced, or returned, has been accepted by a service: errors
   of transports and of inner sends never count as success. *)
AnnouncedWasAccepted ==
    \A c \in Calls :
        announced[c] > 0 \/ outcome[c] = "returned" =>
            \E d \in delivered : d.call = c /\ d.accepted

(* Both: what is said of a send is so, and what a send hands on can be opened. *)
SendingIsSound == EveryHopCanOpen /\ AnnouncedWasAccepted

(* Every send ends: transports that fail or answer with errors, and inner sends
   that throw, do not keep the loops from going on. *)
EverySendEnds == \A c \in Calls : <>(outcome[c] # "none")
=============================================================================
