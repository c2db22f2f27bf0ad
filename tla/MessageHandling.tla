--------------------------- MODULE MessageHandling ---------------------------
(***************************************************************************)
(* What an agent does with a message that is posted to it: the messaging   *)
(* router gives it to handleMessage (message-handler/src), which passes it *)
(* down a chain of handlers, saves it and answers the request.  Each       *)
(* handler may rewrite the message and pass it on, end the chain with it,  *)
(* or throw.  The one for DIDComm goes on with the message it unpacked     *)
(* when the handlers behind it throw.                                      *)
(*                                                                         *)
(* A sender that gets an error, or no answer, may post the message again.  *)
(***************************************************************************)
EXTENDS Naturals, Sequences, FiniteSets

CONSTANTS
    Chain,      \* the handlers, in the order they are chained
    Raws,       \* what is posted: its form and what is inside
    MaxPosted,  \* bounds how many of them are posted
    MaxTries    \* bounds how often each is posted

(* Sorts of content: credentials and presentations ("w3c.vc", "w3c.vp"),
   selective disclosure requests, pings and their responses, anything else. *)
Sorts == {"vc", "vp", "sdr", "ping", "pong", "other"}
Handlers == {"url", "didcomm", "ping", "jwt", "w3c", "sdr"}
(* A raw message: a URL that leads to a JWT, a packed DIDComm message (its sender
   may want the response on the return route), a JWT, a JWT encrypted in the way
   of the first DIDComm version, a JSON message of that version, or noise. *)
Forms == {"url", "packed", "jwt", "sealed", "json", "noise"}
Raw == [id: Nat, form: Forms, sort: Sorts, returnRoute: BOOLEAN]

HandlingAssumption ==
    /\ Chain \in Seq(Handlers)
    /\ Raws \subseteq Raw
    /\ \A r \in Raws : r.form = "json" => r.sort \in {"vc", "vp", "other"}
    /\ MaxPosted \in Nat /\ MaxTries \in Nat

VARIABLES
    tries,      \* how often each message was posted
    at,         \* where the request under way for a message stands
    msg,        \* the Message object of that request
    stored,     \* the messages in the data store
    answers,    \* the answer to the last request for each message
    pongs,      \* how many responses to each ping went out by themselves
    events      \* validatedMessage, savedMessage and error events

vars == <<tries, at, msg, stored, answers, pongs, events>>

(* form: what `raw` holds now; type and data: "none" until a handler sets them;
   verified: the sorts of document whose own signature was checked; lists: whether
   the message lists credentials, presentations or both; unpacked: whether the
   DIDComm handler is upstream; reply: whether a ReturnRouteResponse is attached. *)
Listable == {"vc", "vp"}
Message == [form: Forms, type: Sorts \cup {"none"}, data: Sorts \cup {"none"}, verified: SUBSET Sorts,
            lists: SUBSET Listable, unpacked: BOOLEAN, reply: BOOLEAN]
NoMessage == [form |-> "noise", type |-> "none", data |-> "none", verified |-> {},
              lists |-> {}, unpacked |-> FALSE, reply |-> FALSE]

(* A request is with the n-th handler, or past the last one, or handled and to
   be saved, or saved and to be answered. *)
Idle == 0
Handled == Len(Chain) + 2
Saved == Len(Chain) + 3

TypeOK ==
    /\ tries \in [Raws -> 0..MaxTries]
    /\ at \in [Raws -> Idle..Saved]
    /\ msg \in [Raws -> Message]
    /\ \A s \in stored : s[1] \in Raws /\ s[2] \in Message
    /\ answers \in [Raws -> {"none", "lost", "rejected", "reply", "id"}]
    /\ pongs \in [Raws -> Nat]
    /\ events \subseteq ({"validatedMessage", "savedMessage", "error"} \X Raws)

Init ==
    /\ tries = [r \in Raws |-> 0]
    /\ at = [r \in Raws |-> Idle]
    /\ msg = [r \in Raws |-> NoMessage]
    /\ stored = {}
    /\ answers = [r \in Raws |-> "none"]
    /\ pongs = [r \in Raws |-> 0]
    /\ events = {}

(* The stored message has the id it came with, or a hash of the raw message when
   a handler found a credential, a presentation or a request in it. *)
RowId(r, m) == <<r, m.lists # {} \/ m.type = "sdr">>

(* The request is over; nobody holds the message object any more. *)
Ends(r, answer) ==
    /\ at' = [at EXCEPT ![r] = Idle]
    /\ msg' = [msg EXCEPT ![r] = NoMessage]
    /\ answers' = [answers EXCEPT ![r] = answer]

-----------------------------------------------------------------------------
(* The sender posts a message, or posts it again when that failed *)
Post(r) ==
    /\ at[r] = Idle /\ tries[r] < MaxTries /\ answers[r] \in {"none", "lost", "rejected"}
    /\ Cardinality({o \in Raws : tries[o] > 0} \cup {r}) <= MaxPosted
    /\ tries' = [tries EXCEPT ![r] = @ + 1]
    /\ at' = [at EXCEPT ![r] = 1]
    /\ msg' = [msg EXCEPT ![r] = [NoMessage EXCEPT !.form = r.form]]
    /\ UNCHANGED <<stored, answers, pongs, events>>

(* What a handler can do with a message: the sets of messages it passes on, and
   of those it ends the chain with; whether it can throw. *)
Outcome(passes, ends, throws) == [passes |-> passes, ends |-> ends, throws |-> throws]

\* The answer is parsed instead of taken as the text it is.
HandleUrlParsed(r, m) ==
    Outcome({m} \cup (IF m.form = "url" THEN {[m EXCEPT !.form = "object"]} ELSE {}), {}, FALSE)

(* UrlMessageHandler: what the URL leads to, unless fetching it fails *)
HandleUrl(r, m) ==
    Outcome({m} \cup (IF m.form = "url" THEN {[m EXCEPT !.form = "jwt"]} ELSE {}), {}, FALSE)

(* handleDIDCommAlpha: a JWE that a key of some identifier decrypts, or a JSON
   message; exceptions of the handlers behind it are not caught. *)
HandleDIDCommAlpha(r, m) ==
    CASE m.form = "sealed" -> Outcome({m, [m EXCEPT !.form = "jwt"]}, {}, FALSE)
      [] m.form = "json" -> Outcome({[m EXCEPT !.type = r.sort, !.data = r.sort]}, {}, FALSE)
      [] OTHER -> Outcome({m}, {}, FALSE)

(* DIDCommMessageHandler: unpacks, or else tries the first version. *)
HandleDIDComm(r, m) ==
    IF m.form = "packed"
    THEN Outcome({m, [m EXCEPT !.type = r.sort, !.data = r.sort, !.unpacked = TRUE]}, {}, FALSE)
    ELSE HandleDIDCommAlpha(r, m)

(* The JWT is verified before its payload becomes the data of the message. *)
HandleJwt(r, m) ==
    Outcome({m} \cup (IF m.form = "jwt" THEN {[m EXCEPT !.data = r.sort, !.verified = @ \cup {r.sort}]} ELSE {}),
            {}, FALSE)

(* What a message with a credential or a presentation lists: the credentials in a
   presentation, too *)
Contents(sort) == IF sort = "vp" THEN {"vp", "vc"} ELSE {"vc"}

\* The payload is taken before the JWT is verified.
HandleW3cUnverified(r, m) ==
    IF m.form = "jwt" /\ r.sort \in Listable
    THEN Outcome({}, {[m EXCEPT !.type = r.sort, !.lists = Contents(r.sort)]}, FALSE)
    ELSE Outcome({m}, {}, FALSE)

(* W3cMessageHandler: verified JWTs; and messages that a handler before it gave
   the type and data, which are verified here.  The credentials in a presentation
   are only decoded, whatever verifying it says of them. *)
HandleW3c(r, m) ==
    IF m.data \in Listable /\ m.form = "jwt"
    THEN Outcome({}, {[m EXCEPT !.type = m.data, !.lists = Contents(m.data)]}, FALSE)
    ELSE IF m.type \in Listable
         THEN Outcome({}, {[m EXCEPT !.verified = @ \cup {m.type}, !.lists = Contents(m.type)]}, TRUE)
         ELSE Outcome({m}, {}, FALSE)

HandleSdr(r, m) ==
    IF m.data = "sdr" THEN Outcome({}, {[m EXCEPT !.type = "sdr"]}, FALSE)
    ELSE Outcome({m}, {}, FALSE)

(* TrustPingMessageHandler: ends the chain for pings, answered or not, and for
   responses to them *)
HandlePing(r, m) ==
    IF m.type = "ping" THEN Outcome({}, {m, [m EXCEPT !.reply = r.returnRoute]}, FALSE)
    ELSE IF m.type = "pong" THEN Outcome({}, {m}, FALSE)
         ELSE Outcome({m}, {}, FALSE)

Handle(h, r, m) ==
    CASE h = "url" -> HandleUrl(r, m)
      [] h = "didcomm" -> HandleDIDComm(r, m)
      [] h = "jwt" -> HandleJwt(r, m)
      [] h = "w3c" -> HandleW3c(r, m)
      [] h = "sdr" -> HandleSdr(r, m)
      [] h = "ping" -> HandlePing(r, m)

(* What an exception on the way down the chain comes to: the DIDComm handler
   catches those of the handlers behind it and takes the message for handled. *)
Rejects(r) ==
    /\ events' = events \cup {<<"error", r>>}
    /\ Ends(r, "rejected")
\* Exceptions of the handlers behind are not caught.
CaughtNowhere(r) == Rejects(r)
\* The chain starts again when the handlers behind have thrown.
CaughtAndRestarted(r) ==
    IF msg[r].unpacked
    THEN /\ at' = [at EXCEPT ![r] = 1]
         /\ UNCHANGED <<msg, answers, events>>
    ELSE Rejects(r)
Caught(r) ==
    IF msg[r].unpacked
    THEN /\ at' = [at EXCEPT ![r] = Handled]
         /\ UNCHANGED <<msg, answers, events>>
    ELSE Rejects(r)

(* The next handler of the chain has its turn; behind the last, the type of the
   message is not supported. *)
RunHandler(r) ==
    /\ at[r] \in 1..Len(Chain)
    /\ LET o == Handle(Chain[at[r]], r, msg[r])
           sends == Chain[at[r]] = "ping" /\ msg[r].type = "ping"
       IN \/ \E m \in o.passes :
                /\ msg' = [msg EXCEPT ![r] = m]
                /\ at' = [at EXCEPT ![r] = @ + 1]
                /\ UNCHANGED <<answers, pongs, events>>
          \/ \E m \in o.ends :
                /\ msg' = [msg EXCEPT ![r] = m]
                /\ at' = [at EXCEPT ![r] = Handled]
                /\ \E sent \in IF sends THEN 0..1 ELSE {0} : pongs' = [pongs EXCEPT ![r] = @ + sent]
                /\ UNCHANGED <<answers, events>>
          \/ o.throws /\ Caught(r) /\ UNCHANGED pongs
    /\ UNCHANGED <<tries, stored>>

Unsupported(r) ==
    /\ at[r] = Len(Chain) + 1
    /\ Caught(r)
    /\ UNCHANGED <<tries, stored, pongs>>

(* The handled message is announced and stored, in place of the one with its id *)
Stored(r) == {s \in stored : RowId(s[1], s[2]) # RowId(r, msg[r])} \cup {<<r, msg[r]>>}

\* A message that cannot be stored is handled once more.
SaveRetrying(r) ==
    /\ at[r] = Handled
    /\ \/ /\ stored' = Stored(r)
          /\ at' = [at EXCEPT ![r] = Saved]
          /\ UNCHANGED msg
       \/ /\ at' = [at EXCEPT ![r] = 1]
          /\ msg' = [msg EXCEPT ![r] = [NoMessage EXCEPT !.form = r.form]]
          /\ UNCHANGED stored
    /\ UNCHANGED <<tries, answers, pongs, events>>

\* The answer does not wait for the message to be stored.
SaveUnawaited(r) ==
    /\ at[r] = Handled
    /\ stored' \in {stored, Stored(r)}
    /\ at' = [at EXCEPT ![r] = Saved]
    /\ UNCHANGED <<tries, msg, answers, pongs, events>>

Save(r) ==
    /\ at[r] = Handled
    /\ \/ /\ stored' = Stored(r)
          /\ events' = events \cup {<<"validatedMessage", r>>, <<"savedMessage", r>>}
          /\ at' = [at EXCEPT ![r] = Saved]
          /\ UNCHANGED <<msg, answers>>
       \/ /\ events' = events \cup {<<"validatedMessage", r>>, <<"error", r>>}
          /\ Ends(r, "rejected")
          /\ UNCHANGED stored
    /\ UNCHANGED <<tries, pongs>>

(* The router answers, with the response for the return route if there is one *)
Answer(r) ==
    /\ at[r] = Saved
    /\ Ends(r, IF msg[r].reply THEN "reply" ELSE "id")
    /\ UNCHANGED <<tries, stored, pongs, events>>

(* The connection breaks, or the agent restarts: the request gets no answer *)
Lose(r) ==
    /\ at[r] # Idle
    /\ Ends(r, "lost")
    /\ UNCHANGED <<tries, stored, pongs, events>>

Work(r) == RunHandler(r) \/ Unsupported(r) \/ Save(r) \/ Answer(r)

Next == \E r \in Raws : Post(r) \/ Work(r) \/ Lose(r)

Spec == Init /\ [][Next]_vars
(* The event loop goes on with every request; nobody has to post or to lose *)
FairSpec == Spec /\ \A r \in Raws : WF_vars(Work(r))

-----------------------------------------------------------------------------
(* A message is stored with a presentation only after the signature of that was
   verified, and with a credential only after its own was, or that of the
   presentation that it came in, whatever form the message came in and whichever
   handler took it, also when an earlier handler's failure was swallowed.  Of the
   proofs of credentials in a presentation nothing is said. *)
ListedWasVerified ==
    \A s \in stored :
        LET m == s[2] IN
        /\ "vp" \in m.lists => "vp" \in m.verified
        /\ "vc" \in m.lists => "vc" \in m.verified \/ "vp" \in m.lists

(* An answered message is in the data store, retries and lost answers or not. *)
AnsweredIsStored ==
    \A r \in Raws : answers[r] \in {"reply", "id"} => \E s \in stored : s[1] = r

(* A packed message that was unpacked is rejected only when it cannot be stored:
   whatever the handlers behind the DIDComm handler throw, it is kept. *)
UnpackedIsKept ==
    [][\A r \in Raws :
        msg[r].unpacked /\ at[r] \in 1..(Len(Chain) + 1) /\ at'[r] = Idle => answers'[r] = "lost"]_vars

(* A ping is answered by itself at most once per request: repeated responses
   come from requests that were posted again. *)
OnePongPerRequest == \A r \in Raws : pongs[r] <= tries[r]

(* The three together: whatever the chain does with what is posted, and however
   often it is posted again. *)
HandlingIsSound == ListedWasVerified /\ AnsweredIsStored /\ OnePongPerRequest

(* Every request ends with an answer, an error or a broken connection: once no
   more is posted, nothing stays under way. *)
EveryRequestEnds == (\E r \in Raws : at[r] # Idle) ~> (\A r \in Raws : at[r] = Idle)
=============================================================================
