------------------------ MODULE MessageHandling_proofs -----------------------
(***************************************************************************)
(* Proofs about MessageHandling, for every chain of the handlers in every  *)
(* order, whatever is posted and however often.                            *)
(* Below, about what such messages carry: Credentials, for any keys of     *)
(* their issuer; Disclosure, what is gathered for a request, for any claims; *)
(* and Packing, how messages are sealed and opened, for any documents; and *)
(* about JsonStore, where they are saved, for any callers and faults.      *)
(***************************************************************************)
EXTENDS DataRecords, MessageHandling, Filters_proofs

------------------------------------------------------------------------------
(* The inductive invariant                                                 *)

\* What ListedWasVerified says of one message.
IsVouched(m) ==
    /\ "vp" \in m.lists => "vp" \in m.verified
    /\ "vc" \in m.lists => "vc" \in m.verified \/ "vp" \in m.lists

\* Nothing is taken out of a message before it is unpacked, and nothing out of a
\* JWT before its signature was verified.
SoundMessage(m) ==
    /\ m \in Message
    /\ m.form \in {"url", "sealed", "noise"} => m.data = "none"
    /\ m.form = "jwt" /\ m.data # "none" => m.data \in m.verified
    /\ IsVouched(m)

MessagesAreSound == \A r \in Raws : SoundMessage(msg[r])

IsStored(r) == \E s \in stored : s[1] = r

\* A request that the router is about to answer has been stored.
SavedIsStored == \A r \in Raws : at[r] = Saved => IsStored(r)

\* A request that has not come through the chain has sent no response to a ping.
PongIsOpen == \A r \in Raws : at[r] \in 1 .. Len(Chain) => pongs[r] + 1 <= tries[r]

IInv ==
    /\ TypeOK
    /\ MessagesAreSound
    /\ SavedIsStored
    /\ PongIsOpen
    /\ ListedWasVerified
    /\ AnsweredIsStored
    /\ OnePongPerRequest

------------------------------------------------------------------------------
(* Handlers                                                                *)

LEMMA NewMessageIsSound ==
    ASSUME NEW form \in Forms
    PROVE  SoundMessage([NoMessage EXCEPT !.form = form]) /\ SoundMessage(NoMessage)
BY DEF SoundMessage, NoMessage, Message, Forms, Sorts, IsVouched

\* Whatever a handler passes on or ends the chain with is sound again.
LEMMA HandlersKeepSound ==
    ASSUME NEW r \in Raw, NEW m, SoundMessage(m), NEW h \in Handlers
    PROVE  LET o == Handle(h, r, m) IN
           /\ \A n \in o.passes : SoundMessage(n)
           /\ \A n \in o.ends : SoundMessage(n)
<1> USE DEF Outcome
<1>0. m \in Message /\ r.sort \in Sorts /\ r.returnRoute \in BOOLEAN /\ r.form \in Forms
    BY DEF SoundMessage, Raw
<1>1. CASE h = "url"
    <2>1. ASSUME m.form = "url" PROVE SoundMessage([m EXCEPT !.form = "jwt"])
        BY <1>0, <2>1 DEF SoundMessage, Message, Forms, IsVouched
    <2>2. QED BY <1>1, <2>1 DEF Handle, HandleUrl
<1>2. CASE h = "didcomm"
    <2>1. ASSUME m.form = "sealed" PROVE SoundMessage([m EXCEPT !.form = "jwt"])
        BY <1>0, <2>1 DEF SoundMessage, Message, Forms, IsVouched
    <2>2. ASSUME m.form = "json" PROVE SoundMessage([m EXCEPT !.type = r.sort, !.data = r.sort])
        BY <1>0, <2>2 DEF SoundMessage, Message, Forms, IsVouched
    <2>3. ASSUME m.form = "packed"
          PROVE  SoundMessage([m EXCEPT !.type = r.sort, !.data = r.sort, !.unpacked = TRUE])
        BY <1>0, <2>3 DEF SoundMessage, Message, Forms, IsVouched
    <2>4. CASE m.form = "packed"
        <3>1. Handle(h, r, m)
                = Outcome({m, [m EXCEPT !.type = r.sort, !.data = r.sort, !.unpacked = TRUE]}, {}, FALSE)
            BY <1>2, <2>4 DEF Handle, HandleDIDComm
        <3>2. QED BY <2>3, <2>4, <3>1
    <2>5. CASE m.form # "packed"
        <3>1. Handle(h, r, m) = HandleDIDCommAlpha(r, m)
            BY <1>2, <2>5 DEF Handle, HandleDIDComm
        <3>2. CASE m.form = "sealed"
            BY <2>1, <3>1, <3>2 DEF HandleDIDCommAlpha
        <3>3. CASE m.form = "json"
            BY <2>2, <3>1, <3>3 DEF HandleDIDCommAlpha
        <3>4. CASE m.form \notin {"sealed", "json"}
            BY <3>1, <3>4 DEF HandleDIDCommAlpha
        <3>5. QED BY <3>2, <3>3, <3>4
    <2>6. QED BY <2>4, <2>5
<1>3. CASE h = "jwt"
    <2>1. ASSUME m.form = "jwt" PROVE SoundMessage([m EXCEPT !.data = r.sort, !.verified = @ \cup {r.sort}])
        BY <1>0, <2>1 DEF SoundMessage, Message, IsVouched
    <2>2. QED BY <1>3, <2>1 DEF Handle, HandleJwt
<1>4. CASE h = "w3c"
    <2>1. CASE m.data \in Listable /\ m.form = "jwt"
        <3>1. SoundMessage([m EXCEPT !.type = m.data, !.lists = Contents(m.data)])
            BY <1>0, <2>1 DEF SoundMessage, Message, IsVouched, Listable, Contents
        <3>2. QED BY <1>4, <2>1, <3>1 DEF Handle, HandleW3c
    <2>2. CASE ~(m.data \in Listable /\ m.form = "jwt") /\ m.type \in Listable
        <3>1. SoundMessage([m EXCEPT !.verified = @ \cup {m.type}, !.lists = Contents(m.type)])
            BY <1>0, <2>2 DEF SoundMessage, Message, IsVouched, Listable, Contents, Sorts
        <3>2. QED BY <1>4, <2>2, <3>1 DEF Handle, HandleW3c
    <2>3. CASE ~(m.data \in Listable /\ m.form = "jwt") /\ m.type \notin Listable
        BY <1>4, <2>3 DEF Handle, HandleW3c
    <2>4. QED BY <2>1, <2>2, <2>3
<1>5. CASE h = "sdr"
    <2>1. SoundMessage([m EXCEPT !.type = "sdr"])
        BY <1>0 DEF SoundMessage, Message, Sorts, IsVouched
    <2>2. QED BY <1>5, <2>1 DEF Handle, HandleSdr
<1>6. CASE h = "ping"
    <2>1. SoundMessage([m EXCEPT !.reply = r.returnRoute])
        BY <1>0 DEF SoundMessage, Message, IsVouched
    <2>2. QED BY <1>6, <2>1 DEF Handle, HandlePing
<1>7. QED BY <1>1, <1>2, <1>3, <1>4, <1>5, <1>6 DEF Handlers

------------------------------------------------------------------------------
(* Steps                                                                   *)

\* What a step leaves of the request for r, by fields.
Moves(r, stage, m) ==
    /\ at' = [at EXCEPT ![r] = stage] /\ stage \in Idle..Saved
    /\ msg' = [msg EXCEPT ![r] = m] /\ SoundMessage(m)

LEMMA Moved ==
    ASSUME TypeOK, MessagesAreSound, NEW r \in Raws, NEW stage, NEW m, Moves(r, stage, m)
    PROVE  /\ at' \in [Raws -> Idle..Saved] /\ msg' \in [Raws -> Message] /\ MessagesAreSound'
           /\ at'[r] = stage /\ \A o \in Raws : o # r => at'[o] = at[o]
<1>1. at' \in [Raws -> Idle..Saved] /\ at'[r] = stage /\ \A o \in Raws : o # r => at'[o] = at[o]
    BY DEF Moves, TypeOK
<1>2. m \in Message
    BY DEF Moves, SoundMessage
<1>3. msg' \in [Raws -> Message]
    BY <1>2 DEF Moves, TypeOK
<1>4. msg'[r] = m /\ \A o \in Raws : o # r => msg'[o] = msg[o]
    BY DEF Moves, TypeOK
<1>5. ASSUME NEW o \in Raws PROVE SoundMessage(msg'[o])
    BY <1>4, <1>5 DEF Moves, MessagesAreSound
<1>6. QED BY <1>1, <1>3, <1>5 DEF MessagesAreSound, SoundMessage

\* A request that ends.
LEMMA Ended ==
    ASSUME HandlingAssumption, IInv, NEW r \in Raws, NEW answer, Ends(r, answer)
    PROVE  Moves(r, Idle, NoMessage)
<1>1. Idle \in Idle..Saved
    BY DEF HandlingAssumption, Idle, Saved
<1>2. SoundMessage(NoMessage)
    BY NewMessageIsSound DEF Forms
<1>3. QED BY <1>1, <1>2 DEF Ends, Moves
Answered == {"none", "lost", "rejected", "reply", "id"}
Events == {"validatedMessage", "savedMessage", "error"} \X Raws

\* A step that moves the request for r, stores nothing but what r is, answers
\* only what was saved, and counts the responses to pings, keeps the invariant.
LEMMA Preserves ==
    ASSUME HandlingAssumption, IInv, NEW r \in Raws, NEW stage, NEW m, Moves(r, stage, m),
           tries' \in [Raws -> 0..MaxTries], \A o \in Raws : tries[o] <= tries'[o],
           answers' \in [Raws -> Answered],
           \A o \in Raws : answers'[o] \in {"reply", "id"} => answers'[o] = answers[o] \/ (o = r /\ at[r] = Saved),
           pongs' \in [Raws -> Nat], \A o \in Raws : o # r => pongs'[o] = pongs[o],
           pongs'[r] <= tries'[r], stage \in 1 .. Len(Chain) => pongs'[r] + 1 <= tries'[r],
           stored' = stored \/ stored' = Stored(r), stage = Saved => stored' = Stored(r),
           events' \subseteq Events
    PROVE  IInv'
<1>0. /\ TypeOK /\ MessagesAreSound /\ MaxTries \in Nat
      /\ Raws \subseteq Raw
    BY DEF IInv, HandlingAssumption
<1>1. /\ at' \in [Raws -> Idle..Saved] /\ msg' \in [Raws -> Message] /\ MessagesAreSound'
      /\ at'[r] = stage /\ \A o \in Raws : o # r => at'[o] = at[o]
    BY <1>0, Moved
<1>2. msg[r] \in Message /\ SoundMessage(msg[r])
    BY <1>0 DEF TypeOK, MessagesAreSound
<1>3. \A s \in stored' : (s \in stored \/ s = <<r, msg[r]>>)
    BY DEF Stored
<1>4. \A s \in stored' : s[1] \in Raws /\ s[2] \in Message /\ IsVouched(s[2])
    BY <1>0, <1>2, <1>3 DEF TypeOK, IInv, ListedWasVerified, IsVouched, SoundMessage
<1>5. TypeOK' /\ ListedWasVerified'
    BY <1>1, <1>4 DEF TypeOK, ListedWasVerified, IsVouched, Answered, Events, Idle, Saved
<1>15. ASSUME stored' = Stored(r) PROVE \E s \in stored' : s[1] = r
    <2>1. <<r, msg[r]>> \in stored'
        BY <1>15 DEF Stored
    <2>2. <<r, msg[r]>>[1] = r
        OBVIOUS
    <2>3. QED BY <2>1, <2>2
<1>6. ASSUME NEW o \in Raws, IsStored(o) PROVE IsStored(o)'
    <2>1. PICK s \in stored : s[1] = o
        BY <1>6 DEF IsStored
    <2>2. CASE stored' = stored
        BY <2>1, <2>2 DEF IsStored
    <2>3. CASE stored' = Stored(r) /\ o = r
        BY <1>15, <2>3 DEF IsStored
    <2>4. CASE stored' = Stored(r) /\ o # r
        <3>1. RowId(s[1], s[2]) # RowId(r, msg[r])
            BY <2>1, <2>4 DEF RowId
        <3>2. s \in stored'
            BY <2>1, <2>4, <3>1 DEF Stored
        <3>3. QED BY <2>1, <3>2 DEF IsStored
    <2>5. QED BY <2>2, <2>3, <2>4
<1>7. stage = Saved => IsStored(r)'
    BY <1>15 DEF IsStored
<1>8. SavedIsStored'
    <2>1. \A o \in Raws : at'[o] = Saved => IsStored(o)'
        BY <1>1, <1>6, <1>7 DEF IInv, SavedIsStored
    <2>2. QED BY <2>1 DEF SavedIsStored, Saved
<1>9. AnsweredIsStored'
    <2>1. \A o \in Raws : answers'[o] \in {"reply", "id"} => IsStored(o)
        BY DEF IInv, SavedIsStored, AnsweredIsStored, IsStored
    <2>2. QED BY <1>6, <2>1 DEF AnsweredIsStored, IsStored
<1>10. /\ \A o \in Raws : pongs[o] \in Nat /\ tries[o] \in Nat /\ tries'[o] \in Nat /\ pongs'[o] \in Nat
    BY <1>0 DEF TypeOK
<1>11. PongIsOpen' /\ OnePongPerRequest'
    <2>1. ASSUME NEW o \in Raws
          PROVE  pongs'[o] <= tries'[o] /\ (at'[o] \in 1 .. Len(Chain) => pongs'[o] + 1 <= tries'[o])
        <3>1. /\ pongs[o] <= tries[o] /\ tries[o] <= tries'[o]
              /\ at[o] \in 1 .. Len(Chain) => pongs[o] + 1 <= tries[o]
            BY DEF IInv, PongIsOpen, OnePongPerRequest
        <3>2. CASE o = r
            BY <1>1, <3>2
        <3>3. CASE o # r
            BY <1>1, <1>10, <3>1, <3>3
        <3>4. QED BY <3>2, <3>3
    <2>2. QED BY <2>1 DEF PongIsOpen, OnePongPerRequest
<1>12. QED BY <1>1, <1>5, <1>8, <1>9, <1>11 DEF IInv

LEMMA PostStep ==
    ASSUME HandlingAssumption, IInv, NEW r \in Raws, Post(r)
    PROVE  IInv'
<1>1. /\ TypeOK /\ r.form \in Forms /\ MaxTries \in Nat /\ Len(Chain) \in Nat
    BY DEF IInv, HandlingAssumption, Raw
<1> DEFINE new == [NoMessage EXCEPT !.form = r.form]
<1>2. SoundMessage(new) /\ 1 \in Idle..Saved
    BY <1>1, NewMessageIsSound DEF Idle, Saved
<1>8. at' = [at EXCEPT ![r] = 1] /\ msg' = [msg EXCEPT ![r] = new]
    BY DEF Post
<1> HIDE DEF new
<1>9. PICK stage : stage = 1 /\ Moves(r, stage, new)
    BY <1>2, <1>8 DEF Moves
<1>3. /\ tries' = [tries EXCEPT ![r] = tries[r] + 1] /\ tries[r] < MaxTries
      /\ UNCHANGED <<stored, answers, pongs, events>>
    BY DEF Post
<1>4. /\ tries' \in [Raws -> 0..MaxTries] /\ \A o \in Raws : tries[o] <= tries'[o]
      /\ tries'[r] = tries[r] + 1
    BY <1>1, <1>3 DEF TypeOK
<1>5. pongs[r] <= tries[r] /\ pongs[r] \in Nat /\ tries[r] \in Nat
    BY <1>1 DEF IInv, OnePongPerRequest, TypeOK
<1>6. pongs'[r] <= tries'[r] /\ pongs'[r] + 1 <= tries'[r]
    BY <1>3, <1>4, <1>5
<1>7. /\ 1 # Saved
      /\ answers' \in [Raws -> Answered] /\ pongs' \in [Raws -> Nat] /\ events' \subseteq Events
      /\ \A o \in Raws : answers'[o] = answers[o] /\ pongs'[o] = pongs[o]
      /\ stored' = stored
    BY <1>1, <1>3 DEF TypeOK, Answered, Events, Saved
<1>10. /\ \A o \in Raws : answers'[o] \in {"reply", "id"} => answers'[o] = answers[o] \/ (o = r /\ at[r] = Saved)
       /\ \A o \in Raws : o # r => pongs'[o] = pongs[o]
       /\ stored' = stored \/ stored' = Stored(r)
       /\ stage = Saved => stored' = Stored(r)
       /\ stage \in 1 .. Len(Chain) => pongs'[r] + 1 <= tries'[r]
    BY <1>6, <1>7, <1>9
<1>11. QED
    BY <1>4, <1>6, <1>7, <1>9, <1>10, Preserves

\* A request whose end is no answer.
LEMMA EndStep ==
    ASSUME HandlingAssumption, IInv, NEW r \in Raws, NEW answer \in Answered, Ends(r, answer),
           answer \in {"reply", "id"} => at[r] = Saved,
           UNCHANGED <<tries, stored, pongs>>, events' \subseteq Events
    PROVE  IInv'
<1>1. TypeOK /\ Moves(r, Idle, NoMessage) /\ Len(Chain) \in Nat /\ MaxTries \in Nat
    BY Ended DEF IInv, HandlingAssumption
<1>2. /\ answers' = [answers EXCEPT ![r] = answer] /\ answers \in [Raws -> Answered]
    BY <1>1 DEF Ends, TypeOK, Answered
<1>3. /\ answers' \in [Raws -> Answered]
      /\ \A o \in Raws : answers'[o] \in {"reply", "id"} => answers'[o] = answers[o] \/ (o = r /\ at[r] = Saved)
    BY <1>2
<1>4. pongs[r] <= tries[r] /\ Idle # Saved /\ Idle \notin 1 .. Len(Chain)
    BY <1>1 DEF IInv, OnePongPerRequest, Idle, Saved
<1>5. \A o \in Raws : tries[o] \in Nat
    BY <1>1 DEF TypeOK
<1>6. /\ tries' \in [Raws -> 0..MaxTries] /\ \A o \in Raws : tries[o] <= tries'[o]
      /\ pongs' \in [Raws -> Nat] /\ \A o \in Raws : o # r => pongs'[o] = pongs[o]
    BY <1>1, <1>5 DEF TypeOK
<1>7. PICK stage : stage = Idle /\ Moves(r, stage, NoMessage)
    BY <1>1
<1>8. /\ pongs'[r] <= tries'[r]
      /\ stage \in 1 .. Len(Chain) => pongs'[r] + 1 <= tries'[r]
      /\ stage = Saved => stored' = Stored(r)
    BY <1>4, <1>7
<1>9. QED BY <1>3, <1>6, <1>7, <1>8, Preserves

\* A request that goes on to another stage.
LEMMA StageStep ==
    ASSUME HandlingAssumption, IInv, NEW r \in Raws, NEW stage, NEW m, Moves(r, stage, m), stage # Saved,
           at[r] \in 1 .. Len(Chain) + 1,
           stage \in 1 .. Len(Chain) => pongs' = pongs /\ at[r] \in 1 .. Len(Chain),
           pongs' = pongs \/ (pongs' = [pongs EXCEPT ![r] = pongs[r] + 1] /\ at[r] \in 1 .. Len(Chain)),
           UNCHANGED <<tries, stored, answers, events>>
    PROVE  IInv'
<1>1. TypeOK /\ Len(Chain) \in Nat /\ MaxTries \in Nat
    BY DEF IInv, HandlingAssumption
<1>2. /\ pongs[r] <= tries[r] /\ pongs[r] \in Nat /\ tries[r] \in Nat
      /\ at[r] \in 1 .. Len(Chain) => pongs[r] + 1 <= tries[r]
    BY <1>1 DEF IInv, OnePongPerRequest, PongIsOpen, TypeOK
<1>3. pongs' \in [Raws -> Nat] /\ \A o \in Raws : o # r => pongs'[o] = pongs[o]
    BY <1>1 DEF TypeOK
<1>4. pongs'[r] <= tries'[r] /\ (stage \in 1 .. Len(Chain) => pongs'[r] + 1 <= tries'[r])
    BY <1>1, <1>2 DEF TypeOK
<1>5. \A o \in Raws : tries[o] \in Nat
    BY <1>1 DEF TypeOK
<1>6. QED BY <1>1, <1>3, <1>4, <1>5, Preserves, SMTT(40) DEF TypeOK, Answered, Events

\* An exception is caught, or rejects the request.
LEMMA CaughtStep ==
    ASSUME HandlingAssumption, IInv, NEW r \in Raws, Caught(r), at[r] \in 1 .. Len(Chain) + 1,
           UNCHANGED <<tries, stored, pongs>>
    PROVE  IInv'
<1>1. TypeOK /\ Len(Chain) \in Nat /\ MessagesAreSound
    BY DEF IInv, HandlingAssumption
<1>2. CASE msg[r].unpacked
    <2>1. Moves(r, Handled, msg[r])
        BY <1>1, <1>2 DEF Caught, Moves, TypeOK, MessagesAreSound, Handled, Idle, Saved
    <2>2. Handled # Saved /\ Handled \notin 1 .. Len(Chain)
        BY <1>1 DEF Handled, Saved
    <2>3. QED BY <1>2, <2>1, <2>2, StageStep DEF Caught
<1>3. CASE ~msg[r].unpacked
    <2>1. Ends(r, "rejected") /\ events' \subseteq Events
        BY <1>1, <1>3 DEF Caught, Rejects, TypeOK, Events
    <2>2. QED BY <2>1, EndStep DEF Answered
<1>4. QED BY <1>2, <1>3

LEMMA RunStep ==
    ASSUME HandlingAssumption, IInv, NEW r \in Raws, RunHandler(r)
    PROVE  IInv'
<1> DEFINE o == Handle(Chain[at[r]], r, msg[r])
<1>1. /\ TypeOK /\ Len(Chain) \in Nat /\ at[r] \in 1 .. Len(Chain) /\ r \in Raw /\ SoundMessage(msg[r])
      /\ Chain[at[r]] \in Handlers
    <2>1. TypeOK /\ Chain \in Seq(Handlers) /\ r \in Raw /\ SoundMessage(msg[r])
        BY DEF IInv, MessagesAreSound, HandlingAssumption
    <2>2. at[r] \in 1 .. Len(Chain)
        BY DEF RunHandler
    <2>3. QED BY <2>1, <2>2
<1>2. \A n : n \in o.passes \cup o.ends => SoundMessage(n)
    BY <1>1, HandlersKeepSound
<1>3. UNCHANGED <<tries, stored>>
    BY DEF RunHandler
<1>4. \/ \E m \in o.passes :
            /\ msg' = [msg EXCEPT ![r] = m] /\ at' = [at EXCEPT ![r] = at[r] + 1]
            /\ UNCHANGED <<answers, pongs, events>>
      \/ \E m \in o.ends :
            /\ msg' = [msg EXCEPT ![r] = m] /\ at' = [at EXCEPT ![r] = Handled]
            /\ \E posted \in 0..1 : pongs' = [pongs EXCEPT ![r] = pongs[r] + posted]
            /\ UNCHANGED <<answers, events>>
      \/ Caught(r) /\ UNCHANGED pongs
    BY DEF RunHandler
<1> HIDE DEF o
<1>5. CASE \E m \in o.passes :
            /\ msg' = [msg EXCEPT ![r] = m] /\ at' = [at EXCEPT ![r] = at[r] + 1]
            /\ UNCHANGED <<answers, pongs, events>>
    <2>1. PICK m \in o.passes :
            /\ msg' = [msg EXCEPT ![r] = m] /\ at' = [at EXCEPT ![r] = at[r] + 1]
            /\ UNCHANGED <<answers, pongs, events>>
        BY <1>5
    <2>2. PICK stage : stage = at[r] + 1
        OBVIOUS
    <2>3. Moves(r, stage, m) /\ stage # Saved
        BY <1>1, <1>2, <2>1, <2>2 DEF Moves, Idle, Saved
    <2>4. QED BY <1>1, <1>3, <2>1, <2>3, StageStep
<1>6. CASE \E m \in o.ends :
            /\ msg' = [msg EXCEPT ![r] = m] /\ at' = [at EXCEPT ![r] = Handled]
            /\ \E posted \in 0..1 : pongs' = [pongs EXCEPT ![r] = pongs[r] + posted]
            /\ UNCHANGED <<answers, events>>
    <2>1. PICK m \in o.ends, posted \in 0..1 :
            /\ msg' = [msg EXCEPT ![r] = m] /\ at' = [at EXCEPT ![r] = Handled]
            /\ pongs' = [pongs EXCEPT ![r] = pongs[r] + posted]
            /\ UNCHANGED <<answers, events>>
        BY <1>6
    <2>2. Moves(r, Handled, m) /\ Handled # Saved /\ Handled \notin 1 .. Len(Chain)
        BY <1>1, <1>2, <2>1 DEF Moves, Handled, Idle, Saved
    <2>3. pongs' = pongs \/ pongs' = [pongs EXCEPT ![r] = pongs[r] + 1]
        <3>1. CASE posted = 0
            BY <1>1, <2>1, <3>1 DEF TypeOK
        <3>2. CASE posted = 1
            BY <2>1, <3>2
        <3>3. QED BY <3>1, <3>2
    <2>4. PICK stage : stage = Handled /\ Moves(r, stage, m) /\ stage # Saved /\ stage \notin 1 .. Len(Chain)
        BY <2>2
    <2>5. /\ at[r] \in 1 .. Len(Chain) + 1
          /\ pongs' = pongs \/ (pongs' = [pongs EXCEPT ![r] = pongs[r] + 1] /\ at[r] \in 1 .. Len(Chain))
          /\ UNCHANGED <<tries, stored, answers, events>>
        BY <1>1, <1>3, <2>1, <2>3
    <2>6. QED BY <2>4, <2>5, StageStep
<1>7. CASE Caught(r) /\ UNCHANGED pongs
    BY <1>1, <1>3, <1>7, CaughtStep
<1>8. QED BY <1>4, <1>5, <1>6, <1>7

LEMMA SaveStep ==
    ASSUME HandlingAssumption, IInv, NEW r \in Raws, Save(r)
    PROVE  IInv'
<1>1. TypeOK /\ Len(Chain) \in Nat /\ MaxTries \in Nat /\ SoundMessage(msg[r])
    BY DEF IInv, HandlingAssumption, MessagesAreSound
<1>2. CASE /\ stored' = Stored(r) /\ events' = events \cup {<<"validatedMessage", r>>, <<"savedMessage", r>>}
           /\ at' = [at EXCEPT ![r] = Saved] /\ UNCHANGED <<msg, answers>>
    <2>1. Moves(r, Saved, msg[r]) /\ Saved \notin 1 .. Len(Chain)
        BY <1>1, <1>2 DEF Moves, TypeOK, Idle, Saved
    <2>2. events' \subseteq Events
        BY <1>1, <1>2 DEF TypeOK, Events
    <2>3. /\ tries' \in [Raws -> 0..MaxTries] /\ \A o \in Raws : tries[o] <= tries'[o]
          /\ answers' \in [Raws -> Answered] /\ answers' = answers
          /\ pongs' \in [Raws -> Nat] /\ pongs' = pongs
          /\ pongs'[r] <= tries'[r]
        BY <1>1, <1>2 DEF Save, TypeOK, Answered, IInv, OnePongPerRequest
    <2>4. PICK stage, m : stage = Saved /\ Moves(r, stage, m)
        BY <2>1
    <2>5. /\ \A o \in Raws : answers'[o] \in {"reply", "id"} => answers'[o] = answers[o] \/ (o = r /\ at[r] = Saved)
          /\ \A o \in Raws : o # r => pongs'[o] = pongs[o]
          /\ stage \in 1 .. Len(Chain) => pongs'[r] + 1 <= tries'[r]
          /\ stored' = stored \/ stored' = Stored(r)
          /\ stage = Saved => stored' = Stored(r)
        BY <1>2, <2>1, <2>3, <2>4
    <2>6. QED BY <2>2, <2>3, <2>4, <2>5, Preserves
<1>3. CASE events' = events \cup {<<"validatedMessage", r>>, <<"error", r>>} /\ Ends(r, "rejected") /\ UNCHANGED stored
    <2>1. events' \subseteq Events /\ UNCHANGED <<tries, stored, pongs>>
        BY <1>1, <1>3 DEF TypeOK, Events, Save
    <2>2. QED BY <1>3, <2>1, EndStep DEF Answered
<1>4. QED BY <1>2, <1>3 DEF Save

LEMMA IInvInit ==
    ASSUME HandlingAssumption, Init
    PROVE  IInv
<1>1. Len(Chain) \in Nat /\ MaxTries \in Nat
    BY DEF HandlingAssumption
<1>2. SoundMessage(NoMessage) /\ NoMessage \in Message
    BY NewMessageIsSound DEF Forms, SoundMessage
<1>3. TypeOK
    BY <1>1, <1>2 DEF Init, TypeOK, Idle, Saved
<1>4. MessagesAreSound
    BY <1>2 DEF Init, MessagesAreSound
<1>5. SavedIsStored /\ PongIsOpen
    BY <1>1 DEF Init, SavedIsStored, PongIsOpen, Idle, Saved
<1>6. ListedWasVerified /\ AnsweredIsStored /\ OnePongPerRequest
    BY DEF Init, ListedWasVerified, AnsweredIsStored, OnePongPerRequest
<1>7. QED BY <1>3, <1>4, <1>5, <1>6 DEF IInv

LEMMA IInvStep ==
    ASSUME HandlingAssumption, IInv, [Next]_vars
    PROVE  IInv'
<1>1. ASSUME NEW r \in Raws, Post(r) PROVE IInv'
    BY <1>1, PostStep
<1>2. ASSUME NEW r \in Raws, RunHandler(r) PROVE IInv'
    BY <1>2, RunStep
<1>3. ASSUME NEW r \in Raws, Unsupported(r) PROVE IInv'
    <2>1. at[r] \in 1 .. Len(Chain) + 1
        BY <1>3 DEF Unsupported, HandlingAssumption
    <2>2. QED BY <1>3, <2>1, CaughtStep DEF Unsupported
<1>4. ASSUME NEW r \in Raws, Save(r) PROVE IInv'
    BY <1>4, SaveStep
<1>5. ASSUME NEW r \in Raws, Answer(r) \/ Lose(r) PROVE IInv'
    <2>1. events' \subseteq Events /\ UNCHANGED <<tries, stored, pongs>>
        BY <1>5 DEF IInv, TypeOK, Events, Answer, Lose
    <2>2. \E answer \in Answered : Ends(r, answer) /\ (answer \in {"reply", "id"} => at[r] = Saved)
        BY <1>5 DEF Answer, Lose, Answered
    <2>3. QED BY <2>1, <2>2, EndStep
<1>6. CASE UNCHANGED vars
    BY <1>6 DEF vars, IInv, TypeOK, MessagesAreSound, SoundMessage, SavedIsStored, IsStored, PongIsOpen,
                ListedWasVerified, AnsweredIsStored, OnePongPerRequest, Saved, Idle
<1>7. QED BY <1>1, <1>2, <1>3, <1>4, <1>5, <1>6 DEF Next, Work

LEMMA Inductive ==
    ASSUME HandlingAssumption
    PROVE  Spec => []IInv
<1>1. Init => IInv
    BY IInvInit
<1>2. IInv /\ [Next]_vars => IInv'
    BY IInvStep
<1>3. QED BY <1>1, <1>2, PTL DEF Spec

------------------------------------------------------------------------------
(* What holds of every chain                                               *)

\* The state stays of its type: no request leaves the chain but by its ends.
THEOREM TypeCorrect ==
    ASSUME HandlingAssumption
    PROVE  Spec => []TypeOK
<1>1. IInv => TypeOK
    BY DEF IInv
<1>2. QED BY <1>1, Inductive, PTL

\* In whatever order the handlers are chained, a message is stored with a
\* presentation only after its signature was verified, and with a credential only
\* after its own was or that of the presentation that it came in, an answered
\* message is stored, and a ping is answered by itself at most once per request.
THEOREM HandledSoundly ==
    ASSUME HandlingAssumption
    PROVE  Spec => []HandlingIsSound
<1>1. IInv => HandlingIsSound
    BY DEF IInv, HandlingIsSound
<1>2. QED BY <1>1, Inductive, PTL

\* No handler behind the DIDComm handler makes the agent reject a message that
\* was unpacked, in whatever order they are chained.
THEOREM UnpackedStays ==
    ASSUME HandlingAssumption
    PROVE  Spec => UnpackedIsKept
<1> DEFINE Kept == \A r \in Raws :
                     msg[r].unpacked /\ at[r] \in 1..(Len(Chain) + 1) /\ at'[r] = Idle => answers'[r] = "lost"
<1>1. ASSUME HandlingAssumption, IInv, [Next]_vars PROVE [Kept]_vars
    <2>1. CASE UNCHANGED vars
        BY <2>1
    <2>2. CASE Next
        <3>1. TypeOK /\ Len(Chain) \in Nat
            BY <1>1 DEF IInv, HandlingAssumption
        <3>2. ASSUME NEW r \in Raws, msg[r].unpacked, at[r] \in 1..(Len(Chain) + 1), at'[r] = Idle
              PROVE  answers'[r] = "lost"
            <4>1. PICK o \in Raws : Post(o) \/ Work(o) \/ Lose(o)
                BY <2>2 DEF Next
            <4>2. o = r
                BY <3>1, <3>2, <4>1 DEF TypeOK, Post, Work, RunHandler, Unsupported, Save, Answer, Lose,
                                        Caught, Rejects, Ends, Idle
            <4>3. ~Post(r) /\ ~Save(r) /\ ~Answer(r)
                BY <3>1, <3>2 DEF Post, Save, Answer, Idle, Handled, Saved
            <4>4. ASSUME RunHandler(r) \/ Unsupported(r) PROVE FALSE
                <5>1. \E stage \in {at[r] + 1, Handled} : at' = [at EXCEPT ![r] = stage]
                    BY <3>2, <4>4 DEF RunHandler, Unsupported, Caught
                <5>2. at'[r] = at[r] + 1 \/ at'[r] = Handled
                    BY <3>1, <5>1 DEF TypeOK
                <5>3. QED BY <3>1, <3>2, <5>2 DEF Idle, Handled
            <4>5. Lose(r)
                BY <4>1, <4>2, <4>3, <4>4 DEF Work
            <4>6. QED BY <3>1, <4>5 DEF Lose, Ends, TypeOK
        <3>3. QED BY <3>2
    <2>3. QED BY <1>1, <2>1, <2>2
<1>2. QED BY <1>1, Inductive, PTL DEF Spec, UnpackedIsKept

------------------------------------------------------------------------------
(* The credentials that messages carry (Credentials): what verifies, in    *)
(* each format, for any keys of the issuer and any identifiers.            *)

Issued == [format: Cr!Formats, by: Cr!Kids, exp: 0 .. MaxDay, status: BOOLEAN]

\* The keys of the identifier are those it was made with, but for their types when
\* the store shares them.
KeysAreTheIssuers ==
    /\ \A i \in DOMAIN IssuerKeys :
          /\ ring[i].kid = IssuerKeys[i].kid /\ ring[i].algs = IssuerKeys[i].algs
          /\ ring[i].type \in {IssuerKeys[i].type, "X25519"}
    /\ ~SharedKeys => ring = IssuerKeys

WhatWasIssued ==
    /\ vc = Cr!Nothing \/ vc \in Issued
    /\ verdict.is # "none" => vc # Cr!Nothing
    /\ revoked => vc # Cr!Nothing /\ vc.status

WhatWasPresented ==
    /\ vp # Cr!Nothing => vp.format \in Cr!Formats /\ (vp.aud \in Audiences \/ vp.aud = {})
    /\ aimed.is # "none" => vp # Cr!Nothing

CrInv ==
    /\ Cr!TypeOK
    /\ KeysAreTheIssuers
    /\ WhatWasIssued
    /\ WhatWasPresented
    /\ Cr!OnlyValidVerifies
    /\ Cr!IssuedIsAccepted
    /\ Cr!AcceptedIfMeantForUs

LEMMA CrInit ==
    ASSUME Cr!CredentialsAssumption, Cr!Init
    PROVE  CrInv
<1>2. /\ verdict.is = "none" /\ aimed.is = "none" /\ vc.format = "none" /\ vp.format = "none"
    BY DEF Cr!Init, Cr!Nothing
<1>1. Cr!TypeOK
    <2>1. ring = IssuerKeys /\ doc \subseteq Cr!Kids /\ day = 0 /\ revoked = FALSE
        BY DEF Cr!Init
    <2>2. IssuerKeys \in Seq(Cr!Key) /\ 0 \in 0 .. MaxDay
        BY DEF Cr!CredentialsAssumption
    <2>3. QED BY <1>2, <2>1, <2>2 DEF Cr!TypeOK
<1>3. QED BY <1>1, <1>2 DEF Cr!Init, CrInv, KeysAreTheIssuers, WhatWasIssued, WhatWasPresented,
        Cr!OnlyValidVerifies, Cr!VerifiedIsGenuine, Cr!RevokedIsRefused, Cr!ExpiredIsRefused,
        Cr!IssuedIsAccepted, Cr!AcceptedIfMeantForUs

\* The first place of some is one of them.
LEMMA LeastPlace ==
    ASSUME NEW T \in SUBSET Nat, T # {}
    PROVE  Cr!Least(T) \in T
BY Least DEF Cr!Least

\* What signs is a key of the issuer.
LEMMA SignerIsTheIssuers ==
    ASSUME NEW f \in Cr!Formats, NEW ref, Cr!Signer(f, ref) # Cr!NoKey
    PROVE  Cr!Signer(f, ref).kid \in Cr!Kids
BY DEF Cr!Formats, Cr!Signer, Cr!JwtSigner, Cr!LdSigner, Cr!Eip712Signer, Cr!CanSign, Cr!Kids

LEMMA IssueStep ==
    ASSUME CrInv, NEW f \in Cr!Formats, NEW ref, NEW exp \in 0 .. MaxDay, NEW status \in BOOLEAN,
           Cr!Issue(f, ref, exp, status)
    PROVE  CrInv'
<1> USE DEF CrInv
<1>1. /\ Cr!Signer(f, ref).kid \in Cr!Kids
    BY SignerIsTheIssuers DEF Cr!Issue
<1>2. vc' \in Issued /\ vc'.format # "none" /\ vc' # Cr!Nothing
    BY <1>1 DEF Cr!Issue, Issued, Cr!Formats, Cr!Nothing
<1>3. UNCHANGED <<ring, doc, day, revoked, verdict, vp, aimed>> /\ verdict.is = "none" /\ ~revoked
    BY DEF Cr!Issue, WhatWasIssued
<1>4. Cr!TypeOK'
    BY <1>2, <1>3 DEF Cr!TypeOK, Issued
<1>5. QED BY <1>2, <1>3, <1>4 DEF KeysAreTheIssuers, WhatWasIssued, WhatWasPresented,
        Cr!OnlyValidVerifies, Cr!VerifiedIsGenuine, Cr!RevokedIsRefused, Cr!ExpiredIsRefused,
        Cr!IssuedIsAccepted, Cr!AcceptedIfMeantForUs

LEMMA KeysStep ==
    ASSUME Cr!CredentialsAssumption, CrInv, Cr!MapKeysToDoc
    PROVE  CrInv'
<1> USE DEF CrInv
<1>1. CASE ~SharedKeys
    BY <1>1, ZenonT(40) DEF Cr!MapKeysToDoc, Cr!Converted, Cr!TypeOK, KeysAreTheIssuers, WhatWasIssued, WhatWasPresented,
        Cr!OnlyValidVerifies, Cr!VerifiedIsGenuine, Cr!RevokedIsRefused, Cr!ExpiredIsRefused,
        Cr!IssuedIsAccepted, Cr!AcceptedIfMeantForUs
<1>2. CASE SharedKeys
    <2>1. /\ ring \in Seq(Cr!Key) /\ Len(ring) = Len(IssuerKeys) /\ IssuerKeys \in Seq(Cr!Key)
          /\ DOMAIN ring = 1 .. Len(ring) /\ DOMAIN ring = DOMAIN IssuerKeys
        BY DEF Cr!TypeOK, Cr!CredentialsAssumption
    <2>2. ring' = [i \in DOMAIN ring |-> IF ring[i].type = "Ed25519" THEN [ring[i] EXCEPT !.type = "X25519"] ELSE ring[i]]
        BY <1>2 DEF Cr!MapKeysToDoc, Cr!Converted, Cr!ConvertedInPlace
    <2>3. ASSUME NEW k \in Cr!Key
          PROVE  /\ [k EXCEPT !.type = "X25519"] \in Cr!Key
                 /\ [k EXCEPT !.type = "X25519"].kid = k.kid
                 /\ [k EXCEPT !.type = "X25519"].algs = k.algs
                 /\ [k EXCEPT !.type = "X25519"].type = "X25519"
        BY DEF Cr!Key
    <2>4. /\ ring' \in [DOMAIN ring -> Cr!Key]
          /\ \A i \in DOMAIN ring : /\ ring'[i].kid = ring[i].kid /\ ring'[i].algs = ring[i].algs
                                    /\ ring'[i].type \in {ring[i].type, "X25519"}
        <3>1. \A i \in DOMAIN ring : ring[i] \in Cr!Key
            BY <2>1
        <3>2. QED BY <2>2, <2>3, <3>1
    <2>5. ring' \in Seq(Cr!Key) /\ Len(ring') = Len(ring)
        BY <2>1, <2>4
    <2>6. Cr!TypeOK' /\ KeysAreTheIssuers'
        BY <1>2, <2>1, <2>4, <2>5 DEF Cr!TypeOK, KeysAreTheIssuers, Cr!MapKeysToDoc
    <2>7. QED BY <2>6, ZenonT(40) DEF Cr!MapKeysToDoc, WhatWasIssued, WhatWasPresented,
        Cr!OnlyValidVerifies, Cr!VerifiedIsGenuine, Cr!RevokedIsRefused, Cr!ExpiredIsRefused,
        Cr!IssuedIsAccepted, Cr!AcceptedIfMeantForUs
<1>3. QED BY <1>1, <1>2

\* Of the document, the time and the status, a verdict keeps what it was given on.
LEMMA SurroundingsStep ==
    ASSUME Cr!CredentialsAssumption, CrInv,
           (\E kids \in SUBSET Cr!Kids : Cr!Rotate(kids)) \/ Cr!Revoke \/ Cr!Tick
    PROVE  CrInv'
<1> USE DEF CrInv
<1>1. Cr!TypeOK'
    <2>1. ASSUME NEW kids \in SUBSET Cr!Kids, Cr!Rotate(kids) PROVE Cr!TypeOK'
        BY <2>1 DEF Cr!Rotate, Cr!TypeOK
    <2>2. ASSUME Cr!Revoke PROVE Cr!TypeOK'
        BY <2>2 DEF Cr!Revoke, Cr!TypeOK
    <2>3. ASSUME Cr!Tick PROVE Cr!TypeOK'
        BY <2>3 DEF Cr!Tick, Cr!TypeOK, Cr!CredentialsAssumption
    <2>4. QED BY <2>1, <2>2, <2>3
<1>2. UNCHANGED <<ring, vc, verdict, vp, aimed>> /\ (revoked' => vc # Cr!Nothing /\ vc.status)
    BY DEF Cr!Rotate, Cr!Revoke, Cr!Tick, WhatWasIssued
<1>3. KeysAreTheIssuers' /\ WhatWasIssued' /\ WhatWasPresented'
    BY <1>2 DEF KeysAreTheIssuers, WhatWasIssued, WhatWasPresented
<1>4. Cr!OnlyValidVerifies'
    BY <1>2 DEF Cr!OnlyValidVerifies, Cr!VerifiedIsGenuine, Cr!RevokedIsRefused, Cr!ExpiredIsRefused
<1>5. Cr!IssuedIsAccepted'
    BY <1>2 DEF Cr!IssuedIsAccepted
<1>6. Cr!AcceptedIfMeantForUs'
    BY <1>2 DEF Cr!AcceptedIfMeantForUs
<1>7. QED BY <1>1, <1>3, <1>4, <1>5, <1>6

LEMMA VerifyStep ==
    ASSUME Cr!CredentialsAssumption, CrInv, NEW shown \in Cr!Shown, NEW policies \in Cr!Policies,
           Cr!Verify(shown, policies)
    PROVE  CrInv'
<1> USE DEF CrInv
<1>1. /\ vc \in Issued /\ day \in Nat /\ vc.exp \in Nat
      /\ revoked \in BOOLEAN /\ (revoked => vc.status) /\ vc.status \in BOOLEAN
    BY DEF Cr!Verify, WhatWasIssued, Issued, Cr!TypeOK, Cr!CredentialsAssumption
<1>2. policies.expirationDate \in BOOLEAN /\ policies.credentialStatus \in BOOLEAN
    BY DEF Cr!Policies
<1>3. /\ verdict'.is = Cr!Verdict(shown, policies) /\ verdict'.shown = shown
      /\ verdict'.policies = policies /\ (verdict'.current <=> vc.by \in doc)
      /\ (verdict'.late <=> day > vc.exp) /\ (verdict'.revoked <=> revoked)
      /\ UNCHANGED <<ring, doc, day, revoked, vc, vp, aimed>>
    BY DEF Cr!Verify
<1>4. Cr!Verdict(shown, policies) = "verified" =>
        Cr!Valid(policies) /\ Cr!Intact(shown) /\ ~(policies.credentialStatus /\ Cr!IsRevoked)
    BY DEF Cr!Verdict
<1>5. Cr!Verdict(shown, policies) = "refused" =>
        ~ (Cr!Valid(policies) /\ Cr!Intact(shown) /\ ~(policies.credentialStatus /\ Cr!IsRevoked))
    BY DEF Cr!Verdict
<1>6. Cr!Verdict(shown, policies) \in {"verified", "refused", "threw"}
    BY DEF Cr!Verdict
<1>7. /\ Cr!Valid(policies) => vc.by \in doc
      /\ Cr!Valid(policies) => \/ day <= vc.exp
                               \/ vc.format = "jwt" /\ ~policies.expirationDate
                               \/ vc.format = "EthereumEip712Signature2021"
      /\ vc.by \in doc /\ day <= vc.exp => Cr!Valid(policies)
    BY <1>1, <1>2 DEF Cr!Valid, Cr!JwtValid, Cr!LdValid, Cr!Eip712Valid, Issued, Cr!Formats
<1>8. Cr!TypeOK'
    BY <1>3, <1>6 DEF Cr!TypeOK
<1>9. Cr!OnlyValidVerifies'
    <2>1. shown \in {"as issued", "altered"} \/ (vc.format = "jwt" /\ shown = "altered and retyped")
        BY DEF Cr!Shown
    <2>2. Cr!VerifiedIsGenuine'
        BY <1>3, <1>4, <1>7, <2>1 DEF Cr!VerifiedIsGenuine, Cr!Intact
    <2>3. Cr!RevokedIsRefused' /\ Cr!ExpiredIsRefused'
        BY <1>1, <1>2, <1>3, <1>4, <1>7 DEF Cr!RevokedIsRefused, Cr!ExpiredIsRefused, Cr!IsRevoked
    <2>4. QED BY <2>2, <2>3 DEF Cr!OnlyValidVerifies
<1>10. Cr!IssuedIsAccepted'
    <2>1. verdict'.is = "refused" => ~Cr!Valid(policies) \/ shown = "altered" \/ revoked
        BY <1>3, <1>5 DEF Cr!Intact, Cr!IsRevoked
    <2>2. ~Cr!Valid(policies) => ~verdict'.current \/ verdict'.late
        BY <1>1, <1>3, <1>7
    <2>3. QED BY <1>3, <2>1, <2>2 DEF Cr!IssuedIsAccepted
<1>11. vc # Cr!Nothing
    BY DEF Cr!Verify
<1>12. QED BY <1>3, <1>8, <1>9, <1>10, <1>11 DEF KeysAreTheIssuers, WhatWasIssued, WhatWasPresented,
        Cr!AcceptedIfMeantForUs

LEMMA PresentStep ==
    ASSUME CrInv, NEW f \in Cr!Formats, NEW ref, NEW aud \in Audiences, NEW challenge,
           Cr!Present(f, ref, aud, challenge)
    PROVE  CrInv'
<1> USE DEF CrInv
<1>1. vp'.format \in Cr!Formats /\ (vp'.aud = aud \/ vp'.aud = {})
    BY DEF Cr!Present, Cr!JwtPresentation, Cr!LdPresentation, Cr!Eip712Presentation, Cr!Formats
<1>2. UNCHANGED <<ring, doc, day, revoked, vc, verdict, aimed>> /\ aimed.is = "none"
    BY DEF Cr!Present, WhatWasPresented
<1>3. QED BY <1>1, <1>2 DEF Cr!TypeOK, KeysAreTheIssuers, WhatWasIssued, WhatWasPresented,
        Cr!OnlyValidVerifies, Cr!VerifiedIsGenuine, Cr!RevokedIsRefused, Cr!ExpiredIsRefused,
        Cr!IssuedIsAccepted, Cr!AcceptedIfMeantForUs

\* Our audience is one of those given exactly when some identifier of ours is.
LEMMA OurAudience ==
    ASSUME Cr!CredentialsAssumption, NEW aud, "none" \notin aud
    PROVE  Cr!Audience(aud) \in aud <=> \E i \in DOMAIN ManagedDIDs : ManagedDIDs[i] \in aud
<1> DEFINE mine == {i \in DOMAIN ManagedDIDs : ManagedDIDs[i] \in aud}
<1>1. mine \in SUBSET Nat
    BY DEF Cr!CredentialsAssumption
<1>2. CASE mine = {}
    BY <1>2 DEF Cr!Audience
<1>3. CASE mine # {}
    <2>1. Cr!Least(mine) \in mine
        BY <1>1, <1>3, LeastPlace
    <2>2. Cr!Audience(aud) = ManagedDIDs[Cr!Least(mine)]
        BY <1>3 DEF Cr!Audience
    <2>3. QED BY <2>1, <2>2
<1>4. QED BY <1>2, <1>3

LEMMA VerifyPresentationStep ==
    ASSUME Cr!CredentialsAssumption, CrInv, NEW domain, NEW challenge, Cr!VerifyPresentation(domain, challenge)
    PROVE  CrInv'
<1> USE DEF CrInv
<1>1. vp # Cr!Nothing /\ vp.format \in Cr!Formats /\ "none" \notin vp.aud
    BY DEF Cr!VerifyPresentation, WhatWasPresented, Cr!CredentialsAssumption
<1>2. Cr!Audience(vp.aud) \in vp.aud <=> \E i \in DOMAIN ManagedDIDs : ManagedDIDs[i] \in vp.aud
    BY <1>1, OurAudience
<1> DEFINE ok == CASE vp.format = "jwt" -> Cr!JwtPresented(domain, challenge)
                   [] vp.format = "lds" -> Cr!LdPresented(domain, challenge)
                   [] vp.format = "EthereumEip712Signature2021" -> Cr!Eip712Presented
<1>3. /\ aimed'.is = IF ok THEN "verified" ELSE "refused"
      /\ aimed'.domain = domain /\ aimed'.challenge = challenge /\ aimed'.current = (vp.by \in doc)
      /\ UNCHANGED <<ring, doc, day, revoked, vc, verdict, vp>>
    BY DEF Cr!VerifyPresentation
<1>4. /\ vp.format = "jwt" => (ok <=> Cr!JwtPresented(domain, challenge))
      /\ vp.format = "lds" => (ok <=> Cr!LdPresented(domain, challenge))
      /\ vp.format = "EthereumEip712Signature2021" => (ok <=> Cr!Eip712Presented)
    OBVIOUS
<1> HIDE DEF ok
<1>5. aimed'.is \in {"verified", "refused"} /\ (aimed'.is = "verified" <=> ok)
    BY <1>3
<1>6. Cr!AcceptedIfMeantForUs'
    <2>1. CASE vp.format = "jwt"
        BY <1>1, <1>2, <1>3, <1>4, <1>5, <2>1 DEF Cr!JwtPresented, Cr!MeantFor, Cr!AcceptedIfMeantForUs
    <2>2. CASE vp.format = "lds"
        BY <1>1, <1>3, <1>4, <1>5, <2>2 DEF Cr!LdPresented, Cr!AcceptedIfMeantForUs
    <2>3. CASE vp.format = "EthereumEip712Signature2021"
        BY <1>1, <1>3, <1>4, <1>5, <2>3 DEF Cr!Eip712Presented, Cr!AcceptedIfMeantForUs
    <2>4. QED BY <1>1, <2>1, <2>2, <2>3 DEF Cr!Formats
<1>7. QED BY <1>1, <1>3, <1>5, <1>6 DEF Cr!TypeOK, KeysAreTheIssuers, WhatWasIssued, WhatWasPresented,
        Cr!OnlyValidVerifies, Cr!VerifiedIsGenuine, Cr!RevokedIsRefused, Cr!ExpiredIsRefused,
        Cr!IssuedIsAccepted

LEMMA CrInductive ==
    ASSUME Cr!CredentialsAssumption
    PROVE  Cr!Spec => []CrInv
<1>1. Cr!Init => CrInv
    BY CrInit
<1>2. CrInv /\ [Cr!Next]_(Cr!vars) => CrInv'
    <2>1. ASSUME CrInv, UNCHANGED Cr!vars PROVE CrInv'
        <3>1. Cr!TypeOK'
            BY <2>1 DEF CrInv, Cr!vars, Cr!TypeOK
        <3>2. KeysAreTheIssuers' /\ WhatWasIssued' /\ WhatWasPresented'
            BY <2>1 DEF CrInv, Cr!vars, KeysAreTheIssuers, WhatWasIssued, WhatWasPresented
        <3>3. Cr!OnlyValidVerifies'
            BY <2>1 DEF CrInv, Cr!vars, Cr!OnlyValidVerifies, Cr!VerifiedIsGenuine,
                Cr!RevokedIsRefused, Cr!ExpiredIsRefused
        <3>4. Cr!IssuedIsAccepted' /\ Cr!AcceptedIfMeantForUs'
            BY <2>1 DEF CrInv, Cr!vars, Cr!IssuedIsAccepted, Cr!AcceptedIfMeantForUs
        <3>5. QED BY <3>1, <3>2, <3>3, <3>4 DEF CrInv
    <2>2. QED BY <2>1, IssueStep, KeysStep, SurroundingsStep, VerifyStep, PresentStep,
            VerifyPresentationStep DEF Cr!Next
<1>3. QED BY <1>1, <1>2, PTL DEF Cr!Spec

(* The identifier of an issuer, its credential and presentation and what came of
   them stay of their type, for any keys and plugins. *)
THEOREM CredentialsTypeCorrect ==
    ASSUME Cr!CredentialsAssumption
    PROVE  Cr!Spec => []Cr!TypeOK
<1>1. CrInv => Cr!TypeOK
    BY DEF CrInv
<1>2. QED BY <1>1, CrInductive, PTL

(* In every format, verifyCredential says "verified" only of what was signed, by a key
   that the document lists, that has not expired nor was revoked, unless the
   policies leave that out or the format has no such check.  Fields next to a JWT
   are not part of it when their proof has another type than that of a JWT. *)
THEOREM NothingElseVerifies ==
    ASSUME Cr!CredentialsAssumption
    PROVE  Cr!Spec => []OnlyValidVerifies
<1>1. CrInv => OnlyValidVerifies
    BY DEF CrInv, OnlyValidVerifies
<1>2. QED BY <1>1, CrInductive, PTL

(* verifyCredential refuses nothing that was issued unless something has changed
   since, and verifyPresentation accepts a JWT exactly when it is meant for an
   identifier of this agent or the domain given, whatever identifiers it manages. *)
THEOREM WhatIsValidVerifies ==
    ASSUME Cr!CredentialsAssumption
    PROVE  Cr!Spec => [](Cr!IssuedIsAccepted /\ Cr!AcceptedIfMeantForUs)
<1>1. CrInv => Cr!IssuedIsAccepted /\ Cr!AcceptedIfMeantForUs
    BY DEF CrInv
<1>2. QED BY <1>1, CrInductive, PTL

\* A key that is asked for is found.
LEMMA AskedIsFound ==
    ASSUME Cr!CredentialsAssumption, CrInv, NEW i \in DOMAIN IssuerKeys
    PROVE  /\ ring[i].kid \in Cr!Kids /\ ring[i].kid = IssuerKeys[i].kid
           /\ ring[i] # Cr!NoKey
           /\ Cr!FirstOf({j \in DOMAIN ring : ring[j].kid = ring[i].kid}) = ring[i]
           /\ Cr!PickSigningKey(ring[i].kid) = ring[i]
           /\ doc = Cr!Kids => Cr!Eip712Key(ring[i].kid) = ring[i]
           /\ doc = Cr!Kids /\ ring[i].type \in {"Ed25519", "Secp256k1"} => Cr!LdSigningKey(ring[i].kid) = ring[i]
<1>0. DOMAIN ring = DOMAIN IssuerKeys /\ DOMAIN ring \subseteq Nat
    BY DEF CrInv, Cr!TypeOK, Cr!CredentialsAssumption
<1>1. /\ DOMAIN ring = DOMAIN IssuerKeys /\ DOMAIN ring \subseteq Nat
      /\ \A j \in DOMAIN ring : ring[j].kid = ring[i].kid <=> j = i
    BY <1>0 DEF CrInv, Cr!CredentialsAssumption, KeysAreTheIssuers
<1>2. ring[i].kid = IssuerKeys[i].kid /\ ring[i].kid \in Cr!Kids
    BY DEF CrInv, KeysAreTheIssuers, Cr!Kids
<1>3. ring[i].kid # "none" /\ ring[i].kid # "any"
    BY <1>2 DEF Cr!CredentialsAssumption
<1>4. ring[i] # Cr!NoKey
    BY <1>3 DEF Cr!NoKey
<1>5. Cr!Least({i}) = i
    BY <1>1, LeastPlace
<1>6. Cr!FirstOf({i}) = ring[i]
    BY <1>5 DEF Cr!FirstOf
<1>7. {j \in DOMAIN ring : ring[j].kid = ring[i].kid} = {i}
    BY <1>1
<1>8. Cr!PickSigningKey(ring[i].kid) = ring[i]
    <2>1. {j \in DOMAIN ring : IF ring[i].kid = "any" THEN ring[j].type # "X25519" ELSE ring[j].kid = ring[i].kid} = {i}
        BY <1>1, <1>3
    <2>2. QED BY <1>6, <2>1 DEF Cr!PickSigningKey
<1>9. ASSUME doc = Cr!Kids PROVE Cr!Eip712Key(ring[i].kid) = ring[i]
    <2>1. {j \in DOMAIN ring : IF ring[i].kid = "any"
                                 THEN ring[j].type = "Secp256k1" /\ "eth_signTypedData" \in ring[j].algs
                                 ELSE ring[j].kid = ring[i].kid} = {i}
        BY <1>1, <1>3
    <2>2. QED BY <1>2, <1>6, <1>9, <2>1 DEF Cr!Eip712Key
<1>10. ASSUME doc = Cr!Kids, ring[i].type \in {"Ed25519", "Secp256k1"}
       PROVE  Cr!LdSigningKey(ring[i].kid) = ring[i]
    <2>1. {j \in {l \in DOMAIN ring : Cr!LdSuits(ring[l])} : ring[j].kid = ring[i].kid} = {i}
        BY <1>1, <1>2, <1>10 DEF Cr!LdSuits
    <2>2. QED BY <1>6, <2>1 DEF Cr!LdSigningKey
<1>11. QED BY <1>2, <1>4, <1>6, <1>7, <1>8, <1>9, <1>10

LEMMA UsableFormats ==
    ASSUME Cr!CredentialsAssumption, CrInv
    PROVE  Cr!ListedIsUsable
<1> SUFFICES ASSUME doc = Cr!Kids, NEW f \in Cr!Listed PROVE \E ref \in Cr!Kids : Cr!Signer(f, ref) # Cr!NoKey
    BY DEF Cr!ListedIsUsable
<1>1. PICK i \in DOMAIN ring :
        \/ /\ f = "jwt"
           /\ \/ ring[i].type \in {"Ed25519", "Secp256r1"}
              \/ ring[i].type = "Secp256k1" /\ ring[i].algs \cap {"ES256K", "ES256K-R"} # {}
        \/ /\ f = "lds"
           /\ \/ ring[i].type = "Ed25519" /\ "EdDSA" \in ring[i].algs
              \/ ring[i].type = "Secp256k1" /\ ring[i].algs \cap {"ES256K", "ES256K-R"} # {}
        \/ f = "EthereumEip712Signature2021" /\ "eth_signTypedData" \in ring[i].algs
    BY DEF Cr!Listed
<1>2. i \in DOMAIN IssuerKeys
    BY DEF CrInv, Cr!TypeOK, Cr!CredentialsAssumption
<1>3. /\ ring[i].kid = IssuerKeys[i].kid /\ ring[i].algs = IssuerKeys[i].algs
      /\ ring[i].type \in {IssuerKeys[i].type, "X25519"}
    BY <1>2 DEF CrInv, KeysAreTheIssuers
<1>4. \A alg \in ring[i].algs : Cr!CanSign(ring[i], alg)
    BY <1>2, <1>3 DEF Cr!CanSign
<1>5. /\ f = "jwt" => Cr!JwtAlg(ring[i]) \in ring[i].algs
      /\ f = "lds" => Cr!LdAlg(ring[i]) \in ring[i].algs /\ ring[i].type \in {"Ed25519", "Secp256k1"}
    BY <1>1, <1>2, <1>3 DEF Cr!JwtAlg, Cr!LdAlg, Cr!CredentialsAssumption
<1>6. Cr!Signer(f, ring[i].kid) = ring[i]
    <2>1. CASE f = "jwt"
        BY <1>2, <1>4, <1>5, <2>1, AskedIsFound DEF Cr!Signer, Cr!JwtSigner
    <2>2. CASE f = "lds"
        BY <1>2, <1>4, <1>5, <2>2, AskedIsFound DEF Cr!Signer, Cr!LdSigner
    <2>3. CASE f = "EthereumEip712Signature2021"
        BY <1>1, <1>2, <1>4, <2>3, AskedIsFound DEF Cr!Signer, Cr!Eip712Signer
    <2>4. QED BY <1>1, <2>1, <2>2, <2>3
<1>7. QED BY <1>2, <1>6, AskedIsFound

LEMMA KeysStillSign ==
    ASSUME Cr!CredentialsAssumption, CrInv, ~SharedKeys
    PROVE  Cr!EncryptingKeepsSigning
<1> SUFFICES ASSUME doc = Cr!Kids, NEW i \in DOMAIN IssuerKeys, IssuerKeys[i].type = "Ed25519"
             PROVE  \A f \in {"jwt", "lds"} : Cr!Signer(f, IssuerKeys[i].kid).kid = IssuerKeys[i].kid
    BY DEF Cr!EncryptingKeepsSigning
<1>1. ring = IssuerKeys /\ "EdDSA" \in ring[i].algs
    BY DEF CrInv, KeysAreTheIssuers, Cr!CredentialsAssumption
<1>2. Cr!CanSign(ring[i], "EdDSA") /\ Cr!JwtAlg(ring[i]) = "EdDSA" /\ Cr!LdAlg(ring[i]) = "EdDSA"
    BY <1>1 DEF Cr!CanSign, Cr!JwtAlg, Cr!LdAlg
<1>3. QED BY <1>1, <1>2, AskedIsFound DEF Cr!Signer, Cr!JwtSigner, Cr!LdSigner

(* With a key of any identifier that lists it, every format of
   listUsableProofFormats can be issued; and encrypting takes no way of signing from
   an identifier, if the DID store hands out copies: convertIdentifierEncryptionKeys. *)
THEOREM IssuerKeysServe ==
    ASSUME Cr!CredentialsAssumption
    PROVE  /\ Cr!Spec => []Cr!ListedIsUsable
           /\ ~SharedKeys => (Cr!Spec => []Cr!EncryptingKeepsSigning)
<1>1. CrInv => Cr!ListedIsUsable
    BY UsableFormats
<1>2. Cr!Spec => []Cr!ListedIsUsable
    BY <1>1, CrInductive, PTL
<1>3. ASSUME ~SharedKeys PROVE Cr!Spec => []Cr!EncryptingKeepsSigning
    <2>1. CrInv => Cr!EncryptingKeepsSigning
        BY <1>3, KeysStillSign
    <2>2. QED BY <2>1, CrInductive, PTL
<1>4. QED BY <1>2, <1>3

(* All that an issuer may expect of verifiers, and of its own agent, in each format,
   when stores hand out copies. *)
THEOREM ValidAlwaysVerifies ==
    ASSUME Cr!CredentialsAssumption, ~SharedKeys
    PROVE  Cr!Spec => []ValidVerifies
<1>1. Cr!Spec => []Cr!ListedIsUsable
    BY IssuerKeysServe
<1>2. Cr!Spec => []Cr!EncryptingKeepsSigning
    BY IssuerKeysServe
<1>3. Cr!Spec => [](Cr!IssuedIsAccepted /\ Cr!AcceptedIfMeantForUs)
    BY WhatIsValidVerifies
<1>4. QED BY <1>1, <1>2, <1>3, PTL DEF ValidVerifies

------------------------------------------------------------------------------
(* Selective disclosure                                                    *)

\* What a condition asks of a column, and whether a claim has one of it.
Says(claim, whose, column) ==
    CASE column = "type" -> {claim.type}
      [] column = "value" -> {claim.value}
      [] column = "issuer" -> claim.issuers
      [] column = "credentialType" -> IF claim.credentialType = Di!Anything THEN {} ELSE Containing[claim.credentialType]
      [] column = "context" -> IF claim.credentialContext = Di!Anything THEN {} ELSE Containing[claim.credentialContext]
      [] column = "subject" -> {whose}
Restricts(claim, whose, column) ==
    CASE column = "type" -> TRUE
      [] column = "value" -> claim.value # Di!Anything
      [] column = "issuer" -> claim.issuers # {}
      [] column = "credentialType" -> claim.credentialType # Di!Anything
      [] column = "context" -> claim.credentialContext # Di!Anything
      [] column = "subject" -> whose # Di!Anything
AnyCondition ==
    {[column |-> p[1], in |-> Says(p[2], p[3], p[1])] :
       p \in Di!Column \X AskedClaims \X (AskedSubjects \cup {Di!Anything})}

\* The conditions of a claim, as what they are made of.
Stated(claim, whose, column) ==
    IF Restricts(claim, whose, column) THEN << [column |-> column, in |-> Says(claim, whose, column)] >> ELSE <<>>

LEMMA ColumnsDiffer ==
  ASSUME NEW claim, NEW whose
  PROVE  /\ Says(claim, whose, "type") = {claim.type}
         /\ Says(claim, whose, "value") = {claim.value}
         /\ Says(claim, whose, "issuer") = claim.issuers
         /\ Says(claim, whose, "credentialType") =
              IF claim.credentialType = Di!Anything THEN {} ELSE Containing[claim.credentialType]
         /\ Says(claim, whose, "context") =
              IF claim.credentialContext = Di!Anything THEN {} ELSE Containing[claim.credentialContext]
         /\ Says(claim, whose, "subject") = {whose}
         /\ Restricts(claim, whose, "type") = TRUE
         /\ Restricts(claim, whose, "value") = (claim.value # Di!Anything)
         /\ Restricts(claim, whose, "issuer") = (claim.issuers # {})
         /\ Restricts(claim, whose, "credentialType") = (claim.credentialType # Di!Anything)
         /\ Restricts(claim, whose, "context") = (claim.credentialContext # Di!Anything)
         /\ Restricts(claim, whose, "subject") = (whose # Di!Anything)
BY SMT DEF Says, Restricts

LEMMA OneCondition ==
  ASSUME NEW claim \in AskedClaims, NEW whose \in AskedSubjects \cup {Di!Anything}, NEW column \in Di!Column
  PROVE  /\ Stated(claim, whose, column) \in Seq(AnyCondition)
         /\ Len(Stated(claim, whose, column)) \in {0, 1}
         /\ Len(Stated(claim, whose, column)) = 1 <=> Restricts(claim, whose, column)
         /\ Restricts(claim, whose, column) =>
              /\ Stated(claim, whose, column)[1].column = column
              /\ Stated(claim, whose, column)[1].in = Says(claim, whose, column)
<1> DEFINE condition == [column |-> column, in |-> Says(claim, whose, column)]
<1>1. condition \in AnyCondition
  <2>1. <<column, claim, whose>> \in Di!Column \X AskedClaims \X (AskedSubjects \cup {Di!Anything})
    OBVIOUS
  <2>2. QED BY <2>1 DEF AnyCondition
<1> HIDE DEF condition
<1>2. Stated(claim, whose, column) = IF Restricts(claim, whose, column) THEN << condition >> ELSE <<>>
  BY DEF Stated, condition
<1>3. << condition >> \in Seq(AnyCondition) /\ Len(<< condition >>) = 1 /\ << condition >>[1] = condition
  BY <1>1
<1>4. condition.column = column /\ condition.in = Says(claim, whose, column)
  BY DEF condition
<1>5. CASE Restricts(claim, whose, column)
  BY <1>2, <1>3, <1>4, <1>5
<1>6. CASE ~Restricts(claim, whose, column)
  BY <1>2, <1>6
<1>7. QED BY <1>5, <1>6

\* Conditions that say what the claim says, one of each column that it restricts.
SaysOnce(s, claim, whose, columns) ==
    /\ \A i \in DOMAIN s :
         LET c == s[i].column IN c \in columns /\ Restricts(claim, whose, c) /\ s[i].in = Says(claim, whose, c)
    /\ \A c \in columns : Restricts(claim, whose, c) =>
         \E i \in DOMAIN s : s[i].column = c /\ \A j \in DOMAIN s : s[j].column = c => j = i

LEMMA OneMoreColumn ==
  ASSUME NEW claim \in AskedClaims, NEW whose \in AskedSubjects \cup {Di!Anything}, NEW columns \in SUBSET Di!Column,
         NEW s \in Seq(AnyCondition), SaysOnce(s, claim, whose, columns),
         NEW column \in Di!Column \ columns
  PROVE  /\ s \o Stated(claim, whose, column) \in Seq(AnyCondition)
         /\ SaysOnce(s \o Stated(claim, whose, column), claim, whose, columns \cup {column})
<1>1. PICK one : one = Stated(claim, whose, column)
  OBVIOUS
<1>2. /\ one \in Seq(AnyCondition) /\ Len(one) \in {0, 1} /\ (Len(one) = 1 <=> Restricts(claim, whose, column))
      /\ Restricts(claim, whose, column) => one[1].column = column /\ one[1].in = Says(claim, whose, column)
  BY <1>1, OneCondition
<1>3. PICK all : all = s \o one
  OBVIOUS
<1>4. /\ all \in Seq(AnyCondition) /\ DOMAIN all = 1 .. Len(s) + Len(one)
      /\ DOMAIN s = 1 .. Len(s) /\ Len(s) \in Nat
      /\ \A i \in 1 .. Len(s) : all[i] = s[i]
      /\ Len(one) = 1 => all[Len(s) + 1] = one[1]
  BY <1>2, <1>3
<1>5. CASE Len(one) = 0
  <2>1. DOMAIN all = DOMAIN s /\ ~Restricts(claim, whose, column)
    BY <1>2, <1>4, <1>5
  <2>2. SaysOnce(all, claim, whose, columns \cup {column})
    BY <1>4, <2>1 DEF SaysOnce
  <2>3. QED BY <1>1, <1>3, <1>4, <2>2
<1>6. CASE Len(one) = 1
  <2>1. DOMAIN all = DOMAIN s \cup {Len(s) + 1} /\ Len(s) + 1 \notin DOMAIN s /\ Restricts(claim, whose, column)
    BY <1>2, <1>4, <1>6
  <2>2. \A i \in DOMAIN s : all[i] = s[i] /\ s[i].column \in columns
    BY <1>4 DEF SaysOnce
  <2>3. all[Len(s) + 1].column = column /\ all[Len(s) + 1].in = Says(claim, whose, column)
    BY <1>2, <1>4, <1>6, <2>1
  <2>4. \A i \in DOMAIN all :
          LET c == all[i].column
          IN c \in columns \cup {column} /\ Restricts(claim, whose, c) /\ all[i].in = Says(claim, whose, c)
    BY <2>1, <2>2, <2>3 DEF SaysOnce
  <2>5. ASSUME NEW c \in columns \cup {column}, Restricts(claim, whose, c)
        PROVE  \E i \in DOMAIN all : all[i].column = c /\ \A j \in DOMAIN all : all[j].column = c => j = i
    <3>1. CASE c = column
      BY <2>1, <2>2, <2>3, <3>1
    <3>2. CASE c # column
      <4>1. PICK i \in DOMAIN s : s[i].column = c /\ \A j \in DOMAIN s : s[j].column = c => j = i
        BY <2>5, <3>2 DEF SaysOnce
      <4>2. QED BY <2>1, <2>2, <2>3, <3>2, <4>1
    <3>3. QED BY <3>1, <3>2
  <2>6. SaysOnce(all, claim, whose, columns \cup {column})
    BY <2>4, <2>5 DEF SaysOnce
  <2>7. QED BY <1>1, <1>3, <1>4, <2>6
<1>7. QED BY <1>2, <1>5, <1>6

LEMMA ConditionsStated ==
  ASSUME NEW claim, NEW whose
  PROVE  Di!Conditions(claim, whose) =
           Stated(claim, whose, "type") \o Stated(claim, whose, "value") \o Stated(claim, whose, "issuer")
             \o Stated(claim, whose, "credentialType") \o Stated(claim, whose, "context")
             \o Stated(claim, whose, "subject")
<1>1. Di!Condition("type", TRUE, {claim.type}) = Stated(claim, whose, "type")
  BY ColumnsDiffer, Zenon DEF Di!Condition, Stated
<1>2. Di!Condition("value", claim.value # Di!Anything, {claim.value}) = Stated(claim, whose, "value")
  BY ColumnsDiffer, Zenon DEF Di!Condition, Stated
<1>3. Di!Condition("issuer", claim.issuers # {}, claim.issuers) = Stated(claim, whose, "issuer")
  BY ColumnsDiffer, Zenon DEF Di!Condition, Stated
<1>4. Di!NameLike("credentialType", claim.credentialType) = Stated(claim, whose, "credentialType")
  BY ColumnsDiffer, Zenon DEF Di!Condition, Di!NameLike, Stated
<1>5. Di!NameLike("context", claim.credentialContext) = Stated(claim, whose, "context")
  BY ColumnsDiffer, Zenon DEF Di!Condition, Di!NameLike, Stated
<1>6. Di!Condition("subject", whose # Di!Anything, {whose}) = Stated(claim, whose, "subject")
  BY ColumnsDiffer, Zenon DEF Di!Condition, Stated
<1>7. QED BY <1>1, <1>2, <1>3, <1>4, <1>5, <1>6, Zenon DEF Di!Conditions

\* Each condition is about a column that the claim restricts, which has it once.
LEMMA ConditionsOfClaim ==
  ASSUME NEW claim \in AskedClaims, NEW whose \in AskedSubjects \cup {Di!Anything}
  PROVE  /\ Di!Conditions(claim, whose) \in Seq(AnyCondition)
         /\ SaysOnce(Di!Conditions(claim, whose), claim, whose, Di!Column)
<1> DEFINE one(column) == Stated(claim, whose, column)
           Good(s, columns) == s \in Seq(AnyCondition) /\ SaysOnce(s, claim, whose, columns)
<1>1. ASSUME NEW s, NEW columns \in SUBSET Di!Column, NEW column \in Di!Column \ columns, Good(s, columns)
      PROVE  Good(s \o one(column), columns \cup {column})
  BY <1>1, OneMoreColumn
<1>2. Good(<<>>, {})
  BY DEF SaysOnce
<1> HIDE DEF one, Good
<1>3. PICK c1, c2, c3, c4, c5, c6 :
        /\ c1 = "type" /\ c2 = "value" /\ c3 = "issuer" /\ c4 = "credentialType" /\ c5 = "context" /\ c6 = "subject"
  OBVIOUS
<1>4. Di!Column = {c1, c2, c3, c4, c5, c6}
  BY <1>3 DEF Di!Column
<1>5. /\ c2 \notin {c1} /\ c3 \notin {c1, c2} /\ c4 \notin {c1, c2, c3} /\ c5 \notin {c1, c2, c3, c4}
      /\ c6 \notin {c1, c2, c3, c4, c5}
  BY <1>3
<1>6. Good(<<>> \o one(c1), {c1})
  <2>1. c1 \in Di!Column \ {} /\ {} \cup {c1} = {c1}
    BY <1>4
  <2>2. QED BY <1>1, <1>2, <2>1
<1>7. PICK s1 : s1 = <<>> \o one(c1)
  OBVIOUS
<1>8. PICK s2 : s2 = s1 \o one(c2)
  OBVIOUS
<1>9. Good(s2, {c1, c2})
  <2>1. {c1} \in SUBSET Di!Column /\ c2 \in Di!Column \ {c1} /\ {c1} \cup {c2} = {c1, c2}
    BY <1>4, <1>5
  <2>2. QED BY <1>1, <1>6, <1>7, <1>8, <2>1
<1>10. PICK s3 : s3 = s2 \o one(c3)
  OBVIOUS
<1>11. Good(s3, {c1, c2, c3})
  <2>1. {c1, c2} \in SUBSET Di!Column /\ c3 \in Di!Column \ {c1, c2} /\ {c1, c2} \cup {c3} = {c1, c2, c3}
    BY <1>4, <1>5
  <2>2. QED BY <1>1, <1>9, <1>10, <2>1
<1>12. PICK s4 : s4 = s3 \o one(c4)
  OBVIOUS
<1>13. Good(s4, {c1, c2, c3, c4})
  <2>1. /\ {c1, c2, c3} \in SUBSET Di!Column /\ c4 \in Di!Column \ {c1, c2, c3}
        /\ {c1, c2, c3} \cup {c4} = {c1, c2, c3, c4}
    BY <1>4, <1>5
  <2>2. QED BY <1>1, <1>11, <1>12, <2>1
<1>14. PICK s5 : s5 = s4 \o one(c5)
  OBVIOUS
<1>15. Good(s5, {c1, c2, c3, c4, c5})
  <2>1. /\ {c1, c2, c3, c4} \in SUBSET Di!Column /\ c5 \in Di!Column \ {c1, c2, c3, c4}
        /\ {c1, c2, c3, c4} \cup {c5} = {c1, c2, c3, c4, c5}
    BY <1>4, <1>5
  <2>2. QED BY <1>1, <1>13, <1>14, <2>1
<1>16. PICK s6 : s6 = s5 \o one(c6)
  OBVIOUS
<1>17. Good(s6, Di!Column)
  <2>1. /\ {c1, c2, c3, c4, c5} \in SUBSET Di!Column /\ c6 \in Di!Column \ {c1, c2, c3, c4, c5}
        /\ {c1, c2, c3, c4, c5} \cup {c6} = Di!Column
    BY <1>4, <1>5
  <2>2. QED BY <1>1, <1>15, <1>16, <2>1
<1>18. s1 = one(c1)
  <2>1. one(c1) \in Seq(AnyCondition)
    BY <1>4, OneCondition DEF one
  <2>2. QED BY <1>7, <2>1
<1>19. s6 = Di!Conditions(claim, whose)
  <2>1. s6 = one(c1) \o one(c2) \o one(c3) \o one(c4) \o one(c5) \o one(c6)
    BY <1>8, <1>10, <1>12, <1>14, <1>16, <1>18, Zenon
  <2>2. QED BY <1>3, <2>1, ConditionsStated, Zenon DEF one
<1>20. QED BY <1>17, <1>19 DEF Good

------------------------------------------------------------------------------
(* What is found                                                           *)

\* A row of a credential
LEMMA RowsOfCredentials ==
  ASSUME NEW H, NEW x
  PROVE  x \in Di!Rows(H) <=> \E c \in H : \E t \in DOMAIN c.claims : x = Di!Row(c, t)
BY DEF Di!Rows

Answers(x, claim, whose) ==
    \A column \in Di!Column : Restricts(claim, whose, column) => x[column] \cap Says(claim, whose, column) # {}

\* A row that answers a claim is of a credential that does, and such a credential
\* has one.
LEMMA RowsThatAnswer ==
  ASSUME Di!DisclosureAssumption, NEW claim \in AskedClaims, ~Di!NamesNobody(claim), NEW whose, NEW H, NEW c
  PROVE  (\E x \in Di!Rows(H) : x.of = c /\ Answers(x, claim, whose)) <=> (c \in H /\ Di!AnsweredBy(claim, whose, c))
<1>1. claim.issuers = {} \/ claim.given
  BY DEF Di!DisclosureAssumption
<1>2. claim.given <=> claim.issuers # {}
  BY <1>1 DEF Di!NamesNobody
<1>3. ASSUME NEW x, NEW t, x = Di!Row(c, t)
      PROVE  /\ x.of = c
             /\ Answers(x, claim, whose) <=>
                  /\ t = claim.type
                  /\ claim.value # Di!Anything => c.claims[t] = claim.value
                  /\ claim.issuers # {} => c.issuer \in claim.issuers
                  /\ claim.credentialType # Di!Anything => Containing[claim.credentialType] \cap c.types # {}
                  /\ claim.credentialContext # Di!Anything => Containing[claim.credentialContext] \cap c.contexts # {}
                  /\ whose # Di!Anything => c.subject = whose
  <2>1. /\ x["type"] = {t} /\ x["value"] = {c.claims[t]} /\ x["issuer"] = {c.issuer}
        /\ x["credentialType"] = c.types /\ x["context"] = c.contexts /\ x["subject"] = {c.subject} /\ x.of = c
    BY <1>3 DEF Di!Row
  <2>2. Answers(x, claim, whose) <=>
          /\ Restricts(claim, whose, "type") => x["type"] \cap Says(claim, whose, "type") # {}
          /\ Restricts(claim, whose, "value") => x["value"] \cap Says(claim, whose, "value") # {}
          /\ Restricts(claim, whose, "issuer") => x["issuer"] \cap Says(claim, whose, "issuer") # {}
          /\ Restricts(claim, whose, "credentialType") =>
               x["credentialType"] \cap Says(claim, whose, "credentialType") # {}
          /\ Restricts(claim, whose, "context") => x["context"] \cap Says(claim, whose, "context") # {}
          /\ Restricts(claim, whose, "subject") => x["subject"] \cap Says(claim, whose, "subject") # {}
    BY Zenon DEF Answers, Di!Column
  <2>3. \A a, b : {a} \cap {b} # {} <=> a = b
    OBVIOUS
  <2>4. (Restricts(claim, whose, "type") => x["type"] \cap Says(claim, whose, "type") # {}) <=> t = claim.type
    <3>1. PICK b : b = claim.type
      OBVIOUS
    <3>2. {t} \cap {b} # {} <=> t = b
      BY <2>3
    <3>3. x["type"] \cap Says(claim, whose, "type") = {t} \cap {b}
      <4>1. Says(claim, whose, "type") = {claim.type}
        BY ColumnsDiffer
      <4>2. QED BY <2>1, <3>1, <4>1
    <3>4. Restricts(claim, whose, "type") = (TRUE)
      BY ColumnsDiffer
    <3>5. QED BY <3>1, <3>2, <3>3, <3>4
  <2>5. (Restricts(claim, whose, "value") => x["value"] \cap Says(claim, whose, "value") # {})
          <=> (claim.value # Di!Anything => c.claims[t] = claim.value)
    <3>1. PICK a, b : a = c.claims[t] /\ b = claim.value
      OBVIOUS
    <3>2. {a} \cap {b} # {} <=> a = b
      BY <2>3
    <3>3. x["value"] \cap Says(claim, whose, "value") = {a} \cap {b}
      <4>1. Says(claim, whose, "value") = {claim.value}
        BY ColumnsDiffer
      <4>2. QED BY <2>1, <3>1, <4>1
    <3>4. Restricts(claim, whose, "value") = (claim.value # Di!Anything)
      BY ColumnsDiffer
    <3>5. QED BY <3>1, <3>2, <3>3, <3>4
  <2>6. (Restricts(claim, whose, "issuer") => x["issuer"] \cap Says(claim, whose, "issuer") # {})
          <=> (claim.issuers # {} => c.issuer \in claim.issuers)
    <3>1. PICK a, S : a = c.issuer /\ S = claim.issuers
      OBVIOUS
    <3>2. {a} \cap S # {} <=> a \in S
      OBVIOUS
    <3>3. x["issuer"] \cap Says(claim, whose, "issuer") = {a} \cap S
      <4>1. Says(claim, whose, "issuer") = claim.issuers
        BY ColumnsDiffer
      <4>2. QED BY <2>1, <3>1, <4>1
    <3>4. Restricts(claim, whose, "issuer") = (claim.issuers # {})
      BY ColumnsDiffer
    <3>5. QED BY <3>1, <3>2, <3>3, <3>4
  <2>7. (Restricts(claim, whose, "credentialType") =>
           x["credentialType"] \cap Says(claim, whose, "credentialType") # {})
          <=> (claim.credentialType # Di!Anything => Containing[claim.credentialType] \cap c.types # {})
    <3>1. ASSUME claim.credentialType # Di!Anything
          PROVE  x["credentialType"] \cap Says(claim, whose, "credentialType")
                   = Containing[claim.credentialType] \cap c.types
      <4>1. Says(claim, whose, "credentialType") = Containing[claim.credentialType]
        BY <3>1, ColumnsDiffer
      <4>2. QED BY <2>1, <4>1
    <3>2. Restricts(claim, whose, "credentialType") = (claim.credentialType # Di!Anything)
      BY ColumnsDiffer
    <3>3. QED BY <3>1, <3>2
  <2>8. (Restricts(claim, whose, "context") => x["context"] \cap Says(claim, whose, "context") # {})
          <=> (claim.credentialContext # Di!Anything => Containing[claim.credentialContext] \cap c.contexts # {})
    <3>1. ASSUME claim.credentialContext # Di!Anything
          PROVE  x["context"] \cap Says(claim, whose, "context") = Containing[claim.credentialContext] \cap c.contexts
      <4>1. Says(claim, whose, "context") = Containing[claim.credentialContext]
        BY <3>1, ColumnsDiffer
      <4>2. QED BY <2>1, <4>1
    <3>2. Restricts(claim, whose, "context") = (claim.credentialContext # Di!Anything)
      BY ColumnsDiffer
    <3>3. QED BY <3>1, <3>2
  <2>9. (Restricts(claim, whose, "subject") => x["subject"] \cap Says(claim, whose, "subject") # {})
          <=> (whose # Di!Anything => c.subject = whose)
    <3>1. PICK a : a = c.subject
      OBVIOUS
    <3>2. {a} \cap {whose} # {} <=> a = whose
      BY <2>3
    <3>3. x["subject"] \cap Says(claim, whose, "subject") = {a} \cap {whose}
      <4>1. Says(claim, whose, "subject") = {whose}
        BY ColumnsDiffer
      <4>2. QED BY <2>1, <3>1, <4>1
    <3>4. Restricts(claim, whose, "subject") = (whose # Di!Anything)
      BY ColumnsDiffer
    <3>5. QED BY <3>1, <3>2, <3>3, <3>4
  <2>10. Answers(x, claim, whose) <=>
           /\ t = claim.type
           /\ claim.value # Di!Anything => c.claims[t] = claim.value
           /\ claim.issuers # {} => c.issuer \in claim.issuers
           /\ claim.credentialType # Di!Anything => Containing[claim.credentialType] \cap c.types # {}
           /\ claim.credentialContext # Di!Anything => Containing[claim.credentialContext] \cap c.contexts # {}
           /\ whose # Di!Anything => c.subject = whose
    BY <2>2, <2>4, <2>5, <2>6, <2>7, <2>8, <2>9
  <2>11. QED BY <2>1, <2>10, Zenon
<1>4. Di!AnsweredBy(claim, whose, c) <=>
        /\ claim.type \in DOMAIN c.claims
        /\ claim.value # Di!Anything => c.claims[claim.type] = claim.value
        /\ claim.issuers # {} => c.issuer \in claim.issuers
        /\ claim.credentialType # Di!Anything => Containing[claim.credentialType] \cap c.types # {}
        /\ claim.credentialContext # Di!Anything => Containing[claim.credentialContext] \cap c.contexts # {}
        /\ whose # Di!Anything => c.subject = whose
  BY <1>2, Zenon DEF Di!AnsweredBy, Di!Shows
<1>5. ASSUME NEW x \in Di!Rows(H), x.of = c, Answers(x, claim, whose)
      PROVE  c \in H /\ Di!AnsweredBy(claim, whose, c)
  <2>1. PICK d \in H : \E t \in DOMAIN d.claims : x = Di!Row(d, t)
    BY <1>5, RowsOfCredentials
  <2>2. d = c
    BY <1>5, <2>1 DEF Di!Row
  <2>3. PICK t \in DOMAIN c.claims : x = Di!Row(c, t)
    BY <2>1, <2>2
  <2>4. t = claim.type
    BY <1>3, <1>5, <2>3, Zenon
  <2>5. QED BY <1>3, <1>4, <1>5, <2>2, <2>3, <2>4, Zenon
<1>6. ASSUME c \in H, Di!AnsweredBy(claim, whose, c)
      PROVE  \E x \in Di!Rows(H) : x.of = c /\ Answers(x, claim, whose)
  <2>1. PICK t : t = claim.type
    OBVIOUS
  <2>2. PICK x : x = Di!Row(c, t)
    OBVIOUS
  <2>3. t \in DOMAIN c.claims
    BY <1>4, <1>6, <2>1
  <2>4. x \in Di!Rows(H)
    BY <1>6, <2>2, <2>3, RowsOfCredentials
  <2>5. x.of = c /\ Answers(x, claim, whose)
    BY <1>3, <1>4, <1>6, <2>1, <2>2, Zenon
  <2>6. QED BY <2>4, <2>5
<1>7. QED BY <1>5, <1>6

\* What answers a claim of which no other name contains the names satisfies it.
LEMMA AnsweredSatisfies ==
  ASSUME NEW claim, NEW whose, NEW c, Di!AnsweredBy(claim, whose, c), Di!Unmistakable(claim)
  PROVE  Di!Satisfies(c, claim)
<1>1. ASSUME claim.credentialType # Di!Anything PROVE claim.credentialType \in c.types
  <2>1. Containing[claim.credentialType] = {claim.credentialType}
    BY <1>1 DEF Di!Unmistakable
  <2>2. Containing[claim.credentialType] \cap c.types # {}
    BY <1>1 DEF Di!AnsweredBy
  <2>3. QED BY <2>1, <2>2
<1>2. ASSUME claim.credentialContext # Di!Anything PROVE claim.credentialContext \in c.contexts
  <2>1. Containing[claim.credentialContext] = {claim.credentialContext}
    BY <1>2 DEF Di!Unmistakable
  <2>2. Containing[claim.credentialContext] \cap c.contexts # {}
    BY <1>2 DEF Di!AnsweredBy
  <2>3. QED BY <2>1, <2>2
<1>3. QED BY <1>1, <1>2 DEF Di!AnsweredBy, Di!Satisfies

\* Whatever conditions there were before those of a claim, in either store: what is
\* found answers the claim.
LEMMA FoundAnswers ==
  ASSUME Di!DisclosureAssumption, NEW claim \in AskedClaims, ~Di!NamesNobody(claim), NEW H,
         NEW whose \in AskedSubjects \cup {Di!Anything}, NEW w \in Seq(AnyCondition),
         NEW c \in Di!JsonFinds(H, Di!Grown(w, claim, whose)) \cup Di!SqlFinds(H, Di!Grown(w, claim, whose))
  PROVE  c \in H /\ Di!AnsweredBy(claim, whose, c)
<1> DEFINE cs == Di!Conditions(claim, whose)
           g == w \o cs
<1>1. cs \in Seq(AnyCondition)
  BY ConditionsOfClaim
<1>2. Di!Grown(w, claim, whose) = g
  BY DEF Di!Grown
<1>3. /\ \A i \in DOMAIN cs : cs[i].in = Says(claim, whose, cs[i].column)
      /\ \A x \in Di!Column : Restricts(claim, whose, x) =>
           \E i \in DOMAIN cs : cs[i].column = x /\ \A j \in DOMAIN cs : cs[j].column = x => j = i
  BY ConditionsOfClaim DEF SaysOnce
<1> HIDE DEF cs
<1>4. /\ Len(g) = Len(w) + Len(cs) /\ DOMAIN g = 1 .. Len(w) + Len(cs)
      /\ \A i \in DOMAIN cs : Len(w) + i \in DOMAIN g /\ g[Len(w) + i] = cs[i]
      /\ \A k \in (Len(w) + 1) .. Len(g) : k - Len(w) \in DOMAIN cs /\ g[k] = cs[k - Len(w)]
  BY <1>1
<1> HIDE DEF g
<1>5. PICK x \in Di!Rows(H) : /\ x.of = c
        /\ \/ \A i \in DOMAIN g : Di!Meets(x, g[i])
           \/ \A i \in DOMAIN g : (\A j \in (i + 1) .. Len(g) : g[j].column # g[i].column) => Di!Meets(x, g[i])
  BY <1>2 DEF Di!JsonFinds, Di!SqlFinds
<1>6. ASSUME NEW column \in Di!Column, Restricts(claim, whose, column)
      PROVE  x[column] \cap Says(claim, whose, column) # {}
  <2>1. PICK i \in DOMAIN cs : cs[i].column = column /\ \A j \in DOMAIN cs : cs[j].column = column => j = i
    BY <1>3, <1>6
  <2>2. Len(w) \in Nat /\ Len(cs) \in Nat /\ DOMAIN cs = 1 .. Len(cs)
    BY <1>1
  <2>3. \A j \in (Len(w) + i + 1) .. Len(g) : g[j].column # column
    <3> SUFFICES ASSUME NEW j \in (Len(w) + i + 1) .. Len(g), g[j].column = column PROVE FALSE
      OBVIOUS
    <3>1. j - Len(w) \in DOMAIN cs /\ g[j] = cs[j - Len(w)]
      BY <1>4, <2>2
    <3>2. j - Len(w) = i
      BY <2>1, <3>1
    <3>3. QED BY <2>2, <3>2
  <2>4. Len(w) + i \in DOMAIN g /\ g[Len(w) + i].column = column /\ g[Len(w) + i].in = Says(claim, whose, column)
    BY <1>3, <1>4, <2>1
  <2>5. Di!Meets(x, g[Len(w) + i])
    BY <1>5, <2>3, <2>4
  <2>6. QED BY <2>4, <2>5 DEF Di!Meets
<1>7. Answers(x, claim, whose)
  BY <1>6 DEF Answers
<1>8. QED BY <1>5, <1>7, RowsThatAnswer

\* With the conditions of one claim alone, both stores find all that answers it.
LEMMA FoundAlone ==
  ASSUME Di!DisclosureAssumption, NEW claim \in AskedClaims, ~Di!NamesNobody(claim), NEW H,
         NEW whose \in AskedSubjects \cup {Di!Anything}
  PROVE  /\ Di!JsonFinds(H, Di!Grown(<<>>, claim, whose)) = {c \in H : Di!AnsweredBy(claim, whose, c)}
         /\ Di!SqlFinds(H, Di!Grown(<<>>, claim, whose)) = {c \in H : Di!AnsweredBy(claim, whose, c)}
<1> DEFINE g == Di!Conditions(claim, whose)
<1>1. <<>> \in Seq(AnyCondition) /\ g \in Seq(AnyCondition)
  BY ConditionsOfClaim
<1>2. Di!Grown(<<>>, claim, whose) = g
  BY <1>1 DEF Di!Grown
<1>3. \A i \in DOMAIN g : g[i].column \in Di!Column /\ Restricts(claim, whose, g[i].column)
                          /\ g[i].in = Says(claim, whose, g[i].column)
  BY ConditionsOfClaim DEF SaysOnce
<1> HIDE DEF g
<1>4. ASSUME NEW c \in H, Di!AnsweredBy(claim, whose, c)
      PROVE  c \in Di!JsonFinds(H, g) /\ c \in Di!SqlFinds(H, g)
  <2>1. PICK x \in Di!Rows(H) : x.of = c /\ Answers(x, claim, whose)
    BY <1>4, RowsThatAnswer
  <2>2. \A i \in DOMAIN g : Di!Meets(x, g[i])
    BY <1>3, <2>1 DEF Answers, Di!Meets
  <2>3. QED BY <2>1, <2>2 DEF Di!JsonFinds, Di!SqlFinds
<1>5. \A c \in Di!JsonFinds(H, g) \cup Di!SqlFinds(H, g) : c \in H /\ Di!AnsweredBy(claim, whose, c)
  BY <1>1, <1>2, FoundAnswers
<1>6. QED BY <1>2, <1>4, <1>5

------------------------------------------------------------------------------
(* The inductive invariant of disclosure                                   *)

\* What is found for a claim, and may be presented.
Fits(c, claim) == Di!AnsweredBy(claim, about, c) /\ (Di!Unmistakable(claim) => Di!Satisfies(c, claim))

\* What is gathered is held, what is found for a claim satisfies it, and before the
\* first claim there are no conditions.
DiTyped ==
    /\ request \in Seq(AskedClaims) /\ Len(request) <= MaxClaims /\ (request = <<>> => gathered = <<>>)
    /\ about \in AskedSubjects \cup {Di!Anything} /\ held \subseteq HeldCredentials
    /\ where \in Seq(AnyCondition) /\ (gathered = <<>> => where = <<>>)
    /\ gathered \in Seq([json : SUBSET held, sql : SUBSET held]) /\ Len(gathered) <= Len(request)
    /\ checked \in {"no", "valid", "invalid"}
    /\ checked # "no" => Len(gathered) = Len(request) /\ request # <<>>

Presented == UNION {gathered[i].json : i \in DOMAIN gathered}

DiInv ==
    /\ DiTyped
    /\ Di!GatheredFits
    /\ Len(request) = 1 /\ gathered # <<>> /\ ~Di!NamesNobody(request[1]) =>
         LET fitting == {c \in held : Di!AnsweredBy(request[1], about, c)} IN gathered[1].json = fitting /\ gathered[1].sql = fitting
    /\ checked # "no" => (checked = "valid" <=> Di!Valid(Presented, request))

LEMMA DiBegins ==
  ASSUME Di!DisclosureAssumption, Di!Init
  PROVE  DiInv
<1>1. request = <<>> /\ about = Di!Anything /\ held = {} /\ where = <<>> /\ gathered = <<>> /\ checked = "no"
  BY DEF Di!Init
<1>2. DiTyped
  BY <1>1 DEF DiTyped, Di!DisclosureAssumption
<1>3. QED BY <1>1, <1>2 DEF DiInv, Di!GatheredFits

LEMMA DiAsked ==
  ASSUME Di!DisclosureAssumption, DiInv, Di!Ask
  PROVE  DiInv'
<1>1. /\ request = <<>> /\ gathered = <<>> /\ where = <<>> /\ checked = "no"
      /\ UNCHANGED <<where, gathered, checked>>
  BY DEF DiInv, DiTyped, Di!Ask
<1>2. PICK n \in 1 .. MaxClaims : request' \in [1 .. n -> AskedClaims]
  BY DEF Di!Ask
<1>3. request' \in Seq(AskedClaims) /\ Len(request') = n /\ n <= MaxClaims /\ n \in Nat
  BY <1>2 DEF Di!DisclosureAssumption
<1>4. held' \subseteq HeldCredentials /\ about' \in AskedSubjects \cup {Di!Anything}
  BY DEF Di!Ask
<1>5. DiTyped'
  BY <1>1, <1>3, <1>4 DEF DiTyped
<1>6. QED BY <1>1, <1>5 DEF DiInv, Di!GatheredFits

LEMMA DiGathered ==
  ASSUME Di!DisclosureAssumption, DiInv, Di!GatherNext
  PROVE  DiInv'
<1> DEFINE n == Len(gathered)
           claim == request[n + 1]
           w == Di!Grown(where, claim, about)
           json == Di!JsonFinds(held, w)
           sql == Di!SqlFinds(held, w)
           found == [json |-> json, sql |-> sql]
<1>1. n \in Nat /\ n + 1 \in DOMAIN request /\ n < Len(request) /\ Len(request) \in Nat /\ claim \in AskedClaims
  BY DEF DiInv, DiTyped, Di!GatherNext
<1>2. where' = w /\ gathered' = Append(gathered, found) /\ UNCHANGED <<request, about, held, checked>>
  BY DEF Di!GatherNext
<1>3. w \in Seq(AnyCondition)
  <2>1. where \in Seq(AnyCondition) /\ Di!Conditions(claim, about) \in Seq(AnyCondition)
    BY <1>1, ConditionsOfClaim DEF DiInv, DiTyped
  <2>2. QED BY <2>1 DEF Di!Grown
<1>4. json \subseteq held /\ sql \subseteq held
  <2>1. \A x \in Di!Rows(held) : x.of \in held
    <3> SUFFICES ASSUME NEW x \in Di!Rows(held) PROVE x.of \in held
      OBVIOUS
    <3>1. PICK c \in held : \E t \in DOMAIN c.claims : x = Di!Row(c, t)
      BY RowsOfCredentials
    <3>2. x.of = c
      BY <3>1 DEF Di!Row
    <3>3. QED BY <3>2
  <2>2. QED BY <2>1 DEF Di!JsonFinds, Di!SqlFinds
<1>5. ~Di!NamesNobody(claim) => \A c \in json \cup sql : Fits(c, claim)
  <2>1. where \in Seq(AnyCondition) /\ about \in AskedSubjects \cup {Di!Anything}
    BY DEF DiInv, DiTyped
  <2>2. ~Di!NamesNobody(claim) => \A c \in json \cup sql : Di!AnsweredBy(claim, about, c)
    BY <1>1, <2>1, FoundAnswers
  <2>3. QED BY <2>2, AnsweredSatisfies DEF Fits
<1>6. Len(request) = 1 /\ ~Di!NamesNobody(request[1]) =>
        json = {c \in held : Di!AnsweredBy(request[1], about, c)} /\ sql = {c \in held : Di!AnsweredBy(request[1], about, c)}
  <2> SUFFICES ASSUME Len(request) = 1, ~Di!NamesNobody(request[1])
               PROVE  json = {c \in held : Di!AnsweredBy(request[1], about, c)} /\ sql = {c \in held : Di!AnsweredBy(request[1], about, c)}
    OBVIOUS
  <2>1. n = 0 /\ claim = request[1]
    BY <1>1
  <2>2. gathered = <<>>
    BY <2>1 DEF DiInv, DiTyped
  <2>3. /\ w = Di!Grown(<<>>, request[1], about) /\ request[1] \in AskedClaims
        /\ about \in AskedSubjects \cup {Di!Anything}
    BY <1>1, <2>1, <2>2 DEF DiInv, DiTyped
  <2>4. QED BY <2>3, FoundAlone
<1> HIDE DEF json, sql, w
<1>7. found \in [json : SUBSET held, sql : SUBSET held] /\ found.json = json /\ found.sql = sql
  BY <1>4
<1> HIDE DEF found
<1>8. /\ gathered' \in Seq([json : SUBSET held, sql : SUBSET held]) /\ Len(gathered') = n + 1
      /\ DOMAIN gathered = 1 .. n /\ DOMAIN gathered' = 1 .. n + 1
      /\ \A i \in 1 .. n : gathered'[i] = gathered[i]
      /\ gathered'[n + 1] = found
  BY <1>2, <1>7 DEF DiInv, DiTyped
<1>9. checked = "no"
  BY <1>1 DEF DiInv, DiTyped
<1>10. DiTyped'
  <2>1. gathered' # <<>> /\ request # <<>>
    BY <1>1, <1>8
  <2>2. QED BY <1>1, <1>2, <1>3, <1>8, <1>9, <2>1 DEF DiInv, DiTyped
<1>11. Di!GatheredFits'
  <2>1. \A i \in 1 .. n : ~Di!NamesNobody(request[i]) =>
          \A c \in gathered[i].json \cup gathered[i].sql : Fits(c, request[i])
    BY <1>8 DEF DiInv, Di!GatheredFits, Fits
  <2>2. \A i \in 1 .. n + 1 : ~Di!NamesNobody(request[i]) =>
          \A c \in gathered'[i].json \cup gathered'[i].sql : Fits(c, request[i])
    <3> SUFFICES ASSUME NEW i \in 1 .. n + 1, ~Di!NamesNobody(request[i])
                 PROVE  \A c \in gathered'[i].json \cup gathered'[i].sql : Fits(c, request[i])
      OBVIOUS
    <3>1. CASE i = n + 1
      BY <1>5, <1>7, <1>8, <3>1
    <3>2. CASE i # n + 1
      <4>1. i \in 1 .. n
        BY <1>1, <3>2
      <4>2. QED BY <1>8, <2>1, <4>1
    <3>3. QED BY <3>1, <3>2
  <2>3. QED BY <1>2, <1>8, <2>2 DEF Fits, Di!GatheredFits, Di!Unmistakable, Di!AnsweredBy, Di!Shows, Di!Satisfies,
                                    Di!NamesNobody
<1>12. Len(request) = 1 /\ ~Di!NamesNobody(request[1]) =>
         LET fitting == {c \in held : Di!AnsweredBy(request[1], about, c)}
         IN gathered'[1].json = fitting /\ gathered'[1].sql = fitting
  <2>1. Len(request) = 1 => n = 0
    BY <1>1
  <2>2. n = 0 => gathered'[1] = found
    BY <1>8
  <2>3. QED BY <1>6, <1>7, <2>1, <2>2
<1>13. QED BY <1>2, <1>9, <1>10, <1>11, <1>12 DEF DiInv, Di!Satisfies, Di!Shows, Di!AnsweredBy, Di!Unmistakable, Di!NamesNobody

LEMMA DiChecked ==
  ASSUME Di!DisclosureAssumption, DiInv, Di!Check
  PROVE  DiInv'
<1>1. /\ checked' = (IF Di!Valid(Presented, request) THEN "valid" ELSE "invalid") /\ request # <<>>
      /\ Len(gathered) = Len(request) /\ UNCHANGED <<request, about, held, where, gathered>>
  BY DEF Di!Check, Presented
<1>2. checked' \in {"valid", "invalid"} /\ (checked' = "valid" <=> Di!Valid(Presented, request))
  BY <1>1, "valid" # "invalid", Zenon
<1>3. (Di!Valid(Presented, request) <=> Di!Valid(Presented, request)') /\ Presented' = Presented
  BY <1>1 DEF Di!Valid, Di!Satisfies, Di!Shows, Presented
<1>4. DiTyped'
  BY <1>1, <1>2 DEF DiInv, DiTyped
<1>5. Di!GatheredFits'
  BY <1>1 DEF DiInv, Di!GatheredFits, Di!Satisfies, Di!Shows, Di!AnsweredBy, Di!Unmistakable, Di!NamesNobody
<1>6. QED BY <1>1, <1>2, <1>3, <1>4, <1>5 DEF DiInv, Di!Satisfies, Di!Shows, Di!AnsweredBy, Di!Unmistakable, Di!NamesNobody

LEMMA DiInductive ==
  ASSUME Di!DisclosureAssumption, DiInv, [Di!Next]_(Di!vars)
  PROVE  DiInv'
<1>1. CASE UNCHANGED Di!vars
  <2>1. UNCHANGED <<request, about, held, where, gathered, checked>>
    BY <1>1 DEF Di!vars
  <2>2. QED BY <2>1 DEF DiInv, DiTyped, Presented, Di!GatheredFits, Di!Valid, Di!Satisfies, Di!Shows, Di!AnsweredBy, Di!Unmistakable, Di!NamesNobody
<1>2. QED BY <1>1, DiAsked, DiGathered, DiChecked DEF Di!Next

(* The request, the conditions that have grown and what was gathered stay of their
   type, for any credentials and any number of claims. *)
THEOREM DisclosureTypeCorrect ==
  ASSUME Di!DisclosureAssumption
  PROVE  Di!Spec => []Di!TypeOK
<1>1. DiInv => Di!TypeOK
  <2> SUFFICES ASSUME DiInv PROVE Di!TypeOK
    OBVIOUS
  <2>1. Di!Range(request) \subseteq AskedClaims
    BY DEF DiInv, DiTyped, Di!Range
  <2>2. \A i \in DOMAIN where : where[i].column \in Di!Column
    <3>1. \A c \in AnyCondition : c.column \in Di!Column
      BY DEF AnyCondition
    <3>2. QED BY <3>1 DEF DiInv, DiTyped
  <2>3. QED BY <2>1, <2>2 DEF DiInv, DiTyped, Di!TypeOK
<1>2. QED BY <1>1, DiBegins, DiInductive, PTL DEF Di!Spec

(* Whatever credentials a holder has and claims a request makes: what either store
   finds for a claim answers it, although the conditions of the claims before it are
   still there, and satisfies it when no other name contains the one of its type or
   context; a request of one claim is given all there is; and what the verifier
   finds valid has each essential claim (getVerifiableCredentialsForSdr and
   validatePresentationAgainstSdr). *)
THEOREM DisclosureFulfils ==
  ASSUME Di!DisclosureAssumption
  PROVE  Di!Spec => []DisclosureIsFaithful
<1>1. DiInv => Di!GatheredFits /\ Di!OneClaimIsFulfilled /\ Di!ValidIsComplete
  <2> SUFFICES ASSUME DiInv PROVE Di!GatheredFits /\ Di!OneClaimIsFulfilled /\ Di!ValidIsComplete
    OBVIOUS
  <2>1. Presented \subseteq held
    <3> DEFINE Found == [json : SUBSET held, sql : SUBSET held]
    <3>1. gathered \in Seq(Found) /\ \A found \in Found : found.json \subseteq held
      BY DEF DiInv, DiTyped
    <3> HIDE DEF Found
    <3>2. \A i \in DOMAIN gathered : gathered[i].json \subseteq held
      BY <3>1
    <3> SUFFICES ASSUME NEW c \in Presented PROVE c \in held
      OBVIOUS
    <3>3. PICK i \in DOMAIN gathered : c \in gathered[i].json
      BY DEF Presented
    <3>4. QED BY <3>2, <3>3
  <2>2. Di!ValidIsComplete
    <3> SUFFICES ASSUME checked = "valid", NEW i \in DOMAIN request, request[i].essential
                 PROVE  \E c \in held : Di!Satisfies(c, request[i])
      BY DEF Di!ValidIsComplete
    <3>1. Di!Valid(Presented, request)
      BY DEF DiInv
    <3>2. QED BY <2>1, <3>1 DEF Di!Valid
  <2>3. Di!OneClaimIsFulfilled
    <3> DEFINE fitting == {c \in held : Di!AnsweredBy(request[1], about, c)}
    <3> SUFFICES ASSUME Len(request) = 1, gathered # <<>>, ~Di!NamesNobody(request[1])
                 PROVE  /\ gathered[1].json = fitting /\ gathered[1].sql = fitting
                        /\ checked # "no" => 
                             (checked = "valid" <=> (\E c \in fitting : Di!Satisfies(c, request[1])) \/ ~request[1].essential)
      BY DEF Di!OneClaimIsFulfilled
    <3>1. gathered[1].json = fitting /\ gathered[1].sql = fitting
      BY DEF DiInv
    <3>2. ASSUME checked # "no" PROVE checked = "valid" <=> (\E c \in fitting : Di!Satisfies(c, request[1])) \/ ~request[1].essential
      <4>1. DOMAIN gathered = {1} /\ DOMAIN request = {1}
        BY <3>2 DEF DiInv, DiTyped
      <4>2. Presented = fitting
        BY <3>1, <4>1 DEF Presented
      <4>3. Di!Valid(Presented, request) <=> (request[1].essential => \E c \in fitting : Di!Satisfies(c, request[1]))
        BY <4>1, <4>2 DEF Di!Valid
      <4>5. checked = "valid" <=> Di!Valid(Presented, request)
        BY <3>2 DEF DiInv
      <4>6. QED BY <4>3, <4>5
    <3>3. QED BY <3>1, <3>2
  <2>4. QED BY <2>2, <2>3 DEF DiInv
<1>2. QED BY <1>1, DiBegins, DiInductive, PTL DEF Di!Spec, DisclosureIsFaithful

------------------------------------------------------------------------------
(* Packing and unpacking                                                   *)

LEMMA RangeIsElements ==
  ASSUME NEW s
  PROVE  Pack!Range(s) = Elements(s)
BY DEF Pack!Range, Elements

LEMMA PackFilters ==
  ASSUME NEW S, NEW s \in Seq(S), NEW gone
  PROVE  Pack!Without(s, gone) \in Seq(S) /\ Elements(Pack!Without(s, gone)) = Elements(s) \ gone
<1>1. Pack!Without(s, gone) = Without(s, gone)
  BY DEF Pack!Without, Without
<1>2. QED BY <1>1, WithoutElements

LEMMA PackFlattens ==
  ASSUME NEW S, NEW seqs \in Seq(Seq(S))
  PROVE  /\ Pack!FlattenSeq(seqs) \in Seq(S)
         /\ Elements(Pack!FlattenSeq(seqs)) = UNION {Elements(seqs[i]) : i \in DOMAIN seqs}
<1>1. Pack!FlattenSeq(seqs) = Flat(seqs)
  BY DEF Pack!FlattenSeq, Flat, IsFlat
<1>2. QED BY <1>1, FlatElements

------------------------------------------------------------------------------
(* The tables of encrypters and decrypters                                 *)

\* An encrypter that is found in the table of encrypters
Tabled(e, as) ==
    /\ e.creator = (IF as = "authcrypt" THEN "ECDH-1PU" ELSE "ECDH-ES")
    /\ e.wrapper \in {"XC20PKW", "A256KW"} /\ e.cipher \in {"A256GCM", "A256CBC-HS512", "XC20P"}

\* What opens what was encrypted with e
Opens(d, e) ==
    d # Pack!NoDecrypter /\ d.creator = e.creator /\ d.wrapper = e.wrapper /\ d.cipher = e.cipher /\ d.enc = e.cipher

LEMMA EncryptersTabled ==
  ASSUME NEW as \in {"authcrypt", "anoncrypt"}, NEW alg, NEW enc, Pack!CanSeal(Pack!EncrypterFor(as, alg, enc))
  PROVE  Tabled(Pack!EncrypterFor(as, alg, enc), as)
<1> DEFINE e == Pack!EncrypterFor(as, alg, enc)
           a == alg[1]
           x == alg[2] = "XC20PKW"
<1>1. e # Pack!NoEncrypter
  BY DEF Pack!CanSeal
<1>2. /\ \/ <<as, a, enc>> = <<"authcrypt", "ECDH-1PU", "A256GCM">>
         \/ <<as, a, enc>> = <<"anoncrypt", "ECDH-ES", "A256GCM">>
         \/ <<as, a, enc>> = <<"authcrypt", "ECDH-1PU", "A256CBC-HS512">>
         \/ <<as, a, enc>> = <<"anoncrypt", "ECDH-ES", "A256CBC-HS512">>
         \/ <<as, a, enc>> = <<"authcrypt", "ECDH-1PU", "XC20P">>
         \/ <<as, a, enc>> = <<"anoncrypt", "ECDH-ES", "XC20P">>
  BY <1>1 DEF Pack!EncrypterFor
<1>3. QED
  BY <1>2 DEF Pack!EncrypterFor, Tabled, Pack!Encrypter,
    Pack!a256cbcHs512AnonEncrypterX25519WithXC20PKW, Pack!a256cbcHs512AuthEncrypterX25519WithXC20PKW,
    Pack!a256gcmAnonEncrypterX25519WithXC20PKW, Pack!a256gcmAuthEncrypterEcdh1PuV3x25519WithXC20PKW,
    Pack!xc20pAnonEncrypterX25519WithXC20PKW, Pack!xc20pAuthEncrypterEcdh1PuV3x25519WithXC20PKW,
    Pack!a256cbcHs512AnonEncrypterX25519WithA256KW, Pack!a256cbcHs512AuthEncrypterX25519WithA256KW,
    Pack!a256gcmAnonEncrypterX25519WithA256KW, Pack!a256gcmAuthEncrypterEcdh1PuV3x25519WithA256KW,
    Pack!xc20pAnonEncrypterX25519WithA256KW, Pack!xc20pAuthEncrypterEcdh1PuV3x25519WithA256KW

LEMMA DecryptersTabled ==
  ASSUME NEW as \in {"authcrypt", "anoncrypt"}, NEW e, Tabled(e, as)
  PROVE  Opens(Pack!DecrypterFor(as, e.wrapper, e.cipher), e)
<1> DEFINE d == Pack!DecrypterFor(as, e.wrapper, e.cipher)
           w == e.wrapper
           c == e.cipher
<1>1. /\ w \in {"XC20PKW", "A256KW"} /\ c \in {"A256GCM", "A256CBC-HS512", "XC20P"}
      /\ e.creator = (IF as = "authcrypt" THEN "ECDH-1PU" ELSE "ECDH-ES")
  BY DEF Tabled
<1>2. d = [creator |-> IF as = "authcrypt" THEN "ECDH-1PU" ELSE "ECDH-ES", wrapper |-> w, cipher |-> c, enc |-> c]
  BY <1>1 DEF Pack!DecrypterFor, Pack!Decrypter,
    Pack!a256cbcHs512AnonDecrypterX25519WithXC20PKW, Pack!a256cbcHs512AuthDecrypterX25519WithXC20PKW,
    Pack!a256gcmAnonDecrypterX25519WithXC20PKW, Pack!a256gcmAuthDecrypterEcdh1PuV3x25519WithXC20PKW,
    Pack!xc20pAnonDecrypterX25519WithXC20PKW, Pack!xc20pAuthDecrypterEcdh1PuV3x25519WithXC20PKW,
    Pack!a256cbcHs512AnonDecrypterX25519WithA256KW, Pack!a256cbcHs512AuthDecrypterX25519WithA256KW,
    Pack!a256gcmAnonDecrypterX25519WithA256KW, Pack!a256gcmAuthDecrypterEcdh1PuV3x25519WithA256KW,
    Pack!xc20pAnonDecrypterX25519WithA256KW, Pack!xc20pAuthDecrypterEcdh1PuV3x25519WithA256KW
<1> HIDE DEF d
<1>3. d.creator = e.creator /\ d.wrapper = w /\ d.cipher = c /\ d.enc = c
  BY <1>1, <1>2
<1>4. d # Pack!NoDecrypter
  <2>1. Pack!NoDecrypter.wrapper = "none"
    BY DEF Pack!NoDecrypter, Pack!NoEncrypter, Pack!Encrypter
  <2>2. QED BY <1>1, <1>3, <2>1
<1>5. QED BY <1>3, <1>4 DEF Opens, d

\* What was encrypted to a key is opened with it, by the sender's key if it has one.
LEMMA SealedOpens ==
  ASSUME NEW e, NEW d, Opens(d, e), NEW from, NEW tos, NEW i \in DOMAIN tos
  PROVE  Pack!DecryptJWE(Pack!CreateJWE(e, from, tos), d, tos[i], from)
<1> DEFINE recipients == [j \in DOMAIN tos |-> Pack!Wrap(e, "epk", from, tos[j])]
           jwe == [alg |-> Pack!HeaderAlg(e), enc |-> Pack!HeaderEnc(e), epk |-> "epk", cipher |-> e.cipher,
                   recipients |-> recipients]
<1>1. Pack!CreateJWE(e, from, tos) = jwe
  BY DEF Pack!CreateJWE
<1>2. recipients[i] = Pack!Wrap(e, "epk", from, tos[i]) /\ i \in DOMAIN recipients
  OBVIOUS
<1> HIDE DEF recipients
<1>3. jwe.alg = Pack!Alg(e) /\ jwe.enc = e.cipher /\ jwe.epk = "epk" /\ jwe.cipher = e.cipher /\ jwe.recipients = recipients
  BY DEF Pack!HeaderAlg, Pack!HeaderEnc
<1> HIDE DEF jwe
<1>4. Pack!Alg(e) = Pack!Alg(d)
  BY DEF Opens, Pack!Alg
<1>5. recipients[i] = [by |-> d.wrapper, kek |-> Pack!Kek(d.creator, "epk", from, tos[i], Pack!Alg(d))]
  BY <1>2, <1>4 DEF Pack!Wrap, Opens
<1>6. QED BY <1>1, <1>2, <1>3, <1>4, <1>5 DEF Pack!DecryptJWE, Opens

------------------------------------------------------------------------------
(* Documents                                                               *)

\* The methods of all documents, and whom a message may be for
AgreementKeys(d) == UNION {Elements(document.agree) : document \in Elements(Docs[d])}
Addressed == UNION {{[did |-> d, key |-> k] : k \in AgreementKeys(d)} : d \in PackedDIDs}

UniqueIds(keys) == \A i, j \in DOMAIN keys : keys[i].id = keys[j].id => i = j

PlacesInDocs == \A d \in PackedDIDs : documents[d] \in DOMAIN Docs[d]

LEMMA KeysOfDocuments ==
  ASSUME Pack!PackingAssumption, PlacesInDocs, NEW d \in PackedDIDs
  PROVE  LET keys == Pack!Doc(d).agree IN
         keys \in Seq(Elements(keys)) /\ Elements(keys) \subseteq AgreementKeys(d) /\ UniqueIds(keys)
         /\ \A k \in Elements(keys) : Pack!Method(k)
<1> DEFINE document == Docs[d][documents[d]]
           keys == document.agree
<1>1. documents[d] \in DOMAIN Docs[d] /\ Pack!Doc(d) = document
  BY DEF PlacesInDocs, Pack!Doc
<1>2. document \in Elements(Docs[d])
  BY <1>1 DEF Elements
<1>3. Pack!Listed(keys)
  BY <1>2, RangeIsElements DEF Pack!PackingAssumption
<1> HIDE DEF document
<1>4. keys \in Seq(Elements(keys)) /\ UniqueIds(keys) /\ \A k \in Elements(keys) : Pack!Method(k)
  BY <1>3, RangeIsElements DEF Pack!Listed, UniqueIds
<1>5. Elements(keys) \subseteq AgreementKeys(d)
  BY <1>2 DEF AgreementKeys
<1>6. QED BY <1>1, <1>4, <1>5 DEF document

\* A method is found by its id.
LEMMA NamedIsFound ==
  ASSUME NEW S, NEW keys \in Seq(S), UniqueIds(keys), NEW k \in Elements(keys)
  PROVE  Pack!Named(keys, k.id) = k
<1>1. PICK i \in DOMAIN keys : keys[i] = k
  BY DEF Elements
<1>2. {j \in DOMAIN keys : keys[j].id = k.id} = {i}
  BY <1>1 DEF UniqueIds
<1> DEFINE there == {j \in DOMAIN keys : keys[j].id = k.id}
<1> HIDE DEF there
<1>3. Pack!Named(keys, k.id) = IF there = {} THEN Pack!NoKey ELSE Pack!First(keys, there)
  BY DEF Pack!Named, there
<1>4. there = {i}
  BY <1>2 DEF there
<1>5. Pack!First(keys, there) = keys[CHOOSE j \in {i} : \A n \in {i} : j <= n]
  BY <1>4 DEF Pack!First
<1>6. (CHOOSE j \in {i} : \A n \in {i} : j <= n) = i
  <2>1. i \in Nat
    OBVIOUS
  <2>2. QED BY <2>1
<1>7. QED BY <1>1, <1>3, <1>4, <1>5, <1>6

\* Whom a message is for, of one DID
LEMMA RecipientsAddressed ==
  ASSUME Pack!PackingAssumption, PlacesInDocs, NEW d \in PackedDIDs, NEW ask
  PROVE  /\ Pack!Recipients(d, ask) \in Seq(Addressed)
         /\ \A r \in Elements(Pack!Recipients(d, ask)) : r.did = d
<1> DEFINE keys == Pack!Doc(d).agree
           gone == {k \in Pack!Range(keys) : (ask.kids # {} /\ k.id \notin ask.kids) \/ k.type # "X25519"}
           usable == Pack!Without(keys, gone)
           for == [i \in DOMAIN usable |-> [did |-> d, key |-> usable[i]]]
<1>1. keys \in Seq(Elements(keys)) /\ Elements(keys) \subseteq AgreementKeys(d)
  BY KeysOfDocuments
<1>2. Pack!Recipients(d, ask) = for
  BY DEF Pack!Recipients
<1> HIDE DEF keys, gone
<1>3. usable \in Seq(Elements(keys))
  BY <1>1, PackFilters
<1> HIDE DEF usable
<1>4. \A i \in DOMAIN usable : [did |-> d, key |-> usable[i]] \in Addressed
  BY <1>1, <1>3 DEF Addressed
<1>5. for \in Seq(Addressed)
  BY <1>3, <1>4
<1>6. \A r \in Elements(for) : r.did = d
  BY DEF Elements
<1>7. QED BY <1>2, <1>5, <1>6

------------------------------------------------------------------------------
(* The inductive invariant of packing                                      *)

\* What an encrypted message is, of what was asked
IsSealed ==
    /\ asked.as \in {"authcrypt", "anoncrypt"}
    /\ IF asked.as = "authcrypt" THEN packed.by.type = "X25519" ELSE packed.by = Pack!NoKey
    /\ Tabled(packed.with, asked.as)
    /\ packed.for \in Seq(Addressed)
    /\ Pack!NobodyIsLeftOut

PackInv ==
    /\ PlacesInDocs
    /\ packed.as \in {"nothing", "threw", "plain", "jws", "jwe"}
    /\ asked = Pack!Nothing <=> packed = Pack!Nothing
    /\ packed.as = "nothing" => packed = Pack!Nothing
    /\ packed.as = "plain" => asked.as = "none"
    /\ packed.as = "jws" => asked.as = "jws"
    /\ packed.as = "jwe" => IsSealed
    /\ \A a \in Agents : unpacked[a].as \in {"nothing", "threw", "none", "jws", "authcrypt", "anoncrypt"}
    /\ unpacked \in [Agents -> {unpacked[a] : a \in Agents}]
    /\ \A a \in Agents : unpacked[a].as # "nothing" => packed.as \in {"plain", "jws", "jwe"}
    /\ Pack!PackingIsKept

LEMMA PackBegins ==
  ASSUME Pack!PackingAssumption, Pack!Init
  PROVE  PackInv
<1>1. documents = [d \in PackedDIDs |-> 1] /\ packed = Pack!Nothing /\ asked = Pack!Nothing
      /\ unpacked = [a \in Agents |-> Pack!Nothing] /\ Pack!Nothing.as = "nothing"
  BY DEF Pack!Init, Pack!Nothing
<1>2. \A d \in PackedDIDs : 1 \in DOMAIN Docs[d]
  <2> SUFFICES ASSUME NEW d \in PackedDIDs PROVE 1 \in DOMAIN Docs[d]
    OBVIOUS
  <2> DEFINE S == Pack!Range(Docs[d])
  <2>1. Docs[d] \in Seq(S) /\ Docs[d] # <<>>
    BY DEF Pack!PackingAssumption
  <2> HIDE DEF S
  <2>2. QED BY <2>1
<1>3. PlacesInDocs
  BY <1>1, <1>2 DEF PlacesInDocs
<1>4. \A a \in Agents : unpacked[a].as = "nothing"
  BY <1>1
<1>5. Pack!PackingIsKept
  BY <1>4 DEF Pack!PackingIsKept
<1>6. unpacked \in [Agents -> {unpacked[a] : a \in Agents}]
  BY <1>1
<1>7. QED BY <1>1, <1>3, <1>4, <1>5, <1>6 DEF PackInv

LEMMA SealedNobodyOut ==
  ASSUME Pack!PackingAssumption, PackInv, NEW ask \in PackAsks, Pack!Pack(ask),
         ask.packing \in {"authcrypt", "anoncrypt"}, packed' = Pack!PackJWE(ask), packed'.as = "jwe",
         asked' = [as |-> ask.packing, ask |-> ask], UNCHANGED <<documents, unpacked>>
  PROVE  IsSealed'
<1> DEFINE by == IF ask.packing = "authcrypt" THEN Pack!KeyFor(Pack!Doc(PackingDID).agree, ask.keyRef) ELSE Pack!NoKey
           alg == IF ask.alg = <<"default">> THEN Pack!Default(ask.packing) ELSE ask.alg
           e == Pack!EncrypterFor(ask.packing, alg, ask.enc)
           dids == ask.to \o ask.bcc
           each == [i \in DOMAIN dids |-> Pack!Recipients(dids[i], ask)]
           for == Pack!FlattenSeq(each)
           fine == /\ ask.packing = "authcrypt" => by.type = "X25519"
                   /\ Pack!AllReachable(ask) /\ Pack!CanSeal(e) /\ dids # <<>>
           jwe == [as |-> "jwe", by |-> by, with |-> e, for |-> for]
<1>1. packed' = IF fine THEN jwe ELSE Pack!Threw
  BY DEF Pack!PackJWE
<1>2. Pack!Threw.as = "threw"
  BY DEF Pack!Threw
<1>3. \A i \in DOMAIN dids : Pack!Recipients(dids[i], ask) # <<>> \/ ~fine
  BY DEF Pack!AllReachable
<1>4. dids \in Seq(PackedDIDs)
  BY DEF Pack!PackingAssumption
<1>5. (ask.packing = "authcrypt" => by.type = "X25519" \/ ~fine) /\ (ask.packing # "authcrypt" => by = Pack!NoKey)
      /\ (fine => Pack!CanSeal(e))
  BY Zenon
<1>6. fine => Tabled(e, ask.packing)
  BY <1>5, EncryptersTabled
<1> HIDE DEF fine, by, e
<1>7. fine /\ packed' = jwe
  BY <1>1, <1>2
<1> HIDE DEF dids
<1>8. each \in Seq(Seq(Addressed)) /\ DOMAIN each = DOMAIN dids
  <2>1. \A i \in DOMAIN dids : Pack!Recipients(dids[i], ask) \in Seq(Addressed)
    BY <1>4, RecipientsAddressed DEF PackInv
  <2>2. QED BY <1>4, <2>1
<1>9. for \in Seq(Addressed) /\ Elements(for) = UNION {Elements(each[i]) : i \in DOMAIN dids}
  BY <1>8, PackFlattens
<1>10. ASSUME NEW i \in DOMAIN dids
       PROVE  \E r \in Elements(for) : r.did = dids[i]
  <2>1. dids[i] \in PackedDIDs /\ each[i] = Pack!Recipients(dids[i], ask)
    BY <1>4
  <2>2. each[i] \in Seq(Addressed) /\ each[i] # <<>> /\ \A r \in Elements(each[i]) : r.did = dids[i]
    BY <1>3, <1>7, <2>1, RecipientsAddressed DEF PackInv
  <2> HIDE DEF for, each
  <2>3. each[i][1] \in Elements(each[i])
    BY <2>2 DEF Elements
  <2>4. each[i][1] \in Elements(for)
    BY <1>9, <2>3
  <2>5. QED BY <2>2, <2>3, <2>4
<1> HIDE DEF for, each
<1>11. packed'.by = by /\ packed'.with = e /\ packed'.for = for /\ packed'.as = "jwe" /\ asked'.as = ask.packing /\ asked'.ask = ask
  BY <1>7
<1>12. Pack!NobodyIsLeftOut'
  <2>1. \A d \in Pack!Range(dids) : \E r \in Pack!Range(for) : r.did = d
    BY <1>10, RangeIsElements DEF Elements
  <2>2. asked'.ask.to \o asked'.ask.bcc = dids /\ packed'.for = for
    BY <1>11 DEF dids
  <2>3. \A d \in Pack!Range(asked'.ask.to \o asked'.ask.bcc) : \E r \in Pack!Range(packed'.for) : r.did = d
    BY <2>1, <2>2, Zenon
  <2>4. QED BY <2>3, Zenon DEF Pack!NobodyIsLeftOut, Pack!Range
<1>13. QED BY <1>5, <1>6, <1>7, <1>9, <1>11, <1>12 DEF IsSealed, Addressed, AgreementKeys, Pack!NoKey, Tabled

LEMMA PackPacks ==
  ASSUME Pack!PackingAssumption, PackInv, NEW ask \in PackAsks, Pack!Pack(ask)
  PROVE  PackInv'
<1>1. /\ packed = Pack!Nothing /\ asked' = [as |-> ask.packing, ask |-> ask] /\ UNCHANGED <<documents, unpacked>>
      /\ ask.packing \in {"none", "jws", "authcrypt", "anoncrypt"}
  BY DEF Pack!Pack, Pack!PackingAssumption
<1>2. /\ ask.packing = "none" => packed' = [as |-> "plain"]
      /\ ask.packing = "jws" => packed' = Pack!PackJWS(ask)
      /\ ask.packing \in {"authcrypt", "anoncrypt"} => packed' = Pack!PackJWE(ask)
  BY <1>1, "none" # "jws", "none" # "authcrypt", "none" # "anoncrypt", "jws" # "authcrypt", "jws" # "anoncrypt", Zenon DEF Pack!Pack
<1>3. Pack!PackJWS(ask).as \in {"jws", "threw"} /\ Pack!PackJWE(ask).as \in {"jwe", "threw"}
  BY DEF Pack!PackJWS, Pack!PackJWE, Pack!Threw
<1>4. /\ packed'.as \in {"threw", "plain", "jws", "jwe"} /\ asked'.as = ask.packing
      /\ packed'.as = "plain" => ask.packing = "none"
      /\ packed'.as = "jws" => ask.packing = "jws"
      /\ packed'.as = "jwe" => ask.packing \in {"authcrypt", "anoncrypt"}
  BY <1>1, <1>2, <1>3
<1>5. packed'.as = "jwe" => IsSealed'
  BY <1>1, <1>2, <1>4, SealedNobodyOut
<1>6. asked' # Pack!Nothing /\ packed' # Pack!Nothing
  BY <1>1, <1>4 DEF Pack!Nothing
<1>7. \A a \in Agents : unpacked[a].as = "nothing"
  BY <1>1 DEF PackInv, Pack!Nothing
<1>8. PlacesInDocs' /\ Pack!PackingIsKept'
  BY <1>1, <1>7 DEF PackInv, PlacesInDocs, Pack!PackingIsKept
<1>9. (Pack!Nothing)' = Pack!Nothing
  BY DEF Pack!Nothing
<1> HIDE DEF IsSealed
<1>10. QED BY <1>1, <1>4, <1>5, <1>6, <1>7, <1>8, <1>9 DEF PackInv

LEMMA PackRotates ==
  ASSUME Pack!PackingAssumption, PackInv, NEW d \in PackedDIDs, Pack!Rotate(d)
  PROVE  PackInv'
<1>1. documents[d] < Len(Docs[d]) /\ documents' = [documents EXCEPT ![d] = @ + 1] /\ UNCHANGED <<packed, asked, unpacked>>
  BY DEF Pack!Rotate
<1>2. documents[d] + 1 \in DOMAIN Docs[d]
  <2> DEFINE S == Pack!Range(Docs[d])
  <2>1. Docs[d] \in Seq(S) /\ documents[d] \in DOMAIN Docs[d]
    BY DEF Pack!PackingAssumption, PackInv, PlacesInDocs
  <2> HIDE DEF S
  <2>2. QED BY <1>1, <2>1
<1>3. PlacesInDocs'
  BY <1>1, <1>2 DEF PackInv, PlacesInDocs
<1>4. IsSealed => IsSealed'
  BY <1>1 DEF IsSealed, Pack!NobodyIsLeftOut, Pack!NoKey, Tabled, Addressed, AgreementKeys
<1>5. Pack!PackingIsKept' /\ (Pack!Nothing)' = Pack!Nothing
  BY <1>1 DEF PackInv, Pack!PackingIsKept, Pack!Nothing
<1> HIDE DEF IsSealed
<1>6. QED BY <1>1, <1>3, <1>4, <1>5 DEF PackInv

\* How a message is read says how it was packed.
LEMMA ReadAsPacked ==
  ASSUME IsSealed, NEW sender, sender = Pack!NoKey <=> packed.by = Pack!NoKey
  PROVE  Pack!ReadAs(sender) = asked.as
<1>1. Pack!Message.alg[1] = packed.with.creator
  <2> DEFINE alg == Pack!HeaderAlg(packed.with)
  <2>1. alg = <<packed.with.creator, packed.with.wrapper>>
    BY DEF Pack!HeaderAlg, Pack!Alg
  <2>2. Pack!Message.alg = alg
    BY DEF Pack!Message, Pack!CreateJWE
  <2> HIDE DEF alg
  <2>3. QED BY <2>1, <2>2
<1>2. CASE asked.as = "authcrypt"
  <2>1. packed.by # Pack!NoKey /\ packed.with.creator = "ECDH-1PU"
    BY <1>2 DEF IsSealed, Tabled, Pack!NoKey
  <2>2. QED BY <1>1, <1>2, <2>1 DEF Pack!ReadAs
<1>3. CASE asked.as = "anoncrypt"
  <2>1. packed.by = Pack!NoKey
    BY <1>3 DEF IsSealed
  <2>2. QED BY <1>3, <2>1 DEF Pack!ReadAs
<1>4. QED BY <1>2, <1>3 DEF IsSealed

LEMMA PackUnpacks ==
  ASSUME Pack!PackingAssumption, PackInv, NEW a \in Agents, Pack!Unpack(a)
  PROVE  PackInv'
<1> DEFINE read == CASE packed.as = "plain" -> [as |-> "none"]
                     [] packed.as = "jws" -> Pack!UnpackJWS
                     [] packed.as = "jwe" -> Pack!UnpackJWE(a)
<1>1. packed.as \in {"plain", "jws", "jwe"} /\ unpacked' = [unpacked EXCEPT ![a] = read] /\ UNCHANGED <<documents, packed, asked>>
  BY DEF Pack!Unpack
<1>2. /\ packed.as = "plain" => read = [as |-> "none"]
      /\ packed.as = "jws" => read = Pack!UnpackJWS
      /\ packed.as = "jwe" => read = Pack!UnpackJWE(a)
  BY "plain" # "jws", "plain" # "jwe", "jws" # "jwe", Zenon
<1> HIDE DEF read
<1>3. read.as = "threw" \/ (read.as = asked.as /\ asked.as \in {"none", "jws", "authcrypt", "anoncrypt"})
  <2>1. CASE packed.as = "plain"
    BY <1>2, <2>1 DEF PackInv
  <2>2. CASE packed.as = "jws"
    BY <1>2, <2>2 DEF PackInv, Pack!UnpackJWS, Pack!Threw
  <2>3. CASE packed.as = "jwe"
    <3>1. IsSealed /\ read = Pack!UnpackJWE(a)
      BY <1>2, <2>3 DEF PackInv
    <3>2. read = Pack!Threw \/ (read = [as |-> Pack!ReadAs(Pack!SenderKey)] /\ (packed.by # Pack!NoKey => Pack!SenderKey.type = "X25519"))
      BY <3>1 DEF Pack!UnpackJWE
    <3>3. Pack!Threw.as = "threw"
      BY DEF Pack!Threw
    <3>4. CASE read = [as |-> Pack!ReadAs(Pack!SenderKey)] /\ (packed.by # Pack!NoKey => Pack!SenderKey.type = "X25519")
      <4>1. Pack!NoKey.type # "X25519"
        BY DEF Pack!NoKey
      <4>2. Pack!SenderKey = Pack!NoKey <=> packed.by = Pack!NoKey
        BY <3>4, <4>1 DEF Pack!SenderKey
      <4>3. Pack!ReadAs(Pack!SenderKey) = asked.as
        BY <3>1, <4>2, ReadAsPacked
      <4>4. QED BY <3>1, <3>4, <4>3 DEF IsSealed
    <3>5. QED BY <3>2, <3>3, <3>4
  <2>4. QED BY <1>1, <2>1, <2>2, <2>3
<1>4. unpacked \in [Agents -> {unpacked[b] : b \in Agents}]
  BY DEF PackInv
<1>5. unpacked' \in [Agents -> {unpacked'[b] : b \in Agents}] /\ unpacked'[a] = read
      /\ \A b \in Agents : b # a => unpacked'[b] = unpacked[b]
  BY <1>1, <1>4
<1>6. \A b \in Agents : /\ unpacked'[b].as \in {"nothing", "threw", "none", "jws", "authcrypt", "anoncrypt"}
                        /\ unpacked'[b].as \notin {"nothing", "threw"} => unpacked'[b].as = asked.as
  BY <1>3, <1>5 DEF PackInv, Pack!PackingIsKept
<1>7. Pack!PackingIsKept' /\ (Pack!Nothing)' = Pack!Nothing
  BY <1>1, <1>6 DEF Pack!PackingIsKept, Pack!Nothing
<1>8. IsSealed => IsSealed'
  BY <1>1 DEF IsSealed, Pack!NobodyIsLeftOut, Pack!NoKey, Tabled, Addressed, AgreementKeys
<1>9. PlacesInDocs'
  BY <1>1 DEF PackInv, PlacesInDocs
<1> HIDE DEF IsSealed
<1>10. QED BY <1>1, <1>5, <1>6, <1>7, <1>8, <1>9 DEF PackInv

LEMMA PackInductive ==
  ASSUME Pack!PackingAssumption, PackInv, [Pack!Next]_(Pack!vars)
  PROVE  PackInv'
<1>1. CASE UNCHANGED Pack!vars
  <2>1. UNCHANGED <<documents, packed, asked, unpacked>>
    BY <1>1 DEF Pack!vars
  <2>2. IsSealed => IsSealed'
    BY <2>1 DEF IsSealed, Pack!NobodyIsLeftOut, Pack!NoKey, Tabled, Addressed, AgreementKeys
  <2>3. Pack!PackingIsKept' /\ (Pack!Nothing)' = Pack!Nothing /\ PlacesInDocs'
    BY <2>1 DEF PackInv, Pack!PackingIsKept, Pack!Nothing, PlacesInDocs
  <2> HIDE DEF IsSealed
  <2>4. QED BY <2>1, <2>2, <2>3 DEF PackInv
<1>2. QED BY <1>1, PackPacks, PackRotates, PackUnpacks DEF Pack!Next

------------------------------------------------------------------------------
(* Who can read                                                            *)

\* An agent that holds a key which its document still has finds it among those that
\* the message is for.
LEMMA KeptIsLocal ==
  ASSUME Pack!PackingAssumption, PackInv, packed.as = "jwe", NEW a \in Agents, NEW d \in Manages[a],
         NEW key, Pack!Keeps(d, a, key)
  PROVE  \E i \in DOMAIN Pack!LocalKeys(a) : Pack!LocalKeys(a)[i] = key.pub
<1> DEFINE now(r) == Pack!Named(Pack!Doc(r.did).agree, r.key.id)
           gone == {r \in Pack!Range(packed.for) : r.did \notin Manages[a] \/ now(r).pub \notin Owns[a]}
           mine == Pack!Without(packed.for, gone)
           found == [did |-> d, key |-> key]
           keys == Pack!Doc(d).agree
<1>1. Pack!LocalKeys(a) = [i \in DOMAIN mine |-> now(mine[i]).pub]
  BY DEF Pack!LocalKeys
<1>2. d \in PackedDIDs
  BY DEF Pack!PackingAssumption
<1>3. key \in Elements(keys) /\ key.pub \in Owns[a] /\ found \in Elements(packed.for)
  BY RangeIsElements DEF Pack!Keeps
<1>4. Pack!Named(keys, key.id) = key
  <2>1. keys \in Seq(Elements(keys)) /\ UniqueIds(keys)
    BY <1>2, KeysOfDocuments DEF PackInv
  <2> HIDE DEF keys
  <2>2. QED BY <1>3, <2>1, NamedIsFound
<1>5. now(found) = key /\ found.did = d
  BY <1>4
<1>6. found \notin gone
  BY <1>3, <1>5
<1> HIDE DEF now, gone, found
<1>7. mine \in Seq(Addressed) /\ Elements(mine) = Elements(packed.for) \ gone
  BY PackFilters DEF PackInv, IsSealed
<1> HIDE DEF mine
<1>8. PICK i \in DOMAIN mine : mine[i] = found
  BY <1>3, <1>6, <1>7 DEF Elements
<1>9. QED BY <1>1, <1>5, <1>8

LEMMA KeptReads ==
  ASSUME Pack!PackingAssumption, PackInv, packed.as = "jwe", NEW a \in Agents, NEW d \in Manages[a],
         packed.by \in Pack!Range(Pack!Doc(PackingDID).agree) \cup {Pack!NoKey}, NEW key, Pack!Keeps(d, a, key)
  PROVE  Pack!UnpackJWE(a) # Pack!Threw
<1> DEFINE e == packed.with
           from == packed.by.pub
           tos == [i \in DOMAIN packed.for |-> packed.for[i].key.pub]
           dec == Pack!DecrypterFor(asked.as, e.wrapper, e.cipher)
           keys == Pack!LocalKeys(a)
           sender == Pack!SenderKey
<1>1. IsSealed
  BY DEF PackInv
<1>2. sender = packed.by
  <2>1. CASE packed.by = Pack!NoKey
    BY <2>1 DEF Pack!SenderKey
  <2>2. CASE packed.by # Pack!NoKey
    <3>1. packed.by \in Elements(Pack!Doc(PackingDID).agree) /\ PackingDID \in PackedDIDs
      BY <2>2, RangeIsElements DEF Pack!PackingAssumption
    <3> DEFINE senders == Pack!Doc(PackingDID).agree
    <3>2. senders \in Seq(Elements(senders)) /\ UniqueIds(senders)
      BY <3>1, KeysOfDocuments DEF PackInv
    <3> HIDE DEF senders
    <3>3. Pack!Named(senders, packed.by.id) = packed.by
      BY <3>1, <3>2, NamedIsFound DEF senders
    <3>4. QED BY <2>2, <3>3 DEF Pack!SenderKey, senders
  <2>3. QED BY <2>1, <2>2
<1>3. packed.by = Pack!NoKey \/ packed.by.type = "X25519"
  BY <1>1 DEF IsSealed
<1>4. asked.as \in {"authcrypt", "anoncrypt"} /\ Pack!ReadAs(sender) = asked.as
  BY <1>1, <1>2, ReadAsPacked DEF IsSealed
<1>5. Opens(dec, e)
  BY <1>1, <1>4, DecryptersTabled DEF IsSealed
<1>6. Pack!Message = Pack!CreateJWE(e, from, tos)
  BY DEF Pack!Message
<1>7. Pack!Message.enc = e.cipher /\ Pack!Message.alg[Len(Pack!Message.alg)] = e.wrapper
  <2> DEFINE alg == <<e.creator, e.wrapper>>
  <2>1. Pack!Message.alg = alg /\ Pack!Message.enc = e.cipher
    BY <1>6 DEF Pack!CreateJWE, Pack!HeaderAlg, Pack!Alg, Pack!HeaderEnc
  <2>2. Len(alg) = 2 /\ alg[2] = e.wrapper
    OBVIOUS
  <2> HIDE DEF alg
  <2>3. QED BY <2>1, <2>2
<1>8. PICK i \in DOMAIN tos : tos[i] = key.pub
  <2>1. [did |-> d, key |-> key] \in Elements(packed.for)
    BY RangeIsElements DEF Pack!Keeps
  <2>2. PICK i \in DOMAIN packed.for : packed.for[i] = [did |-> d, key |-> key]
    BY <2>1 DEF Elements
  <2>3. packed.for[i].key = key
    BY <2>2
  <2>4. QED BY <2>2, <2>3
<1> HIDE DEF tos, from, e
<1>9. Pack!DecryptJWE(Pack!Message, dec, key.pub, from)
  BY <1>5, <1>6, <1>8, SealedOpens
<1> HIDE DEF dec, sender
<1>10. Pack!Decrypts(key.pub, sender)
  BY <1>2, <1>4, <1>7, <1>9 DEF Pack!Decrypts, dec, from
<1>11. PICK j \in DOMAIN keys : keys[j] = key.pub
  BY KeptIsLocal
<1> HIDE DEF keys
<1>12. Pack!Opened(keys, sender)
  BY <1>10, <1>11 DEF Pack!Opened
<1>13. Pack!UnpackJWE(a) = [as |-> asked.as]
  BY <1>2, <1>3, <1>4, <1>12 DEF Pack!UnpackJWE, keys, sender
<1>14. Pack!Threw.as = "threw"
  BY DEF Pack!Threw
<1>15. QED BY <1>4, <1>13, <1>14

EveryoneReads ==
  \A a \in Agents :
    /\ unpacked[a] = Pack!Nothing /\ unpacked'[a] = Pack!Threw
    /\ packed.as = "jwe" /\ packed.by \in Pack!Range(Pack!Doc(PackingDID).agree) \cup {Pack!NoKey}
    => ~\E d \in Manages[a], i \in 1 .. 2 : i <= Len(Pack!Doc(d).agree) /\ Pack!Keeps(d, a, Pack!Doc(d).agree[i])

LEMMA StepsRead ==
  ASSUME Pack!PackingAssumption, PackInv, [Pack!Next]_(Pack!vars)
  PROVE  EveryoneReads
<1> SUFFICES ASSUME NEW a \in Agents, unpacked[a] = Pack!Nothing, unpacked'[a] = Pack!Threw, packed.as = "jwe",
                    packed.by \in Pack!Range(Pack!Doc(PackingDID).agree) \cup {Pack!NoKey},
                    NEW d \in Manages[a], NEW key, Pack!Keeps(d, a, key)
             PROVE  FALSE
  BY DEF EveryoneReads
<1>1. Pack!Nothing # Pack!Threw
  BY DEF Pack!Nothing, Pack!Threw
<1>2. unpacked'[a] # unpacked[a]
  BY <1>1
<1>3. unpacked' # unpacked
  BY <1>2
<1>4. PICK b \in Agents : Pack!Unpack(b)
  BY <1>3 DEF Pack!Next, Pack!Pack, Pack!Rotate, Pack!vars
<1> DEFINE read == CASE packed.as = "plain" -> [as |-> "none"]
                     [] packed.as = "jws" -> Pack!UnpackJWS
                     [] packed.as = "jwe" -> Pack!UnpackJWE(b)
<1>5. unpacked' = [unpacked EXCEPT ![b] = read]
  BY <1>4 DEF Pack!Unpack
<1>6. read = Pack!UnpackJWE(b)
  BY "plain" # "jwe", "jws" # "jwe", Zenon
<1> HIDE DEF read
<1>7. unpacked \in [Agents -> {unpacked[c] : c \in Agents}]
  BY DEF PackInv
<1>8. a = b /\ unpacked'[b] = read
  BY <1>2, <1>5, <1>7
<1>9. Pack!UnpackJWE(a) # Pack!Threw
  BY KeptReads
<1>10. QED BY <1>6, <1>8, <1>9

(* What was packed, what was asked for and what was read of it stay of their type, for
   any documents, agents and arguments. *)
THEOREM PackingTypeCorrect ==
  ASSUME Pack!PackingAssumption
  PROVE  Pack!Spec => []Pack!TypeOK
<1>1. PackInv => Pack!TypeOK
  <2> SUFFICES ASSUME PackInv PROVE Pack!TypeOK
    OBVIOUS
  <2>1. \A d \in PackedDIDs : documents[d] \in DOMAIN Docs[d]
    BY DEF PackInv, PlacesInDocs
  <2>2. ASSUME NEW d \in PackedDIDs, NEW i \in DOMAIN Pack!Doc(d).agree
        PROVE  Pack!Method(Pack!Doc(d).agree[i])
    <3>1. Pack!Doc(d).agree[i] \in Elements(Pack!Doc(d).agree)
      BY DEF Elements
    <3>2. QED BY <3>1, KeysOfDocuments DEF PackInv
  <2>3. QED BY <2>1, <2>2 DEF PackInv, Pack!TypeOK
<1>2. QED BY <1>1, PackBegins, PackInductive, PTL DEF Pack!Spec

(* Whatever documents the sender and the recipients have, and however they change
   between the two calls: what was packed without a sender is never read as
   authenticated nor the other way around, by whichever encrypter the arguments pick;
   and a message that was packed has a key of everyone it is for, in bcc as well
   (packDIDCommMessageJWE, unpackDIDCommMessageJWE). *)
THEOREM MessagesReadAsPacked ==
  ASSUME Pack!PackingAssumption
  PROVE  Pack!Spec => []PackingIsFaithful
<1>1. PackInv => PackingIsFaithful
  <2>1. packed.as # "jwe" => Pack!NobodyIsLeftOut
    BY DEF Pack!NobodyIsLeftOut
  <2>2. QED BY <2>1 DEF PackInv, IsSealed, PackingIsFaithful
<1>2. QED BY <1>1, PackBegins, PackInductive, PTL DEF Pack!Spec

(* An agent fails to read a message only when it has none of the keys the message is
   for that its recipients' documents still have, or the sender's is gone: the table of
   decrypters has one for each encrypter, the keys are found again by their ids, and
   those that were rotated away do not stand in the way. *)
THEOREM RecipientsRead ==
  ASSUME Pack!PackingAssumption
  PROVE  Pack!Spec => EveryRecipientCanRead
<1>1. PackInv /\ [Pack!Next]_(Pack!vars) => [EveryoneReads]_(Pack!vars)
  BY StepsRead
<1>2. [][EveryoneReads]_(Pack!vars) => EveryRecipientCanRead
  BY PTL DEF EveryoneReads, EveryRecipientCanRead, Pack!EveryRecipientCanRead
<1>3. QED BY <1>1, <1>2, PackBegins, PackInductive, PTL DEF Pack!Spec

------------------------------------------------------------------------------
(* The JSON store (JsonStore), for any records, callers and faults.        *)

LEMMA RecordsFlattened ==
  ASSUME NEW S, NEW seqs \in Seq(Seq(S))
  PROVE  /\ Js!FlattenSeq(seqs) \in Seq(S)
         /\ Elements(Js!FlattenSeq(seqs)) = UNION {Elements(seqs[i]) : i \in DOMAIN seqs}
<1>1. Js!FlattenSeq(seqs) = Flat(seqs)
  BY DEF Js!FlattenSeq, Flat, IsFlat
<1>2. QED BY <1>1, FlatElements

LEMMA SequenceFromFunction ==
  ASSUME NEW S, NEW n \in Nat, NEW f, f = [i \in 1 .. n |-> f[i]], \A i \in 1 .. n : f[i] \in S
  PROVE  f \in Seq(S)
<1>1. f \in [1 .. n -> S]
  OBVIOUS
<1>2. QED BY <1>1

RowsOf == SUBSET Js!Rows

\* A part of a save adds a credential with its claims, or neither.
Whole == {rows \in RowsOf : \A v \in Credentials : Js!Claims(v) \in rows <=> Js!Record(v) \in rows}

\* Who is named by a record that is added is added as well.
Together(rows) == \A r \in Js!Records : Js!Record(r) \in rows => Js!Dids(r) \subseteq rows

\* A row is told by its table and its key.
LEMMA RowsDiffer ==
  ASSUME NEW x, NEW y
  PROVE  /\ Js!Record(x) = Js!Record(y) => x = y
         /\ Js!Claims(x) = Js!Claims(y) => x = y
         /\ Js!Did(x) = Js!Did(y) => x = y
         /\ Js!Record(x) # Js!Claims(y) /\ Js!Record(x) # Js!Did(y) /\ Js!Claims(x) # Js!Did(y)
BY DEF Js!Record, Js!Claims, Js!Did

LEMMA DidsAreRows ==
  ASSUME Js!JsonStoreAssumption, NEW r \in Js!Records
  PROVE  /\ Js!Dids(r) \in Whole /\ Together(Js!Dids(r))
         /\ Js!Record(r) \in Js!Rows
<1>1. RecordParties[r] \subseteq DIDs
  BY DEF Js!JsonStoreAssumption
<1>2. Js!Dids(r) \in Whole
  BY <1>1, RowsDiffer DEF Js!Dids, Whole, RowsOf, Js!Rows
<1>3. QED BY <1>2, RowsDiffer DEF Js!Dids, Together, Js!Rows

LEMMA CredentialSegment ==
  ASSUME Js!JsonStoreAssumption, NEW v \in Credentials
  PROVE  Js!OfCredential(v) \in Whole /\ Together(Js!OfCredential(v))
<1>1. v \in Js!Records
  BY DEF Js!Records
<1>2. Js!Claims(v) \in Js!Rows
  BY DEF Js!Rows
<1>3. Js!OfCredential(v) \in RowsOf
  BY <1>1, <1>2, DidsAreRows DEF Js!OfCredential, RowsOf, Whole
<1>4. \A u \in Credentials : Js!Claims(u) \in Js!OfCredential(v) <=> Js!Record(u) \in Js!OfCredential(v)
  <2>1. \A u : Js!Claims(u) \notin Js!Dids(v) /\ Js!Record(u) \notin Js!Dids(v)
    BY RowsDiffer DEF Js!Dids
  <2>2. QED BY <2>1, RowsDiffer DEF Js!OfCredential
<1>5. Together(Js!OfCredential(v))
  <2>1. \A r : Js!Record(r) \in Js!OfCredential(v) => r = v
    BY RowsDiffer DEF Js!OfCredential, Js!Dids
  <2>2. QED BY <2>1 DEF Together, Js!OfCredential
<1>6. QED BY <1>3, <1>4, <1>5 DEF Whole

\* Added to what is whole, a record that is no credential leaves it whole.
LEMMA WithRecord ==
  ASSUME NEW r \in Js!Records \ Credentials, NEW rows \in Whole
  PROVE  {Js!Record(r)} \union rows \in Whole
<1>1. Js!Record(r) \in Js!Rows
  BY DEF Js!Rows
<1>2. \A v \in Credentials : Js!Record(v) # Js!Record(r) /\ Js!Claims(v) # Js!Record(r)
  BY RowsDiffer
<1>3. QED BY <1>1, <1>2 DEF Whole, RowsOf

LEMMA HeadAndTail ==
  ASSUME NEW S, NEW segments \in Seq(S), segments # <<>>
  PROVE  Elements(segments) = {Head(segments)} \union Elements(Tail(segments))
<1>1. /\ \A i \in DOMAIN segments : i # 1 => i - 1 \in DOMAIN Tail(segments) /\ Tail(segments)[i - 1] = segments[i]
      /\ 1 \in DOMAIN segments /\ segments[1] = Head(segments)
      /\ \A i \in DOMAIN Tail(segments) : i + 1 \in DOMAIN segments /\ segments[i + 1] = Tail(segments)[i]
  OBVIOUS
<1> DEFINE head == Head(segments)
           rest == Tail(segments)
<1> HIDE DEF head, rest
<1>2. /\ \A i \in DOMAIN segments : segments[i] = head \/ segments[i] \in Elements(rest)
      /\ head \in Elements(segments)
      /\ \A i \in DOMAIN rest : rest[i] \in Elements(segments)
  BY <1>1 DEF Elements, head, rest
<1>3. Elements(segments) = {head} \union Elements(rest)
  BY <1>2 DEF Elements
<1>4. QED BY <1>3 DEF head, rest

LEMMA JoinedSegments ==
  ASSUME NEW r \in Js!Records \ Credentials, NEW segments \in Seq(Whole), segments # <<>>
  PROVE  /\ Js!Joined({Js!Record(r)}, segments) \in Seq(Whole)
         /\ Js!Joined({Js!Record(r)}, segments) # <<>>
         /\ UNION Elements(Js!Joined({Js!Record(r)}, segments)) = {Js!Record(r)} \union UNION Elements(segments)
<1>1. Head(segments) \in Whole /\ Tail(segments) \in Seq(Whole)
  OBVIOUS
<1> DEFINE first == {Js!Record(r)} \union Head(segments)
<1>2. first \in Whole
  BY <1>1, WithRecord
<1>3. Js!Joined({Js!Record(r)}, segments) = <<first>> \o Tail(segments)
  BY DEF Js!Joined
<1>4. Elements(segments) = {Head(segments)} \union Elements(Tail(segments))
  BY HeadAndTail
<1> HIDE DEF first
<1>5. <<first>> \in Seq(Whole) /\ Elements(<<first>>) = {first}
  BY <1>2 DEF Elements
<1>6. /\ <<first>> \o Tail(segments) \in Seq(Whole)
      /\ Elements(<<first>> \o Tail(segments)) = {first} \union Elements(Tail(segments))
  <2> DEFINE one == <<first>>
             rest == Tail(segments)
  <2>1. one \in Seq(Whole) /\ rest \in Seq(Whole) /\ Elements(one) = {first}
    BY <1>1, <1>5
  <2> HIDE DEF one, rest
  <2>2. one \o rest \in Seq(Whole) /\ Elements(one \o rest) = Elements(one) \union Elements(rest)
    BY <2>1, JoinedElements
  <2>3. one \o rest \in Seq(Whole) /\ Elements(one \o rest) = {first} \union Elements(rest)
    BY <2>1, <2>2
  <2>4. QED BY <2>3 DEF one, rest
<1>7. first \in Elements(<<first>> \o Tail(segments))
  BY <1>6
<1>8. <<first>> \o Tail(segments) # <<>>
  BY <1>7 DEF Elements
<1>9. UNION Elements(Js!Joined({Js!Record(r)}, segments)) = first \union UNION Elements(Tail(segments))
  BY <1>3, <1>6
<1>10. UNION Elements(segments) = Head(segments) \union UNION Elements(Tail(segments))
  BY <1>4
<1>11. QED BY <1>3, <1>6, <1>8, <1>9, <1>10 DEF first

\* What a record names is added with it.
LEMMA RecordWithDids ==
  ASSUME NEW r \in Js!Records, NEW rows, Together(rows), Js!JsonStoreAssumption
  PROVE  Together({Js!Record(r)} \union (rows \union Js!Dids(r)))
<1>1. Together(Js!Dids(r))
  BY DidsAreRows
<1>2. QED BY <1>1, RowsDiffer DEF Together

\* The segments of parts, and at their end those whom the record names
LEMMA SegmentsWithParties ==
  ASSUME Js!JsonStoreAssumption, NEW r \in Js!Records \ Credentials,
         NEW parts \in Seq(Whole), Together(UNION Elements(parts))
  PROVE  LET segments == Js!Joined({Js!Record(r)}, parts \o <<Js!Dids(r)>>)
         IN segments \in Seq(Whole) /\ segments # <<>> /\ Together(UNION Elements(segments))
<1> DEFINE last == Js!Dids(r)
           joined == parts \o <<last>>
<1>1. last \in Whole
  BY DidsAreRows
<1>2. <<last>> \in Seq(Whole) /\ Elements(<<last>>) = {last}
  <2> HIDE DEF last
  <2>1. QED BY <1>1 DEF Elements
<1>3. joined \in Seq(Whole) /\ Elements(joined) = Elements(parts) \union {last}
  <2> DEFINE one == <<last>>
  <2>1. one \in Seq(Whole) /\ Elements(one) = {last}
    BY <1>2
  <2> HIDE DEF one
  <2>2. parts \o one \in Seq(Whole) /\ Elements(parts \o one) = Elements(parts) \union Elements(one)
    BY <2>1, JoinedElements
  <2>3. parts \o one \in Seq(Whole) /\ Elements(parts \o one) = Elements(parts) \union {last}
    BY <2>1, <2>2
  <2>4. QED BY <2>3 DEF one
<1>4. joined # <<>>
  BY <1>3 DEF Elements
<1>5. UNION Elements(joined) = (UNION Elements(parts)) \union Js!Dids(r)
  BY <1>3
<1> HIDE DEF joined
<1>6. /\ Js!Joined({Js!Record(r)}, joined) \in Seq(Whole)
      /\ Js!Joined({Js!Record(r)}, joined) # <<>>
      /\ UNION Elements(Js!Joined({Js!Record(r)}, joined)) = {Js!Record(r)} \union UNION Elements(joined)
  BY <1>3, <1>4, JoinedSegments
<1>7. Together({Js!Record(r)} \union UNION Elements(joined))
  BY <1>5, RecordWithDids
<1>8. QED BY <1>6, <1>7 DEF joined

PartOK(segments) == segments \in Seq(Whole) /\ segments # <<>> /\ Together(UNION Elements(segments))

LEMMA PresentationSegments ==
  ASSUME Js!JsonStoreAssumption, NEW p \in Presentations
  PROVE  PartOK(Js!OfPresentation(p))
<1> DEFINE parts == [i \in DOMAIN Attached[p] |-> Js!OfCredential(Attached[p][i])]
<1>1. Attached[p] \in Seq(Credentials) /\ p \in Js!Records \ Credentials
  BY DEF Js!JsonStoreAssumption, Js!Records
<1>2. \A i \in DOMAIN parts : parts[i] \in Whole /\ Together(parts[i])
  BY <1>1, CredentialSegment
<1>3. parts \in Seq(Whole)
  <2>1. DOMAIN parts = 1 .. Len(Attached[p]) /\ Len(Attached[p]) \in Nat
    BY <1>1
  <2>2. parts = [i \in 1 .. Len(Attached[p]) |-> parts[i]]
    BY <2>1
  <2> HIDE DEF parts
  <2>3. QED BY <1>2, <2>1, <2>2, SequenceFromFunction
<1>4. Js!OfPresentation(p) = Js!Joined({Js!Record(p)}, parts \o <<Js!Dids(p)>>)
  BY DEF Js!OfPresentation
<1> HIDE DEF parts
<1>5. Together(UNION Elements(parts))
  BY <1>2 DEF Together, Elements
<1>6. QED BY <1>1, <1>3, <1>4, <1>5, SegmentsWithParties DEF PartOK

LEMMA MessageSegments ==
  ASSUME Js!JsonStoreAssumption, NEW m \in Messages
  PROVE  PartOK(Js!OfMessage(m))
<1> DEFINE Part(r) == IF r \in Credentials THEN <<Js!OfCredential(r)>> ELSE Js!OfPresentation(r)
           parts == [i \in DOMAIN Attached[m] |-> Part(Attached[m][i])]
<1>1. Attached[m] \in Seq(Credentials \union Presentations) /\ m \in Js!Records \ Credentials
  BY DEF Js!JsonStoreAssumption, Js!Records
<1>2. ASSUME NEW r \in Credentials \union Presentations PROVE PartOK(Part(r))
  <2>1. CASE r \in Credentials
    <3> DEFINE one == Js!OfCredential(r)
    <3>1. one \in Whole /\ Together(one)
      BY <2>1, CredentialSegment
    <3> HIDE DEF one
    <3>2. <<one>> \in Seq(Whole) /\ <<one>> # <<>> /\ Elements(<<one>>) = {one}
      BY <3>1 DEF Elements
    <3>3. PartOK(<<one>>)
      BY <3>1, <3>2 DEF PartOK
    <3>4. QED BY <2>1, <3>3 DEF one
  <2>2. CASE r \notin Credentials
    BY <2>2, PresentationSegments
  <2>3. QED BY <2>1, <2>2
<1>3. \A i \in DOMAIN Attached[m] : Attached[m][i] \in Credentials \union Presentations
  BY <1>1
<1>4. \A i \in DOMAIN parts : PartOK(parts[i])
  <2> HIDE DEF Part
  <2>1. QED BY <1>2, <1>3
<1>5. Js!OfMessage(m) = Js!Joined({Js!Record(m)}, Js!FlattenSeq(parts) \o <<Js!Dids(m)>>)
  BY DEF Js!OfMessage
<1>6. parts \in Seq(Seq(Whole))
  <2>1. DOMAIN parts = 1 .. Len(Attached[m]) /\ Len(Attached[m]) \in Nat
    BY <1>1
  <2> DEFINE Q == Seq(Whole)
  <2>2. \A i \in DOMAIN parts : parts[i] \in Q
    BY <1>4 DEF PartOK
  <2>3. parts = [i \in 1 .. Len(Attached[m]) |-> parts[i]]
    BY <2>1
  <2> HIDE DEF parts, Q
  <2>4. parts \in Seq(Q)
    BY <2>1, <2>2, <2>3, SequenceFromFunction
  <2>5. QED BY <2>4 DEF Q
<1> HIDE DEF parts
<1>7. /\ Js!FlattenSeq(parts) \in Seq(Whole)
      /\ Elements(Js!FlattenSeq(parts)) = UNION {Elements(parts[i]) : i \in DOMAIN parts}
  BY <1>6, RecordsFlattened
<1>8. Together(UNION Elements(Js!FlattenSeq(parts)))
  <2>1. \A i \in DOMAIN parts : Together(UNION Elements(parts[i]))
    BY <1>4 DEF PartOK
  <2>2. UNION Elements(Js!FlattenSeq(parts)) = UNION {UNION Elements(parts[i]) : i \in DOMAIN parts}
    BY <1>7
  <2>3. QED BY <2>1, <2>2 DEF Together
<1>9. QED BY <1>1, <1>5, <1>7, <1>8, SegmentsWithParties DEF PartOK

LEMMA SegmentsOfRecords ==
  ASSUME Js!JsonStoreAssumption, NEW r \in Js!Records
  PROVE  PartOK(Js!Segments(r))
<1>1. CASE r \in Messages
  BY <1>1, MessageSegments DEF Js!Segments
<1>2. CASE r \in Credentials /\ r \notin Messages
  <2> DEFINE one == Js!OfCredential(r)
  <2>1. one \in Whole /\ Together(one)
    BY <1>2, CredentialSegment
  <2>2. Js!Segments(r) = <<one>>
    BY <1>2 DEF Js!Segments
  <2> HIDE DEF one
  <2>3. <<one>> \in Seq(Whole) /\ <<one>> # <<>> /\ Elements(<<one>>) = {one}
    BY <2>1 DEF Elements
  <2>4. QED BY <2>1, <2>2, <2>3 DEF PartOK
<1>3. CASE r \notin Messages \union Credentials
  BY <1>3, PresentationSegments DEF Js!Segments, Js!Records
<1>4. QED BY <1>1, <1>2, <1>3

\* Everyone whom a record names is there, but for the identifiers that are gone.
Listing(rows, added, out, gone) ==
  \A r \in Js!Records \ out, d \in DIDs \ gone :
    Js!Record(r) \in rows \ added /\ d \in RecordParties[r] => Js!Did(d) \in rows

\* What a running save has not added yet it will add, but for what was deleted.
SaveOK(save, rows, gone) ==
  /\ save.segments \in Seq(Whole)
  /\ UNION Elements(save.segments) \subseteq save.adds
  /\ Together(save.adds)
  /\ \A row \in save.adds : row \in rows \/ row \in save.undone \/ row \in UNION Elements(save.segments)
  /\ \A d : Js!Did(d) \in save.undone => d \in gone

JsTyped ==
  /\ tree \in Whole /\ persisted \in Whole
  /\ saves \in [StoreCallers -> Js!Call]
  /\ made \in 0 .. MaxCalls /\ storeFaults \in 0 .. MaxStoreFaults /\ restarts \in 0 .. MaxRestarts
  /\ present \subseteq Js!Rows /\ absent \subseteq Js!Rows /\ halfDone \subseteq Js!Records /\ deleted \subseteq DIDs

JsInv ==
  /\ JsTyped
  /\ \A c \in StoreCallers : SaveOK(saves[c], tree, deleted)
  /\ Js!AcknowledgedIsPersisted
  /\ absent \intersect Js!BeingAdded = {}
  /\ Listing(tree, Js!BeingAdded, halfDone, deleted)
  /\ Listing(persisted, Js!BeingAdded, halfDone, deleted)

LEMMA NoCallIsOK ==
  /\ Js!NoCall \in Js!Call /\ Js!NoCall.adds = {} /\ Js!NoCall.segments = <<>>
  /\ \A rows, gone : SaveOK(Js!NoCall, rows, gone)
<1>1. Js!NoCall.adds = {} /\ Js!NoCall.undone = {} /\ Js!NoCall.segments = <<>>
  BY DEF Js!NoCall
<1>2. Js!NoCall \in Js!Call
  BY DEF Js!NoCall, Js!Call
<1>3. Elements(<<>>) = {} /\ <<>> \in Seq(Whole)
  BY DEF Elements
<1>4. QED BY <1>1, <1>2, <1>3 DEF SaveOK, Together

\* Beginning a save
LEMMA JsSaves ==
  ASSUME Js!JsonStoreAssumption, JsInv, NEW c \in StoreCallers, NEW r \in Js!Records, Js!Save(c, r)
  PROVE  JsInv'
<1> DEFINE adds == UNION Elements(Js!Segments(r))
           save == [segments |-> Js!Segments(r), adds |-> adds, undone |-> {}]
<1>1. PartOK(Js!Segments(r))
  BY SegmentsOfRecords
<1>2. /\ saves' = [saves EXCEPT ![c] = save] /\ saves[c] = Js!NoCall
      /\ absent' = absent \ adds /\ made' \in 0 .. MaxCalls
      /\ UNCHANGED <<tree, persisted, storeFaults, restarts, present, halfDone, deleted>>
  <2>1. /\ saves' = [saves EXCEPT ![c] = save] /\ saves[c] = Js!NoCall /\ absent' = absent \ adds
        /\ UNCHANGED <<tree, persisted, storeFaults, restarts, present, halfDone, deleted>>
    BY DEF Js!Save, Js!Begin, Js!ToSet, Elements
  <2>2. made < MaxCalls /\ made' = made + 1
    BY DEF Js!Save, Js!Begin
  <2>3. QED BY <2>1, <2>2 DEF JsInv, JsTyped, Js!JsonStoreAssumption
<1>3. adds \subseteq Js!Rows /\ Js!Segments(r) \in Seq(SUBSET Js!Rows)
  <2>1. Js!Segments(r) \in Seq(Whole)
    BY <1>1 DEF PartOK
  <2>2. \A rows \in Whole : rows \subseteq Js!Rows
    BY DEF Whole, RowsOf
  <2>3. QED BY <2>1, <2>2 DEF Elements
<1>4. save \in Js!Call /\ save.segments = Js!Segments(r) /\ save.adds = adds /\ save.undone = {}
  BY <1>3 DEF Js!Call
<1>5. Together(adds) /\ Js!Segments(r) \in Seq(Whole)
  BY <1>1 DEF PartOK
<1>6. SaveOK(save, tree, deleted)
  <2>1. save.adds = UNION Elements(save.segments)
    BY <1>4
  <2> HIDE DEF save, adds
  <2>2. QED BY <1>4, <1>5, <2>1 DEF SaveOK
<1> HIDE DEF save, adds
<1>7. JsTyped'
  BY <1>2, <1>4 DEF JsInv, JsTyped
<1>8. \A d \in StoreCallers : SaveOK(saves'[d], tree', deleted')
  <2>1. \A d \in StoreCallers : saves'[d] = IF d = c THEN save ELSE saves[d]
    BY <1>2 DEF JsInv, JsTyped
  <2>2. QED BY <1>2, <1>6, <2>1 DEF JsInv
<1>9. Js!BeingAdded' = Js!BeingAdded \union adds
  <2>1. \A d \in StoreCallers : saves'[d].adds = IF d = c THEN adds ELSE saves[d].adds
    BY <1>2, <1>4 DEF JsInv, JsTyped
  <2>2. saves[c].adds = {}
    BY <1>2, NoCallIsOK
  <2>3. QED BY <2>1, <2>2 DEF Js!BeingAdded
<1>10. Js!AcknowledgedIsPersisted' /\ absent' \intersect Js!BeingAdded' = {}
  BY <1>2, <1>9 DEF JsInv, Js!AcknowledgedIsPersisted
<1>11. Listing(tree', Js!BeingAdded', halfDone', deleted') /\ Listing(persisted', Js!BeingAdded', halfDone', deleted')
  BY <1>2, <1>9 DEF JsInv, Listing
<1>12. QED BY <1>7, <1>8, <1>10, <1>11 DEF JsInv

\* The rows of one segment are added.
TreeWith(c) == tree \union Head(saves[c].segments)

LEMMA SegmentAdded ==
  ASSUME JsInv, NEW c \in StoreCallers, Len(saves[c].segments) >= 1
  PROVE  /\ TreeWith(c) \in Whole /\ Head(saves[c].segments) \subseteq saves[c].adds
         /\ TreeWith(c) \subseteq tree \union Js!BeingAdded
         /\ \A d \in StoreCallers : SaveOK(saves[d], TreeWith(c), deleted)
         /\ absent \intersect TreeWith(c) = {} /\ present \subseteq TreeWith(c)
         /\ Listing(TreeWith(c), Js!BeingAdded, halfDone, deleted)
         /\ Tail(saves[c].segments) \in Seq(Whole)
         /\ Elements(saves[c].segments) = {Head(saves[c].segments)} \union Elements(Tail(saves[c].segments))
<1> DEFINE segments == saves[c].segments
           first == Head(segments)
<1>1. segments \in Seq(Whole) /\ segments # <<>>
  BY DEF JsInv, SaveOK
<1>2. Elements(segments) = {first} \union Elements(Tail(segments))
  <2> HIDE DEF segments
  <2>1. QED BY <1>1, HeadAndTail
<1>3. first \in Whole /\ Tail(segments) \in Seq(Whole)
  <2> HIDE DEF segments
  <2>1. QED BY <1>1
<1>4. first \subseteq saves[c].adds
  BY <1>2 DEF JsInv, SaveOK
<1>5. saves[c].adds \subseteq Js!BeingAdded
  BY DEF Js!BeingAdded
<1> HIDE DEF segments, first
<1>6. TreeWith(c) = tree \union first
  BY DEF TreeWith, first, segments
<1>7. TreeWith(c) \in Whole
  BY <1>3, <1>6 DEF JsInv, JsTyped, Whole, RowsOf
<1>8. \A d \in StoreCallers : SaveOK(saves[d], TreeWith(c), deleted)
  BY <1>6 DEF JsInv, SaveOK
<1>9. absent \intersect TreeWith(c) = {} /\ present \subseteq TreeWith(c)
  BY <1>4, <1>5, <1>6 DEF JsInv, Js!AcknowledgedIsPersisted
<1>10. Listing(TreeWith(c), Js!BeingAdded, halfDone, deleted)
  BY <1>4, <1>5, <1>6 DEF JsInv, Listing
<1>11. QED BY <1>2, <1>3, <1>4, <1>5, <1>6, <1>7, <1>8, <1>9, <1>10 DEF first, segments

LEMMA JsContinues ==
  ASSUME JsInv, NEW c \in StoreCallers, Js!Continue(c)
  PROVE  JsInv'
<1> DEFINE segments == saves[c].segments
           save == [saves[c] EXCEPT !.segments = Tail(segments)]
<1>1. /\ Len(segments) > 1 /\ tree' = tree \union Head(segments)
      /\ saves' = [saves EXCEPT ![c] = save]
      /\ UNCHANGED <<persisted, made, storeFaults, restarts, present, absent, halfDone, deleted>>
  BY DEF Js!Continue
<1>2. Len(segments) >= 1
  <2>1. segments \in Seq(Whole)
    BY DEF JsInv, SaveOK
  <2>2. QED BY <1>1, <2>1
<1>3. /\ tree' \in Whole /\ Head(segments) \subseteq saves[c].adds
      /\ \A d \in StoreCallers : SaveOK(saves[d], tree', deleted)
      /\ absent \intersect tree' = {} /\ present \subseteq tree'
      /\ Listing(tree', Js!BeingAdded, halfDone, deleted)
      /\ Tail(segments) \in Seq(Whole)
      /\ Elements(segments) = {Head(segments)} \union Elements(Tail(segments))
  <2>1. Len(saves[c].segments) >= 1
    BY <1>2
  <2>2. tree' = TreeWith(c)
    BY <1>1 DEF TreeWith
  <2>3. QED BY <2>1, <2>2, SegmentAdded
<1>4. saves[c] \in Js!Call
  BY DEF JsInv, JsTyped
<1>5. /\ save \in Js!Call /\ save.segments = Tail(segments)
      /\ save.adds = saves[c].adds /\ save.undone = saves[c].undone
  <2>1. Tail(segments) \in Seq(SUBSET Js!Rows)
    <3>1. \A rows \in Whole : rows \in SUBSET Js!Rows
      BY DEF Whole, RowsOf
    <3> DEFINE rest == Tail(segments)
    <3>2. rest \in Seq(Whole)
      BY <1>3
    <3> HIDE DEF rest
    <3>3. rest \in Seq(SUBSET Js!Rows)
      BY <3>1, <3>2
    <3>4. QED BY <3>3 DEF rest
  <2> DEFINE old == saves[c]
             rest == Tail(segments)
  <2>2. old \in Js!Call /\ rest \in Seq(SUBSET Js!Rows) /\ save = [old EXCEPT !.segments = rest]
    BY <1>4, <2>1
  <2> HIDE DEF old, rest, save
  <2>3. /\ save \in Js!Call /\ save.segments = rest /\ save.adds = old.adds /\ save.undone = old.undone
    BY <2>2 DEF Js!Call
  <2>4. QED BY <2>3 DEF old, rest
<1>6. SaveOK(save, tree', deleted)
  <2>1. SaveOK(saves[c], tree', deleted) /\ Head(segments) \subseteq tree'
    BY <1>1, <1>3
  <2> HIDE DEF save
  <2>2. QED BY <1>3, <1>5, <2>1 DEF SaveOK
<1> HIDE DEF save
<1>7. JsTyped'
  BY <1>1, <1>3, <1>5 DEF JsInv, JsTyped
<1>8. \A d \in StoreCallers : SaveOK(saves'[d], tree', deleted')
  <2>1. \A d \in StoreCallers : saves'[d] = IF d = c THEN save ELSE saves[d]
    BY <1>1 DEF JsInv, JsTyped
  <2>2. QED BY <1>1, <1>3, <1>6, <2>1
<1>9. Js!BeingAdded' = Js!BeingAdded
  <2>1. \A d \in StoreCallers : saves'[d].adds = saves[d].adds
    BY <1>1, <1>5 DEF JsInv, JsTyped
  <2>2. QED BY <2>1 DEF Js!BeingAdded
<1>10. QED BY <1>1, <1>3, <1>7, <1>8, <1>9 DEF JsInv, Js!AcknowledgedIsPersisted

\* The last segment is added, and persisted or not.
LEMMA JsEnds ==
  ASSUME Js!JsonStoreAssumption, JsInv, NEW c \in StoreCallers, Js!End(c)
  PROVE  JsInv'
<1> DEFINE segments == saves[c].segments
           rows == tree \union Head(segments)
<1>1. /\ Len(segments) = 1 /\ tree' = rows
      /\ saves' = [saves EXCEPT ![c] = Js!NoCall]
      /\ UNCHANGED <<made, restarts, absent, deleted>>
      /\ \/ /\ persisted' = rows /\ storeFaults' = storeFaults
            /\ present' = present \union (saves[c].adds \ saves[c].undone)
            /\ halfDone' = halfDone
         \/ /\ persisted' = persisted /\ storeFaults < MaxStoreFaults /\ storeFaults' = storeFaults + 1
            /\ halfDone' = halfDone \union Js!Cut({c})
            /\ present' = present
  BY DEF Js!End, Js!Persist, Js!Refuse
<1>2. /\ rows \in Whole /\ Head(segments) \subseteq saves[c].adds
      /\ \A d \in StoreCallers : SaveOK(saves[d], rows, deleted)
      /\ absent \intersect rows = {} /\ present \subseteq rows
      /\ Listing(rows, Js!BeingAdded, halfDone, deleted)
      /\ Tail(segments) \in Seq(Whole)
      /\ Elements(segments) = {Head(segments)} \union Elements(Tail(segments))
  <2>1. Len(saves[c].segments) >= 1
    <3>1. Len(segments) = 1
      BY <1>1
    <3> HIDE DEF segments
    <3>2. Len(segments) >= 1
      BY <3>1
    <3>3. QED BY <3>2 DEF segments
  <2>2. rows = TreeWith(c)
    BY DEF TreeWith
  <2>3. QED BY <2>1, <2>2, SegmentAdded
<1>3. UNION Elements(segments) = Head(segments)
  <2> DEFINE rest == Tail(segments)
  <2>1. rest = <<>>
    <3>1. segments \in Seq(Whole)
      BY DEF JsInv, SaveOK
    <3>2. Len(segments) = 1
      BY <1>1
    <3> HIDE DEF segments
    <3>3. Len(Tail(segments)) = 0 /\ Tail(segments) \in Seq(Whole)
      BY <3>1, <3>2
    <3>4. Tail(segments) = <<>>
      <4> DEFINE tail == Tail(segments)
      <4>1. Len(tail) = 0 /\ tail \in Seq(Whole)
        BY <3>3
      <4> HIDE DEF tail
      <4>2. tail = <<>>
        BY <4>1
      <4>3. QED BY <4>2 DEF tail
    <3>5. QED BY <3>4 DEF segments
  <2>2. Elements(<<>>) = {}
    BY DEF Elements
  <2> HIDE DEF segments
  <2>3. QED BY <1>2, <2>1, <2>2
<1> HIDE DEF rows
<1>4. \A row \in saves[c].adds : row \in rows \/ row \in saves[c].undone
  BY <1>2, <1>3 DEF SaveOK, rows
<1>5. saves[c] \in Js!Call
  BY DEF JsInv, JsTyped
<1>6. JsTyped'
  <2>1. saves' \in [StoreCallers -> Js!Call]
    BY <1>1, NoCallIsOK DEF JsInv, JsTyped
  <2>2. saves[c].adds \subseteq Js!Rows /\ Js!Cut({c}) \subseteq Js!Records
    BY <1>5 DEF Js!Call, Js!Cut
  <2>3. storeFaults' \in 0 .. MaxStoreFaults
    <3>1. storeFaults \in 0 .. MaxStoreFaults /\ MaxStoreFaults \in Nat
      BY DEF JsInv, JsTyped, Js!JsonStoreAssumption
    <3>2. QED BY <1>1, <3>1
  <2>4. persisted' \in Whole /\ present' \subseteq Js!Rows /\ halfDone' \subseteq Js!Records
    BY <1>1, <1>2, <2>2 DEF JsInv, JsTyped
  <2>5. QED BY <1>1, <1>2, <2>1, <2>3, <2>4 DEF JsInv, JsTyped
<1>7. \A d \in StoreCallers : saves'[d] = IF d = c THEN Js!NoCall ELSE saves[d]
  BY <1>1 DEF JsInv, JsTyped
<1>8. \A d \in StoreCallers : SaveOK(saves'[d], tree', deleted')
  BY <1>1, <1>2, <1>7, NoCallIsOK
<1>9. Js!BeingAdded' \subseteq Js!BeingAdded /\ Js!BeingAdded \subseteq Js!BeingAdded' \union saves[c].adds
  BY <1>7, NoCallIsOK DEF Js!BeingAdded
<1>10. Js!AcknowledgedIsPersisted' /\ absent' \intersect Js!BeingAdded' = {}
  BY <1>1, <1>2, <1>4, <1>9 DEF JsInv, Js!AcknowledgedIsPersisted
<1>11. /\ Together(saves[c].adds) /\ \A d : Js!Did(d) \in saves[c].undone => d \in deleted
  BY <1>2 DEF SaveOK
<1>12. Listing(rows, Js!BeingAdded', halfDone, deleted)
  <2> SUFFICES ASSUME NEW r \in Js!Records \ halfDone, NEW d \in DIDs \ deleted,
                      Js!Record(r) \in rows, Js!Record(r) \notin Js!BeingAdded', d \in RecordParties[r]
               PROVE  Js!Did(d) \in rows
    BY DEF Listing
  <2>1. CASE Js!Record(r) \notin Js!BeingAdded
    BY <1>2, <2>1 DEF Listing
  <2>2. CASE Js!Record(r) \in Js!BeingAdded
    <3>1. Js!Record(r) \in saves[c].adds
      BY <1>9, <2>2
    <3>2. Js!Did(d) \in saves[c].adds
      BY <1>11, <3>1 DEF Together, Js!Dids
    <3>3. QED BY <1>4, <1>11, <3>2
  <2>3. QED BY <2>1, <2>2
<1>13. ASSUME halfDone' = halfDone \union Js!Cut({c}), persisted' = persisted
       PROVE  Listing(persisted, Js!BeingAdded', halfDone', deleted)
  <2>1. \A r \in Js!Records \ halfDone' : Js!Record(r) \notin saves[c].adds
    BY <1>13 DEF Js!Cut
  <2>2. QED BY <1>9, <1>13, <2>1 DEF JsInv, Listing
<1>14. Listing(tree', Js!BeingAdded', halfDone', deleted') /\ Listing(persisted', Js!BeingAdded', halfDone', deleted')
  <2>1. Listing(rows, Js!BeingAdded', halfDone', deleted)
    BY <1>1, <1>12 DEF Listing
  <2>2. Listing(persisted', Js!BeingAdded', halfDone', deleted)
    BY <1>1, <1>13, <2>1
  <2>3. QED BY <1>1, <2>1, <2>2
<1>15. QED BY <1>6, <1>8, <1>10, <1>14 DEF JsInv

\* Deleting rows, in one step
LEMMA JsDiscards ==
  ASSUME Js!JsonStoreAssumption, JsInv, NEW c \in StoreCallers, NEW rows \in Whole, Js!Discard(c, rows),
         deleted \subseteq deleted', deleted' \subseteq DIDs, \A d : Js!Did(d) \in rows => d \in deleted'
  PROVE  JsInv'
<1> DEFINE Undone(save) == [save EXCEPT !.undone = save.undone \union (rows \intersect save.adds)]
<1>1. /\ tree' = tree \ rows /\ present' = present \ rows
      /\ made < MaxCalls /\ made' = made + 1
      /\ saves' = [d \in StoreCallers |-> Undone(saves[d])]
      /\ \/ persisted' = tree \ rows /\ storeFaults' = storeFaults /\ absent' = absent \union (rows \ Js!BeingAdded)
         \/ persisted' = persisted /\ storeFaults < MaxStoreFaults /\ storeFaults' = storeFaults + 1 /\ absent' = absent
      /\ UNCHANGED <<restarts, halfDone>>
  BY DEF Js!Discard, Js!Begin, Js!Removed, Js!Undone, Js!Persist, Js!Refuse
<1>2. ASSUME NEW d \in StoreCallers
      PROVE  /\ saves'[d] \in Js!Call /\ saves'[d].segments = saves[d].segments /\ saves'[d].adds = saves[d].adds
             /\ saves'[d].undone = saves[d].undone \union (rows \intersect saves[d].adds)
  <2> DEFINE save == saves[d]
  <2>1. save \in Js!Call /\ saves'[d] = Undone(save)
    BY <1>1 DEF JsInv, JsTyped
  <2> HIDE DEF save
  <2>2. /\ Undone(save).segments = save.segments /\ Undone(save).adds = save.adds
        /\ Undone(save).undone = save.undone \union (rows \intersect save.adds)
        /\ Undone(save) \in Js!Call
    BY <2>1 DEF Js!Call
  <2> HIDE DEF Undone
  <2>3. QED BY <2>1, <2>2 DEF save
<1> HIDE DEF Undone
<1>3. Js!BeingAdded' = Js!BeingAdded
  BY <1>2 DEF Js!BeingAdded
<1>4. tree \ rows \in Whole /\ rows \subseteq Js!Rows
  BY DEF JsInv, JsTyped, Whole, RowsOf
<1>5. JsTyped'
  <2>1. saves' \in [StoreCallers -> Js!Call]
    BY <1>1, <1>2
  <2>2. made' \in 0 .. MaxCalls /\ storeFaults' \in 0 .. MaxStoreFaults
    <3>1. /\ made \in 0 .. MaxCalls /\ MaxCalls \in Nat
          /\ storeFaults \in 0 .. MaxStoreFaults /\ MaxStoreFaults \in Nat
      BY DEF JsInv, JsTyped, Js!JsonStoreAssumption
    <3>2. QED BY <1>1, <3>1
  <2>3. persisted' \in Whole /\ absent' \subseteq Js!Rows
    BY <1>1, <1>4 DEF JsInv, JsTyped
  <2>4. QED BY <1>1, <1>4, <2>1, <2>2, <2>3 DEF JsInv, JsTyped
<1>6. ASSUME NEW d \in StoreCallers PROVE SaveOK(saves'[d], tree', deleted')
  <2>1. SaveOK(saves[d], tree, deleted)
    BY DEF JsInv
  <2>2. QED BY <1>1, <1>2, <2>1 DEF SaveOK
<1>7. Js!AcknowledgedIsPersisted' /\ absent' \intersect Js!BeingAdded' = {}
  BY <1>1, <1>3 DEF JsInv, Js!AcknowledgedIsPersisted
<1>8. Listing(tree \ rows, Js!BeingAdded, halfDone, deleted')
  BY DEF JsInv, Listing
<1>9. Listing(persisted, Js!BeingAdded, halfDone, deleted')
  BY DEF JsInv, Listing
<1>10. QED BY <1>1, <1>3, <1>5, <1>6, <1>7, <1>8, <1>9 DEF JsInv

LEMMA JsDeletes ==
  ASSUME Js!JsonStoreAssumption, JsInv, NEW c \in StoreCallers,
         \/ \E r \in Messages \union Credentials : Js!Delete(c, r)
         \/ \E d \in DIDs : Js!DeleteDid(c, d)
  PROVE  JsInv'
<1>1. ASSUME NEW r \in Messages \union Credentials, Js!Delete(c, r) PROVE JsInv'
  <2> DEFINE rows == {Js!Record(r)} \union (IF r \in Credentials THEN {Js!Claims(r)} ELSE {})
  <2>1. rows \in Whole
    BY RowsDiffer DEF Whole, RowsOf, Js!Rows, Js!Records
  <2>2. \A d : Js!Did(d) \notin rows
    BY RowsDiffer
  <2>3. Js!Discard(c, rows) /\ deleted' = deleted
    BY <1>1 DEF Js!Delete
  <2> HIDE DEF rows
  <2>4. deleted' \subseteq DIDs /\ deleted \subseteq deleted'
    BY <2>3 DEF JsInv, JsTyped
  <2>5. QED BY <2>1, <2>2, <2>3, <2>4, JsDiscards
<1>2. ASSUME NEW d \in DIDs, Js!DeleteDid(c, d) PROVE JsInv'
  <2> DEFINE rows == {Js!Did(d)}
  <2>1. rows \in Whole
    BY RowsDiffer DEF Whole, RowsOf, Js!Rows
  <2>2. Js!Discard(c, rows) /\ deleted' = deleted \union {d}
    BY <1>2 DEF Js!DeleteDid
  <2>3. \A e : Js!Did(e) \in rows => e \in deleted'
    BY <2>2, RowsDiffer
  <2> HIDE DEF rows
  <2>4. deleted' \subseteq DIDs /\ deleted \subseteq deleted'
    BY <2>2 DEF JsInv, JsTyped
  <2>5. QED BY <2>1, <2>2, <2>3, <2>4, JsDiscards
<1>3. QED BY <1>1, <1>2

LEMMA JsRestarts ==
  ASSUME Js!JsonStoreAssumption, JsInv, Js!Restart
  PROVE  JsInv'
<1>1. /\ restarts < MaxRestarts /\ restarts' = restarts + 1 /\ tree' = persisted
      /\ saves' = [c \in StoreCallers |-> Js!NoCall] /\ halfDone' = halfDone \union Js!Cut(StoreCallers)
      /\ UNCHANGED <<persisted, made, storeFaults, present, absent, deleted>>
  BY DEF Js!Restart
<1>2. Js!BeingAdded' = {}
  BY <1>1, NoCallIsOK DEF Js!BeingAdded
<1>3. JsTyped'
  <2>1. restarts' \in 0 .. MaxRestarts
    <3>1. restarts \in 0 .. MaxRestarts /\ MaxRestarts \in Nat
      BY DEF JsInv, JsTyped, Js!JsonStoreAssumption
    <3>2. QED BY <1>1, <3>1
  <2>2. halfDone' \subseteq Js!Records
    BY <1>1 DEF JsInv, JsTyped, Js!Cut
  <2>3. saves' \in [StoreCallers -> Js!Call]
    BY <1>1, NoCallIsOK
  <2>4. QED BY <1>1, <2>1, <2>2, <2>3 DEF JsInv, JsTyped
<1>4. \A c \in StoreCallers : SaveOK(saves'[c], tree', deleted')
  BY <1>1, NoCallIsOK
<1>5. Listing(persisted, {}, halfDone', deleted)
  <2>1. \A r \in Js!Records \ halfDone' : Js!Record(r) \notin Js!BeingAdded
    BY <1>1 DEF Js!Cut, Js!BeingAdded
  <2>2. QED BY <1>1, <2>1 DEF JsInv, Listing
<1>6. QED BY <1>1, <1>2, <1>3, <1>4, <1>5 DEF JsInv, Js!AcknowledgedIsPersisted

LEMMA JsInductive ==
  ASSUME Js!JsonStoreAssumption
  PROVE  Js!Spec => []JsInv
<1>1. Js!Init => JsInv
  <2> SUFFICES ASSUME Js!Init PROVE JsInv
    OBVIOUS
  <2>1. /\ tree = {} /\ persisted = {} /\ saves = [c \in StoreCallers |-> Js!NoCall]
        /\ made = 0 /\ storeFaults = 0 /\ restarts = 0
        /\ present = {} /\ absent = {} /\ halfDone = {} /\ deleted = {}
    BY DEF Js!Init
  <2>2. {} \in Whole
    BY DEF Whole, RowsOf
  <2>3. 0 \in 0 .. MaxCalls /\ 0 \in 0 .. MaxStoreFaults /\ 0 \in 0 .. MaxRestarts
    <3>1. MaxCalls \in Nat /\ MaxStoreFaults \in Nat /\ MaxRestarts \in Nat
      BY DEF Js!JsonStoreAssumption
    <3>2. QED BY <3>1
  <2>4. saves \in [StoreCallers -> Js!Call] /\ \A c \in StoreCallers : SaveOK(saves[c], tree, deleted)
    BY <2>1, NoCallIsOK
  <2>5. QED BY <2>1, <2>2, <2>3, <2>4 DEF JsInv, JsTyped, Js!AcknowledgedIsPersisted, Listing
<1>2. JsInv /\ [Js!Next]_(Js!vars) => JsInv'
  <2>1. ASSUME JsInv, UNCHANGED Js!vars PROVE JsInv'
    BY <2>1 DEF JsInv, Js!vars, JsTyped, Js!AcknowledgedIsPersisted, Js!BeingAdded
  <2>2. QED BY <2>1, JsSaves, JsContinues, JsEnds, JsDeletes, JsRestarts DEF Js!Next
<1>3. QED BY <1>1, <1>2, PTL DEF Js!Spec

(* The tree in memory, what is persisted of it and the calls under way stay of
   their type, for any records, callers and number of storeFaults and restarts. *)
THEOREM JsonStoreTypeCorrect ==
  ASSUME Js!JsonStoreAssumption
  PROVE  Js!Spec => []Js!TypeOK
<1>1. JsInv => Js!TypeOK
  BY DEF JsInv, JsTyped, Whole, RowsOf, Js!TypeOK
<1>2. QED BY <1>1, JsInductive, PTL

(* Whichever calls overlap, and wherever persisting fails or the agent restarts: what
   was acknowledged is in the tree and in what is persisted, the claims of a
   credential have it, and the parties of what is listed are listed, but for the
   writes that were cut short (DataStoreJson, with the notify that persists). *)
THEOREM JsonStoreKeepsAll ==
  ASSUME Js!JsonStoreAssumption
  PROVE  Js!Spec => []JsonStoreKeeps
<1>1. JsInv => JsonStoreKeeps
  <2>1. JsInv => Js!ClaimsHaveCredentials
    BY DEF JsInv, JsTyped, Whole, Js!ClaimsHaveCredentials
  <2>2. JsInv => Js!PartiesAreListed
    BY DEF JsInv, Listing, Js!PartiesAreListed
  <2>3. QED BY <2>1, <2>2 DEF JsInv, JsonStoreKeeps, Js!JsonStoreKeeps
<1>2. QED BY <1>1, JsInductive, PTL
==============================================================================
