-------------------------- MODULE SendMessage_proofs -------------------------
(***************************************************************************)
(* Proofs about SendMessage, for every set of identifiers and services,    *)
(* also when endpoints lead back to one another, and every transport.      *)
(* Below, about DidMethods, for every set of requests and views: what was  *)
(* created resolves, and the agent recognises its own keys in it; and about *)
(* AgentMethods, the calls of an agent's methods, here and over HTTP.      *)
(***************************************************************************)
EXTENDS DataAnswers, SendMessage, Filters_proofs, SequenceTheorems, TLAPS

------------------------------------------------------------------------------
(* The inductive invariant                                                 *)

\* Who opens one envelope finds the next addressed to the one it goes on to.
Chained(packed) == \A i \in 1 .. Len(packed) - 1 : packed[i].next = packed[i + 1].for

\* Whom a message for `to` goes to by way of the mediators `keys`.
FirstHop(keys, to) == IF keys = <<>> THEN to ELSE keys[1]

\* The message of a send that is as it was given can be opened by the recipient
\* before it is wrapped for a service, and by the service's first mediator after.
Leads(f) ==
    /\ Chained(f.packed)
    /\ f.at = "service" => f.packed[1].for = f.to
    /\ f.at \in {"inner", "transports"} => f.packed[1].for = FirstHop(Head(f.left).keys, f.to)

FrameIsSound(f) ==
    /\ f \in Frame
    /\ f.packed # <<>>
    /\ f.at # "end" => f.left # <<>>
    /\ f.at = "inner" => Head(f.left).endpoint # Url
    /\ f.clean /\ f.at # "end" => Leads(f)

Accepted(c) == \E d \in delivered : d.call = c /\ d.accepted

StackIsSound(c) ==
    \A i \in 1 .. Len(stack[c]) :
        /\ FrameIsSound(stack[c][i])
        /\ stack[c][i].ok => Accepted(c)
        /\ i # 1 => stack[c][i].at = "inner"

IInv ==
    /\ TypeOK
    /\ stack \in [Calls -> Seq(Frame)]
    /\ \A c \in Calls : StackIsSound(c)
    /\ AnnouncedWasAccepted
    /\ EveryHopCanOpen

------------------------------------------------------------------------------
(* Stacks                                                                  *)

LEMMA Prefixed ==
    ASSUME NEW F, NEW t \in Seq(F), NEW f \in F
    PROVE  /\ <<f>> \o t \in Seq(F) /\ Len(<<f>> \o t) = Len(t) + 1 /\ (<<f>> \o t)[1] = f
           /\ \A i \in 2 .. Len(t) + 1 : (<<f>> \o t)[i] = t[i - 1]
<1>1. <<f>> \in Seq(F) /\ Len(<<f>>) = 1 /\ <<f>>[1] = f /\ Len(t) \in Nat
    OBVIOUS
<1>2. /\ <<f>> \o t \in Seq(F) /\ Len(<<f>> \o t) = 1 + Len(t)
      /\ \A i \in 1 .. 1 + Len(t) : (<<f>> \o t)[i] = IF i <= 1 THEN <<f>>[i] ELSE t[i - 1]
    BY <1>1, ConcatProperties
<1>3. QED BY <1>1, <1>2

LEMMA Replaced ==
    ASSUME NEW F, NEW s \in Seq(F), s # <<>>, NEW f \in F
    PROVE  /\ <<f>> \o Tail(s) \in Seq(F) /\ Len(<<f>> \o Tail(s)) = Len(s)
           /\ (<<f>> \o Tail(s))[1] = f
           /\ \A i \in 2 .. Len(s) : (<<f>> \o Tail(s))[i] = s[i]
<1>1. Tail(s) \in Seq(F) /\ Len(Tail(s)) = Len(s) - 1 /\ Len(s) \in Nat \ {0}
    OBVIOUS
<1>2. \A i \in 1 .. Len(s) - 1 : Tail(s)[i] = s[i + 1]
    BY <1>1
<1> DEFINE t == Tail(s)
<1> HIDE DEF t
<1>3. t \in Seq(F) /\ Len(t) = Len(s) - 1 /\ \A i \in 1 .. Len(s) - 1 : t[i] = s[i + 1]
    BY <1>1, <1>2 DEF t
<1>4. /\ <<f>> \o t \in Seq(F) /\ Len(<<f>> \o t) = Len(s) /\ (<<f>> \o t)[1] = f
      /\ \A i \in 2 .. Len(s) : (<<f>> \o t)[i] = t[i - 1]
    <2>1. /\ <<f>> \o t \in Seq(F) /\ Len(<<f>> \o t) = Len(t) + 1 /\ (<<f>> \o t)[1] = f
          /\ \A i \in 2 .. Len(t) + 1 : (<<f>> \o t)[i] = t[i - 1]
        BY <1>3, Prefixed
    <2>2. Len(t) + 1 = Len(s)
        BY <1>1, <1>3
    <2>3. QED BY <2>1, <2>2
<1>5. \A i \in 2 .. Len(s) : (<<f>> \o t)[i] = s[i]
    BY <1>1, <1>3, <1>4
<1>6. QED BY <1>4, <1>5 DEF t

LEMMA Popped ==
    ASSUME NEW F, NEW s \in Seq(F), Len(s) > 1, NEW f \in F
    PROVE  LET r == <<f>> \o SubSeq(s, 3, Len(s)) IN
           /\ r \in Seq(F) /\ Len(r) = Len(s) - 1 /\ r[1] = f
           /\ \A i \in 2 .. Len(r) : r[i] = s[i + 1]
<1> DEFINE t == SubSeq(s, 3, Len(s))
<1>1. Len(s) \in Nat
    OBVIOUS
<1>2. t \in Seq(F) /\ Len(t) = Len(s) - 2 /\ \A i \in 1 .. Len(s) - 2 : t[i] = s[i + 2]
    <2>1. \A i \in 3 .. Len(s) : s[i] \in F
        BY <1>1
    <2>2. /\ t \in Seq(F) /\ Len(t) = IF 3 <= Len(s) THEN Len(s) - 3 + 1 ELSE 0
          /\ \A i \in 1 .. Len(s) - 3 + 1 : t[i] = s[3 + i - 1]
        BY <1>1, <2>1, SubSeqProperties
    <2> HIDE DEF t
    <2>3. Len(t) = Len(s) - 2
        <3>1. Len(s) = 2 \/ 3 <= Len(s)
            <4>1. \A n \in Nat : n > 1 => n = 2 \/ 3 <= n
                OBVIOUS
            <4>2. QED BY <1>1, <4>1
        <3>2. CASE Len(s) = 2
            BY <2>2, <3>2
        <3>3. CASE 3 <= Len(s)
            BY <1>1, <2>2, <3>3
        <3>4. QED BY <3>1, <3>2, <3>3
    <2>4. ASSUME NEW i \in 1 .. Len(s) - 2 PROVE t[i] = s[i + 2]
        <3>1. i \in 1 .. Len(s) - 3 + 1 /\ 3 + i - 1 = i + 2
            BY <1>1
        <3>2. t[i] = s[3 + i - 1]
            BY <2>2, <3>1
        <3>3. QED BY <3>1, <3>2
    <2>5. QED BY <2>2, <2>3, <2>4
<1> HIDE DEF t
<1>3. /\ <<f>> \o t \in Seq(F) /\ Len(<<f>> \o t) = Len(s) - 1 /\ (<<f>> \o t)[1] = f
      /\ \A i \in 2 .. Len(s) - 1 : (<<f>> \o t)[i] = t[i - 1]
    <2>1. /\ <<f>> \o t \in Seq(F) /\ Len(<<f>> \o t) = Len(t) + 1 /\ (<<f>> \o t)[1] = f
          /\ \A i \in 2 .. Len(t) + 1 : (<<f>> \o t)[i] = t[i - 1]
        BY <1>2, Prefixed
    <2>2. Len(t) + 1 = Len(s) - 1
        BY <1>1, <1>2
    <2>3. QED BY <2>1, <2>2
<1>4. \A i \in 2 .. Len(s) - 1 : (<<f>> \o t)[i] = s[i + 1]
    BY <1>1, <1>2, <1>3
<1>5. QED BY <1>3, <1>4 DEF t

------------------------------------------------------------------------------
(* Envelopes                                                               *)

LEMMA FirstHopOf ==
    ASSUME NEW keys \in Seq(DIDs), NEW to \in DIDs
    PROVE  Head(keys \o <<to>>) = FirstHop(keys, to) /\ FirstHop(keys, to) \in DIDs
<1>1. CASE keys = <<>>
    BY <1>1 DEF FirstHop
<1>2. CASE keys # <<>>
    BY <1>2 DEF FirstHop
<1>3. QED BY <1>1, <1>2

\* Wrapping keeps what is sound, and the outermost envelope is for the first hop.
LEMMA WrappedIsSound ==
    ASSUME NEW packed \in Seq(Layer), packed # <<>>, NEW keys \in Seq(DIDs), NEW to \in DIDs
    PROVE  /\ Wrapped(packed, keys, to) \in Seq(Layer) /\ Wrapped(packed, keys, to) # <<>>
           /\ Chained(packed) /\ packed[1].for = to =>
                /\ Chained(Wrapped(packed, keys, to))
                /\ Wrapped(packed, keys, to)[1].for = FirstHop(keys, to)
<1> DEFINE outer == [i \in 1..Len(keys) |->
                       [for |-> keys[i], next |-> IF i = Len(keys) THEN to ELSE keys[i + 1]]]
           all == outer \o packed
<1>1. Len(keys) \in Nat /\ Len(packed) \in Nat \ {0} /\ \A i \in 1 .. Len(keys) : keys[i] \in DIDs
    OBVIOUS
<1>2. /\ outer \in Seq(Layer) /\ Len(outer) = Len(keys)
      /\ \A i \in 1 .. Len(keys) :
            /\ outer[i].for = keys[i]
            /\ outer[i].next = IF i = Len(keys) THEN to ELSE keys[i + 1]
    <2>1. \A i \in 1 .. Len(keys) :
            [for |-> keys[i], next |-> IF i = Len(keys) THEN to ELSE keys[i + 1]] \in Layer
        BY <1>1 DEF Layer
    <2>2. QED BY <1>1, <2>1
<1> HIDE DEF outer
<1>3. /\ all \in Seq(Layer) /\ Len(all) = Len(keys) + Len(packed)
      /\ \A i \in 1 .. Len(keys) : all[i] = outer[i]
      /\ \A i \in Len(keys) + 1 .. Len(keys) + Len(packed) : all[i] = packed[i - Len(keys)]
    <2>0. outer \in Seq(Layer)
        BY <1>2
    <2>1. /\ outer \o packed \in Seq(Layer) /\ Len(outer \o packed) = Len(outer) + Len(packed)
          /\ \A i \in 1 .. Len(outer) + Len(packed) :
                (outer \o packed)[i] = IF i <= Len(outer) THEN outer[i] ELSE packed[i - Len(outer)]
        BY <2>0, ConcatProperties
    <2>2. all = outer \o packed
        OBVIOUS
    <2> HIDE DEF all
    <2>3. QED BY <1>1, <1>2, <2>1, <2>2
<1> HIDE DEF all
<1>4. all = Wrapped(packed, keys, to)
    BY DEF all, outer, Wrapped
<1>5. all # <<>>
    BY <1>1, <1>3
<1>6. ASSUME Chained(packed), packed[1].for = to
      PROVE  Chained(all) /\ all[1].for = FirstHop(keys, to)
    <2>1. ASSUME NEW i \in 1 .. Len(all) - 1 PROVE all[i].next = all[i + 1].for
        <3>1. CASE i < Len(keys)
            <4>1. all[i] = outer[i] /\ all[i + 1] = outer[i + 1]
                BY <1>1, <1>3, <3>1
            <4>2. outer[i].next = keys[i + 1] /\ outer[i + 1].for = keys[i + 1]
                BY <1>1, <1>2, <3>1
            <4>3. QED BY <4>1, <4>2
        <3>2. CASE i = Len(keys)
            <4>1. all[i] = outer[i] /\ all[i + 1] = packed[1]
                BY <1>1, <1>3, <3>2
            <4>2. outer[i].next = to
                BY <1>1, <1>2, <3>2
            <4>3. QED BY <1>6, <4>1, <4>2
        <3>3. CASE i > Len(keys)
            <4>1. i - Len(keys) \in 1 .. Len(packed) - 1
                BY <1>1, <1>3, <3>3
            <4>2. all[i] = packed[i - Len(keys)] /\ all[i + 1] = packed[(i - Len(keys)) + 1]
                BY <1>1, <1>3, <3>3
            <4>3. packed[i - Len(keys)].next = packed[(i - Len(keys)) + 1].for
                BY <1>6, <4>1 DEF Chained
            <4>4. QED BY <4>2, <4>3
        <3>4. QED BY <1>1, <1>3, <3>1, <3>2, <3>3
    <2>2. all[1].for = FirstHop(keys, to)
        <3>1. CASE keys = <<>>
            <4>1. all[1] = packed[1]
                BY <1>1, <1>3, <3>1
            <4>2. QED BY <1>6, <3>1, <4>1 DEF FirstHop
        <3>2. CASE keys # <<>>
            <4>1. 1 \in 1 .. Len(keys)
                BY <1>1, <3>2
            <4>2. QED BY <1>2, <1>3, <3>2, <4>1 DEF FirstHop
        <3>3. QED BY <3>1, <3>2
    <2>3. QED BY <2>1, <2>2 DEF Chained
<1>7. QED BY <1>3, <1>4, <1>5, <1>6

\* The envelope for an endpoint is for it, and goes on to the first hop of a
\* service with at most one routing key.
LEMMA ForEndpointIsSound ==
    ASSUME NEW packed \in Seq(Layer), packed # <<>>, NEW s \in Service, s.endpoint \in DIDs, NEW to \in DIDs
    PROVE  /\ ForEndpoint(packed, s, to) \in Seq(Layer) /\ ForEndpoint(packed, s, to) # <<>>
           /\ Chained(packed) /\ Len(s.keys) <= 1 /\ packed[1].for = FirstHop(s.keys, to) =>
                Chained(ForEndpoint(packed, s, to)) /\ ForEndpoint(packed, s, to)[1].for = s.endpoint
<1> DEFINE next == IF s.keys = <<>> THEN to ELSE s.keys[Len(s.keys)]
           layer == [for |-> s.endpoint, next |-> next]
           all == <<layer>> \o packed
<1>1. s.keys \in Seq(DIDs) /\ Len(s.keys) \in Nat /\ Len(packed) \in Nat
    BY DEF Service
<1>2. next \in DIDs
    BY <1>1
<1>3. Len(s.keys) <= 1 => next = FirstHop(s.keys, to)
    BY <1>1 DEF FirstHop
<1> HIDE DEF next
<1>4. layer \in Layer /\ layer.for = s.endpoint /\ layer.next = next
    BY <1>2 DEF Layer
<1> HIDE DEF layer
<1>5. /\ all \in Seq(Layer) /\ Len(all) = Len(packed) + 1 /\ all[1] = layer
      /\ \A i \in 2 .. Len(packed) + 1 : all[i] = packed[i - 1]
    BY <1>4, Prefixed
<1> HIDE DEF all
<1>6. all = ForEndpoint(packed, s, to)
    BY DEF all, layer, next, ForEndpoint
<1>7. ASSUME Chained(packed), packed[1].for = next PROVE Chained(all)
    <2>1. ASSUME NEW i \in 1 .. Len(all) - 1 PROVE all[i].next = all[i + 1].for
        <3>1. CASE i = 1
            <4>1. all[i + 1] = packed[1]
                BY <1>1, <1>5, <2>1, <3>1
            <4>2. QED BY <1>4, <1>5, <1>7, <3>1, <4>1
        <3>2. CASE i > 1
            <4>1. i - 1 \in 1 .. Len(packed) - 1
                BY <1>1, <1>5, <3>2
            <4>2. all[i] = packed[i - 1] /\ all[i + 1] = packed[(i - 1) + 1]
                BY <1>1, <1>5, <3>2
            <4>3. packed[i - 1].next = packed[(i - 1) + 1].for
                BY <1>7, <4>1 DEF Chained
            <4>4. QED BY <4>2, <4>3
        <3>3. QED BY <3>1, <3>2
    <2>2. QED BY <2>1 DEF Chained
<1>8. all # <<>>
    BY <1>1, <1>5
<1>9. QED BY <1>3, <1>4, <1>5, <1>6, <1>7, <1>8

------------------------------------------------------------------------------
(* What a step must see to                                                 *)

\* A step puts sound sends in the place of a call's, adds fitting deliveries and
\* takes no call for a success that no service accepted.
LEMMA Preserves ==
    ASSUME IInv, NEW c \in Calls, NEW s \in Seq(Frame), stack' = [stack EXCEPT ![c] = s],
           \A i \in 1 .. Len(s) : /\ FrameIsSound(s[i])
                                  /\ s[i].ok => Accepted(c)'
                                  /\ i # 1 => s[i].at = "inner",
           delivered \subseteq delivered',
           \A d \in delivered' : d \in delivered \/ (d \in Delivery /\ (d.clean => Fits(d))),
           outcome' \in [Calls -> {"none", "returned", "threw"}],
           announced' \in [Calls -> Nat], handled' \in [Calls -> Nat],
           \A o \in Calls : announced'[o] > 0 \/ outcome'[o] = "returned" =>
                \/ announced[o] > 0 \/ outcome[o] = "returned"
                \/ o = c /\ Accepted(c)'
    PROVE  IInv'
<1>1. \A o \in Calls : stack'[o] = IF o = c THEN s ELSE stack[o]
    BY DEF IInv
<1>2. stack' \in [Calls -> Seq(Frame)]
    BY DEF IInv
<1>3. TypeOK'
    <2>1. ASSUME NEW o \in Calls, NEW i \in DOMAIN stack'[o] PROVE stack'[o][i] \in Frame
        <3>1. stack'[o] \in Seq(Frame)
            BY <1>2
        <3>2. QED BY <2>1, <3>1
    <2>2. \A d \in delivered' : d \in Delivery
        BY DEF IInv, TypeOK
    <2>3. QED BY <2>1, <2>2 DEF TypeOK
<1>4. \A o \in Calls : Accepted(o) => Accepted(o)'
    BY DEF Accepted
<1>5. ASSUME NEW o \in Calls PROVE StackIsSound(o)'
    <2>1. CASE o = c
        BY <1>1, <2>1 DEF StackIsSound
    <2>2. CASE o # c
        <3>1. StackIsSound(o) /\ stack'[o] = stack[o]
            BY <1>1, <2>2 DEF IInv
        <3>2. QED BY <1>4, <3>1 DEF StackIsSound
    <2>3. QED BY <2>1, <2>2
<1>6. AnnouncedWasAccepted'
    <2>1. ASSUME NEW o \in Calls, announced'[o] > 0 \/ outcome'[o] = "returned" PROVE Accepted(o)'
        <3>1. CASE announced[o] > 0 \/ outcome[o] = "returned"
            BY <1>4, <3>1 DEF IInv, AnnouncedWasAccepted, Accepted
        <3>2. QED BY <2>1, <3>1
    <2>2. QED BY <2>1 DEF AnnouncedWasAccepted, Accepted
<1>7. EveryHopCanOpen'
    BY DEF IInv, EveryHopCanOpen, Fits
<1>8. QED BY <1>2, <1>3, <1>5, <1>6, <1>7 DEF IInv

\* What a step puts in the place of the innermost send of a call.
LEMMA ReplaceStep ==
    ASSUME IInv, NEW c \in Calls, stack[c] # <<>>,
           NEW f \in Frame, Becomes(c, f), FrameIsSound(f), f.ok => Accepted(c)',
           delivered \subseteq delivered',
           \A d \in delivered' : d \in delivered \/ (d \in Delivery /\ (d.clean => Fits(d))),
           UNCHANGED <<outcome, announced, handled>>
    PROVE  IInv'
<1>1. stack[c] \in Seq(Frame) /\ StackIsSound(c) /\ stack \in [Calls -> Seq(Frame)]
    BY DEF IInv
<1>2. PICK s \in Seq(Frame) :
        /\ stack' = [stack EXCEPT ![c] = s] /\ Len(s) = Len(stack[c]) /\ s[1] = f
        /\ \A i \in 2 .. Len(stack[c]) : s[i] = stack[c][i]
    <2>1. stack' = [stack EXCEPT ![c] = <<f>> \o Tail(stack[c])]
        BY <1>1 DEF Becomes
    <2>2. /\ <<f>> \o Tail(stack[c]) \in Seq(Frame) /\ Len(<<f>> \o Tail(stack[c])) = Len(stack[c])
          /\ (<<f>> \o Tail(stack[c]))[1] = f
          /\ \A i \in 2 .. Len(stack[c]) : (<<f>> \o Tail(stack[c]))[i] = stack[c][i]
        BY <1>1, Replaced
    <2> DEFINE r == <<f>> \o Tail(stack[c])
    <2> HIDE DEF r
    <2>3. /\ r \in Seq(Frame) /\ stack' = [stack EXCEPT ![c] = r] /\ Len(r) = Len(stack[c]) /\ r[1] = f
          /\ \A i \in 2 .. Len(stack[c]) : r[i] = stack[c][i]
        BY <2>1, <2>2 DEF r
    <2>4. QED BY <2>3
<1>3. Accepted(c) => Accepted(c)'
    BY DEF Accepted
<1>4. ASSUME NEW i \in 1 .. Len(s)
      PROVE  FrameIsSound(s[i]) /\ (s[i].ok => Accepted(c)') /\ (i # 1 => s[i].at = "inner")
    <2>1. CASE i = 1
        BY <1>2, <2>1
    <2>2. CASE i # 1
        <3>1. i \in 2 .. Len(stack[c]) /\ i \in 1 .. Len(stack[c])
            BY <1>1, <1>2, <2>2
        <3>2. s[i] = stack[c][i]
            BY <1>2, <3>1
        <3>3. FrameIsSound(stack[c][i]) /\ (stack[c][i].ok => Accepted(c)) /\ stack[c][i].at = "inner"
            BY <1>1, <2>2, <3>1 DEF StackIsSound
        <3>4. QED BY <1>3, <3>2, <3>3
    <2>3. QED BY <2>1, <2>2
<1>5. /\ outcome' \in [Calls -> {"none", "returned", "threw"}]
      /\ announced' \in [Calls -> Nat] /\ handled' \in [Calls -> Nat]
      /\ \A o \in Calls : announced'[o] > 0 \/ outcome'[o] = "returned" =>
                \/ announced[o] > 0 \/ outcome[o] = "returned"
                \/ o = c /\ Accepted(c)'
    BY DEF IInv, TypeOK
<1>6. stack' = [stack EXCEPT ![c] = s]
    BY <1>2
<1>7. QED BY <1>4, <1>5, <1>6, Preserves

\* The innermost send, which is sound.
LEMMA TopIsSound ==
    ASSUME IInv, NEW c \in Calls, stack[c] # <<>>
    PROVE  /\ Top(c) \in Frame /\ FrameIsSound(Top(c)) /\ (Top(c).ok => Accepted(c))
           /\ stack[c] \in Seq(Frame) /\ Len(stack[c]) \in Nat \ {0} /\ stack[c][1] = Top(c)
<1>1. stack[c] \in Seq(Frame) /\ Len(stack[c]) \in Nat \ {0} /\ 1 \in 1 .. Len(stack[c])
    BY DEF IInv
<1>2. stack[c][1] = Top(c)
    BY <1>1 DEF Top
<1>3. FrameIsSound(stack[c][1]) /\ (stack[c][1].ok => Accepted(c))
    BY <1>1 DEF IInv, StackIsSound
<1>4. QED BY <1>1, <1>2, <1>3 DEF FrameIsSound

\* A send ends as a success only when a service accepted the message.
LEMMA LeavesStep ==
    ASSUME IInv, NEW c \in Calls, stack[c] # <<>>, NEW how \in {"returned", "threw"}, NEW answer \in BOOLEAN,
           Leaves(c, how, answer), how = "returned" => Accepted(c), delivered' = delivered,
           announced' \in [Calls -> Nat], handled' \in [Calls -> Nat],
           \A o \in Calls : announced'[o] > 0 => announced[o] > 0 \/ (o = c /\ Accepted(c))
    PROVE  IInv'
<1>1. stack[c] \in Seq(Frame) /\ StackIsSound(c) /\ stack \in [Calls -> Seq(Frame)]
      /\ outcome \in [Calls -> {"none", "returned", "threw"}] /\ Len(stack[c]) \in Nat \ {0}
    BY DEF IInv, TypeOK
<1>2. Accepted(c)' <=> Accepted(c)
    BY DEF Accepted
<1>3. /\ delivered \subseteq delivered'
      /\ \A d \in delivered' : d \in delivered \/ (d \in Delivery /\ (d.clean => Fits(d)))
    OBVIOUS
<1>4. CASE Len(stack[c]) = 1
    <2>1. stack' = [stack EXCEPT ![c] = <<>>] /\ outcome' = [outcome EXCEPT ![c] = how]
        BY <1>4 DEF Leaves
    <2>2. PICK s \in Seq(Frame) : s = <<>> /\ stack' = [stack EXCEPT ![c] = s]
        <3>1. <<>> \in Seq(Frame)
            OBVIOUS
        <3>2. QED BY <2>1, <3>1, Zenon
    <2>3. \A i \in 1 .. Len(s) : FrameIsSound(s[i]) /\ (s[i].ok => Accepted(c)') /\ (i # 1 => s[i].at = "inner")
        BY <2>2
    <2>4. /\ outcome' \in [Calls -> {"none", "returned", "threw"}]
          /\ \A o \in Calls : announced'[o] > 0 \/ outcome'[o] = "returned" =>
                \/ announced[o] > 0 \/ outcome[o] = "returned"
                \/ o = c /\ Accepted(c)'
        BY <1>1, <1>2, <2>1
    <2>5. stack' = [stack EXCEPT ![c] = s]
        BY <2>2
    <2>6. QED BY <1>3, <2>3, <2>4, <2>5, Preserves
<1>5. CASE Len(stack[c]) # 1
    <2>1. Len(stack[c]) > 1 /\ 2 \in 1 .. Len(stack[c])
        <3>1. \A n \in Nat \ {0} : n # 1 => n > 1 /\ 2 \in 1 .. n
            OBVIOUS
        <3>2. QED BY <1>1, <1>5, <3>1
    <2>2. PICK g \in Frame : g = stack[c][2] /\ FrameIsSound(g) /\ (g.ok => Accepted(c)) /\ g.at = "inner"
        BY <1>1, <2>1 DEF StackIsSound, FrameIsSound
    <2>3. PICK f : f = Noted(g, how, answer)
        OBVIOUS
    <2>4. /\ f \in Frame /\ f.at = "transports" /\ f.packed = g.packed /\ f.left = g.left /\ f.to = g.to
          /\ f.clean = g.clean /\ (f.ok => Accepted(c))
        BY <2>2, <2>3 DEF Frame, Noted
    <2>5. FrameIsSound(f)
        BY <2>2, <2>4 DEF FrameIsSound, Leads
    <2>6. stack' = [stack EXCEPT ![c] = <<f>> \o SubSeq(stack[c], 3, Len(stack[c]))] /\ UNCHANGED outcome
        BY <1>1, <1>5, <2>2, <2>3 DEF Leaves
    <2>7. PICK s \in Seq(Frame) :
            /\ stack' = [stack EXCEPT ![c] = s] /\ Len(s) = Len(stack[c]) - 1 /\ s[1] = f
            /\ \A i \in 2 .. Len(s) : s[i] = stack[c][i + 1]
        <3>1. LET r == <<f>> \o SubSeq(stack[c], 3, Len(stack[c])) IN
              /\ r \in Seq(Frame) /\ Len(r) = Len(stack[c]) - 1 /\ r[1] = f
              /\ \A i \in 2 .. Len(r) : r[i] = stack[c][i + 1]
            BY <1>1, <2>1, <2>4, Popped
        <3> DEFINE r == <<f>> \o SubSeq(stack[c], 3, Len(stack[c]))
        <3>2. stack' = [stack EXCEPT ![c] = r] /\ r \in Seq(Frame) /\ Len(r) = Len(stack[c]) - 1 /\ r[1] = f
              /\ \A i \in 2 .. Len(r) : r[i] = stack[c][i + 1]
            BY <2>6, <3>1
        <3> HIDE DEF r
        <3>3. QED BY <3>2
    <2>8. ASSUME NEW i \in 1 .. Len(s)
          PROVE  FrameIsSound(s[i]) /\ (s[i].ok => Accepted(c)') /\ (i # 1 => s[i].at = "inner")
        <3>1. CASE i = 1
            BY <1>2, <2>4, <2>5, <2>7, <3>1
        <3>2. CASE i # 1
            <4>1. i \in 2 .. Len(s) /\ i + 1 \in 1 .. Len(stack[c]) /\ i + 1 # 1
                BY <1>1, <2>7, <3>2
            <4>2. s[i] = stack[c][i + 1]
                BY <2>7, <4>1
            <4>3. FrameIsSound(stack[c][i + 1]) /\ (stack[c][i + 1].ok => Accepted(c)) /\ stack[c][i + 1].at = "inner"
                BY <1>1, <4>1 DEF StackIsSound
            <4>4. QED BY <1>2, <4>2, <4>3
        <3>3. QED BY <3>1, <3>2
    <2>9. /\ outcome' \in [Calls -> {"none", "returned", "threw"}]
          /\ \A o \in Calls : announced'[o] > 0 \/ outcome'[o] = "returned" =>
                \/ announced[o] > 0 \/ outcome[o] = "returned"
                \/ o = c /\ Accepted(c)'
        BY <1>1, <1>2, <2>6
    <2>10. stack' = [stack EXCEPT ![c] = s]
        BY <2>7
    <2>11. QED BY <1>3, <2>8, <2>9, <2>10, Preserves
<1>6. QED BY <1>4, <1>5

------------------------------------------------------------------------------
(* The actions                                                             *)

LEMMA ServedIsService ==
    ASSUME NEW f \in Frame, f.left # <<>>
    PROVE  /\ Head(f.left) \in Service /\ Head(f.left).keys \in Seq(DIDs) /\ Tail(f.left) \in Seq(Service)
           /\ f.packed \in Seq(Layer) /\ f.to \in DIDs /\ f.left \in Seq(Service)
<1>1. f.left \in Seq(Service) /\ f.packed \in Seq(Layer) /\ f.to \in DIDs
    BY DEF Frame
<1>2. Head(f.left) \in Service /\ Tail(f.left) \in Seq(Service)
    BY <1>1
<1>3. QED BY <1>1, <1>2 DEF Service

LEMMA BeginStep ==
    ASSUME SendingAssumption, IInv, NEW c \in Calls, Begin(c)
    PROVE  IInv'
<1>1. /\ delivered \subseteq delivered'
      /\ \A d \in delivered' : d \in delivered \/ (d \in Delivery /\ (d.clean => Fits(d)))
      /\ announced' \in [Calls -> Nat] /\ handled' \in [Calls -> Nat]
      /\ outcome \in [Calls -> {"none", "returned", "threw"}] /\ UNCHANGED announced
    BY DEF Begin, IInv, TypeOK
<1>2. ASSUME NEW to \in Recipients, Services[to] # <<>>, UNCHANGED outcome,
             stack' = [stack EXCEPT ![c] = << Enter(to, << [for |-> to, next |-> to] >>, TRUE) >>]
      PROVE  IInv'
    <2>1. to \in DIDs /\ Services[to] \in Seq(Service)
        BY <1>2 DEF SendingAssumption
    <2>2. PICK packed \in Seq(Layer) : packed = << [for |-> to, next |-> to] >>
        <3>1. [for |-> to, next |-> to] \in Layer
            BY <2>1 DEF Layer
        <3>2. << [for |-> to, next |-> to] >> \in Seq(Layer)
            BY <3>1
        <3>3. QED BY <3>2, Zenon
    <2>3. packed # <<>> /\ Len(packed) = 1 /\ packed[1].for = to
        BY <2>2
    <2>4. PICK f : f = Enter(to, packed, TRUE)
        OBVIOUS
    <2>5. f \in Frame /\ FrameIsSound(f) /\ ~f.ok
        <3>1. f \in Frame /\ f.at = "service" /\ f.packed = packed /\ f.left = Services[to] /\ f.to = to /\ f.ok = FALSE
            BY <2>1, <2>4 DEF Enter, Frame
        <3>2. Leads(f)
            <4>1. Chained(packed)
                BY <2>3 DEF Chained
            <4>2. QED BY <2>3, <3>1, <4>1 DEF Leads
        <3>3. QED BY <1>2, <2>3, <3>1, <3>2 DEF FrameIsSound
    <2>6. PICK s \in Seq(Frame) : s = <<f>>
        <3>1. <<f>> \in Seq(Frame)
            BY <2>5
        <3>2. QED BY <3>1, Zenon
    <2>7. stack' = [stack EXCEPT ![c] = s]
        BY <1>2, <2>2, <2>4, <2>6
    <2>8. \A i \in 1 .. Len(s) : FrameIsSound(s[i]) /\ (s[i].ok => Accepted(c)') /\ (i # 1 => s[i].at = "inner")
        BY <2>5, <2>6
    <2>9. /\ outcome' \in [Calls -> {"none", "returned", "threw"}]
          /\ \A o \in Calls : announced'[o] > 0 \/ outcome'[o] = "returned" =>
                \/ announced[o] > 0 \/ outcome[o] = "returned"
                \/ o = c /\ Accepted(c)'
        BY <1>1, <1>2
    <2>10. QED BY <1>1, <2>7, <2>8, <2>9, Preserves
<1>3. ASSUME outcome' = [outcome EXCEPT ![c] = "threw"], UNCHANGED stack
      PROVE  IInv'
    <2>1. PICK s \in Seq(Frame) : s = stack[c]
        BY DEF IInv
    <2>2. stack' = [stack EXCEPT ![c] = s]
        BY <1>3, <2>1 DEF IInv
    <2>3. \A i \in 1 .. Len(s) : FrameIsSound(s[i]) /\ (s[i].ok => Accepted(c)') /\ (i # 1 => s[i].at = "inner")
        <3>1. StackIsSound(c) /\ (Accepted(c) => Accepted(c)')
            BY <1>1 DEF IInv, Accepted
        <3>2. QED BY <2>1, <3>1 DEF StackIsSound
    <2>4. /\ outcome' \in [Calls -> {"none", "returned", "threw"}]
          /\ \A o \in Calls : announced'[o] > 0 \/ outcome'[o] = "returned" =>
                \/ announced[o] > 0 \/ outcome[o] = "returned"
                \/ o = c /\ Accepted(c)'
        BY <1>1, <1>3
    <2>5. QED BY <1>1, <2>2, <2>3, <2>4, Preserves
<1>4. QED BY <1>2, <1>3 DEF Begin

LEMMA WrapStep ==
    ASSUME SendingAssumption, IInv, NEW c \in Calls, Wrap(c)
    PROVE  IInv'
<1>1. stack[c] # <<>> /\ Top(c).at = "service" /\ Top(c).left # <<>>
    BY DEF Wrap
<1>2. PICK f \in Frame : f = Top(c) /\ FrameIsSound(f) /\ (f.ok => Accepted(c))
    BY <1>1, TopIsSound
<1>3. PICK s \in Service : s = Head(f.left) /\ s.keys \in Seq(DIDs)
    BY <1>1, <1>2, ServedIsService
<1>4. PICK packed : packed = Wrapped(f.packed, s.keys, f.to)
    OBVIOUS
<1>5. PICK at : at = IF s.endpoint = Url THEN "transports" ELSE "inner"
    OBVIOUS
<1>6. PICK todo : todo = IF s.endpoint = Url THEN Transports ELSE <<>>
    OBVIOUS
<1>7. /\ packed \in Seq(Layer) /\ packed # <<>>
      /\ Chained(f.packed) /\ f.packed[1].for = f.to =>
            Chained(packed) /\ packed[1].for = FirstHop(s.keys, f.to)
    <2>1. f.packed \in Seq(Layer) /\ f.packed # <<>> /\ f.to \in DIDs
        BY <1>2 DEF FrameIsSound, Frame
    <2>2. QED BY <1>3, <1>4, <2>1, WrappedIsSound
<1>8. at \in {"inner", "transports"} /\ (at = "inner" => s.endpoint # Url)
      /\ todo \in Seq({Transports[i] : i \in DOMAIN Transports})
    BY <1>5, <1>6 DEF SendingAssumption
<1>9. PICK g : g = [f EXCEPT !.packed = packed, !.at = at, !.todo = todo]
    OBVIOUS
<1>10. /\ g \in Frame /\ g.at = at /\ g.packed = packed /\ g.left = f.left /\ g.to = f.to
       /\ g.clean = f.clean /\ g.ok = f.ok
    BY <1>7, <1>8, <1>9 DEF Frame
<1>11. Becomes(c, g)
    BY <1>2, <1>3, <1>4, <1>5, <1>6, <1>9 DEF Wrap, Becomes
<1>12. FrameIsSound(g)
    <2>1. ASSUME g.clean PROVE Leads(g)
        <3>1. Leads(f)
            BY <1>1, <1>2, <1>10, <2>1 DEF FrameIsSound
        <3>2. Chained(f.packed) /\ f.packed[1].for = f.to
            BY <1>1, <1>2, <3>1 DEF Leads
        <3>3. Chained(packed) /\ packed[1].for = FirstHop(s.keys, f.to)
            BY <1>7, <3>2
        <3>4. QED BY <1>3, <1>8, <1>10, <3>3 DEF Leads
    <2>2. QED BY <1>1, <1>2, <1>3, <1>7, <1>8, <1>10, <2>1 DEF FrameIsSound
<1>13. /\ delivered \subseteq delivered' /\ (g.ok => Accepted(c)')
       /\ \A d \in delivered' : d \in delivered \/ (d \in Delivery /\ (d.clean => Fits(d)))
       /\ UNCHANGED <<outcome, announced, handled>>
    BY <1>2, <1>10 DEF Wrap, Accepted
<1>14. QED BY <1>1, <1>10, <1>11, <1>12, <1>13, ReplaceStep

LEMMA WrapFailsStep ==
    ASSUME IInv, NEW c \in Calls, WrapFails(c)
    PROVE  IInv'
<1>1. stack[c] # <<>> /\ UNCHANGED <<delivered, announced, handled>>
    BY DEF WrapFails
<1>2. PICK how \in {"returned", "threw"}, answer \in BOOLEAN : how = "threw" /\ Leaves(c, how, answer)
    BY DEF WrapFails, Throws
<1>3. /\ announced' \in [Calls -> Nat] /\ handled' \in [Calls -> Nat]
      /\ \A o \in Calls : announced'[o] > 0 => announced[o] > 0 \/ (o = c /\ Accepted(c))
    BY <1>1 DEF IInv, TypeOK
<1>4. QED BY <1>1, <1>2, <1>3, LeavesStep

LEMMA SendToEndpointStep ==
    ASSUME SendingAssumption, IInv, NEW c \in Calls, SendToEndpoint(c)
    PROVE  IInv'
<1>1. stack[c] # <<>> /\ Top(c).at = "inner"
    BY DEF SendToEndpoint
<1>2. PICK f \in Frame : f = Top(c) /\ FrameIsSound(f) /\ (f.ok => Accepted(c)) /\ f.at = "inner"
    BY <1>1, TopIsSound
<1>3. f.left # <<>> /\ f.packed # <<>> /\ (f.clean => Leads(f))
    BY <1>2 DEF FrameIsSound
<1>4. PICK s \in Service : s = Head(f.left) /\ s.keys \in Seq(DIDs) /\ f.packed \in Seq(Layer) /\ f.to \in DIDs
    BY <1>3, ServedIsService
<1>5. /\ delivered \subseteq delivered'
      /\ \A d \in delivered' : d \in delivered \/ (d \in Delivery /\ (d.clean => Fits(d)))
      /\ Accepted(c) => Accepted(c)'
      /\ UNCHANGED <<outcome, announced, handled>>
    BY DEF SendToEndpoint, Accepted
<1>6. ASSUME Services[s.endpoint] # <<>>,
             stack' = [stack EXCEPT ![c] = << Enter(s.endpoint, ForEndpoint(f.packed, s, f.to),
                                                    f.clean /\ Len(s.keys) <= 1) >> \o @],
             s.endpoint \in DIDs
      PROVE  IInv'
    <2>1. Services[s.endpoint] \in Seq(Service)
        BY <1>6 DEF SendingAssumption
    <2>2. PICK packed \in Seq(Layer) :
            /\ packed = ForEndpoint(f.packed, s, f.to) /\ packed # <<>>
            /\ Chained(f.packed) /\ Len(s.keys) <= 1 /\ f.packed[1].for = FirstHop(s.keys, f.to) =>
                    Chained(packed) /\ packed[1].for = s.endpoint
        BY <1>3, <1>4, <1>6, ForEndpointIsSound
    <2>3. PICK clean \in BOOLEAN : clean = (f.clean /\ Len(s.keys) <= 1)
        OBVIOUS
    <2>4. PICK g : g = Enter(s.endpoint, packed, clean)
        OBVIOUS
    <2>5. /\ g \in Frame /\ g.at = "service" /\ g.packed = packed /\ g.left = Services[s.endpoint]
          /\ g.to = s.endpoint /\ g.ok = FALSE /\ g.clean = clean
        BY <1>6, <2>1, <2>4 DEF Enter, Frame
    <2>6. FrameIsSound(g)
        <3>1. ASSUME clean PROVE Leads(g)
            <4>1. Chained(f.packed) /\ f.packed[1].for = FirstHop(s.keys, f.to) /\ Len(s.keys) <= 1
                BY <1>2, <1>3, <1>4, <2>3, <3>1 DEF Leads
            <4>2. Chained(packed) /\ packed[1].for = s.endpoint
                BY <2>2, <4>1
            <4>3. QED BY <2>5, <4>2 DEF Leads
        <3>2. QED BY <1>6, <2>2, <2>5, <3>1 DEF FrameIsSound
    <2>7. stack[c] \in Seq(Frame) /\ Len(stack[c]) \in Nat /\ StackIsSound(c)
        BY DEF IInv
    <2>8. PICK r \in Seq(Frame) :
            /\ stack' = [stack EXCEPT ![c] = r] /\ Len(r) = Len(stack[c]) + 1 /\ r[1] = g
            /\ \A i \in 2 .. Len(stack[c]) + 1 : r[i] = stack[c][i - 1]
        <3> DEFINE t == <<g>> \o stack[c]
        <3>1. /\ t \in Seq(Frame) /\ Len(t) = Len(stack[c]) + 1 /\ t[1] = g
              /\ \A i \in 2 .. Len(stack[c]) + 1 : t[i] = stack[c][i - 1]
            BY <2>5, <2>7, Prefixed
        <3>2. stack' = [stack EXCEPT ![c] = t]
            BY <1>6, <2>2, <2>3, <2>4 DEF IInv
        <3> HIDE DEF t
        <3>3. QED BY <3>1, <3>2
    <2>9. ASSUME NEW i \in 1 .. Len(r)
          PROVE  FrameIsSound(r[i]) /\ (r[i].ok => Accepted(c)') /\ (i # 1 => r[i].at = "inner")
        <3>1. CASE i = 1
            BY <2>5, <2>6, <2>8, <3>1
        <3>2. CASE i # 1
            <4>1. i \in 2 .. Len(stack[c]) + 1 /\ i - 1 \in 1 .. Len(stack[c])
                BY <2>7, <2>8, <3>2
            <4>2. r[i] = stack[c][i - 1]
                BY <2>8, <4>1
            <4>3. /\ FrameIsSound(stack[c][i - 1]) /\ (stack[c][i - 1].ok => Accepted(c))
                  /\ i - 1 # 1 => stack[c][i - 1].at = "inner"
                BY <2>7, <4>1 DEF StackIsSound
            <4>4. stack[c][1].at = "inner"
                BY <1>1, TopIsSound
            <4>5. stack[c][i - 1].at = "inner"
                BY <4>3, <4>4
            <4>6. QED BY <1>5, <3>2, <4>2, <4>3, <4>5
        <3>3. QED BY <3>1, <3>2
    <2>10. /\ outcome' \in [Calls -> {"none", "returned", "threw"}]
           /\ announced' \in [Calls -> Nat] /\ handled' \in [Calls -> Nat]
           /\ \A o \in Calls : announced'[o] > 0 \/ outcome'[o] = "returned" =>
                \/ announced[o] > 0 \/ outcome[o] = "returned"
                \/ o = c /\ Accepted(c)'
        BY <1>5 DEF IInv, TypeOK
    <2>11. stack' = [stack EXCEPT ![c] = r]
        BY <2>8
    <2>12. QED BY <1>5, <2>9, <2>10, <2>11, Preserves
<1>7. ASSUME Becomes(c, [f EXCEPT !.at = "transports"])
      PROVE  IInv'
    <2>1. PICK g : g = [f EXCEPT !.at = "transports"]
        OBVIOUS
    <2>2. /\ g \in Frame /\ g.at = "transports" /\ g.packed = f.packed /\ g.left = f.left /\ g.to = f.to
          /\ g.clean = f.clean /\ g.ok = f.ok
        BY <2>1 DEF Frame
    <2>3. FrameIsSound(g)
        BY <1>2, <1>3, <2>2 DEF FrameIsSound, Leads
    <2>4. Becomes(c, g) /\ (g.ok => Accepted(c)')
        BY <1>2, <1>5, <1>7, <2>1, <2>2
    <2>5. QED BY <1>1, <1>5, <2>2, <2>3, <2>4, ReplaceStep
<1>8. s.endpoint \in DIDs
    BY <1>2, <1>4 DEF FrameIsSound, Service
<1>9. QED BY <1>2, <1>4, <1>6, <1>7, <1>8 DEF SendToEndpoint

LEMMA TransmitStep ==
    ASSUME SendingAssumption, IInv, NEW c \in Calls, Transmit(c)
    PROVE  IInv'
<1>1. stack[c] # <<>> /\ Top(c).at = "transports" /\ Top(c).todo # <<>>
    BY DEF Transmit
<1>2. PICK f \in Frame : f = Top(c) /\ FrameIsSound(f) /\ (f.ok => Accepted(c)) /\ f.at = "transports"
    BY <1>1, TopIsSound
<1>3. f.left # <<>> /\ f.packed # <<>> /\ (f.clean => Leads(f)) /\ f.todo # <<>>
    BY <1>1, <1>2 DEF FrameIsSound
<1>4. PICK s \in Service : s = Head(f.left) /\ s.keys \in Seq(DIDs) /\ f.packed \in Seq(Layer) /\ f.to \in DIDs
    BY <1>3, ServedIsService
<1>5. PICK p \in Posts :
        /\ delivered' = IF p.reached
                        THEN delivered \cup {[call |-> c, to |-> f.to, service |-> s,
                                 packed |-> f.packed, clean |-> f.clean, accepted |-> p.response]}
                        ELSE delivered
        /\ Becomes(c, [f EXCEPT !.todo = Tail(@), !.ok = @ \/ p.response, !.answer = @ \/ p.answer])
    BY <1>2, <1>4 DEF Transmit
<1>6. p.reached \in BOOLEAN /\ p.response \in BOOLEAN /\ p.answer \in BOOLEAN /\ (p.response => p.reached)
    BY DEF Posts
<1>7. PICK d : d = [call |-> c, to |-> f.to, service |-> s, packed |-> f.packed, clean |-> f.clean,
                    accepted |-> p.response]
    OBVIOUS
<1>8. /\ d \in Delivery /\ d.call = c /\ d.to = f.to /\ d.service = s /\ d.packed = f.packed
      /\ d.clean = f.clean /\ d.accepted = p.response
    <2>1. f.clean \in BOOLEAN
        BY DEF Frame
    <2>2. QED BY <1>4, <1>6, <1>7, <2>1 DEF Delivery
<1>9. d.clean => Fits(d)
    <2>1. ASSUME f.clean PROVE Fits(d)
        <3>1. Chained(f.packed) /\ f.packed[1].for = FirstHop(s.keys, f.to)
            BY <1>2, <1>3, <1>4, <2>1 DEF Leads
        <3>2. Head(s.keys \o <<f.to>>) = FirstHop(s.keys, f.to)
            BY <1>4, FirstHopOf
        <3>3. QED BY <1>8, <3>1, <3>2 DEF Fits, Chained
    <2>2. QED BY <1>8, <2>1
<1>10. /\ delivered \subseteq delivered'
       /\ \A e \in delivered' : e \in delivered \/ (e \in Delivery /\ (e.clean => Fits(e)))
       /\ p.response => d \in delivered'
    <2>1. delivered' \subseteq delivered \cup {d} /\ delivered \subseteq delivered'
        BY <1>5, <1>7
    <2>2. p.response => d \in delivered'
        BY <1>5, <1>6, <1>7
    <2>3. QED BY <1>8, <1>9, <2>1, <2>2
<1>11. PICK todo : todo = Tail(f.todo)
    OBVIOUS
<1>12. todo \in Seq({Transports[i] : i \in DOMAIN Transports})
    BY <1>3, <1>11 DEF Frame
<1>13. PICK g : g = [f EXCEPT !.todo = todo, !.ok = @ \/ p.response, !.answer = @ \/ p.answer]
    OBVIOUS
<1>14. /\ g \in Frame /\ g.at = f.at /\ g.packed = f.packed /\ g.left = f.left /\ g.to = f.to
       /\ g.clean = f.clean /\ (g.ok => f.ok \/ p.response)
    BY <1>6, <1>12, <1>13 DEF Frame
<1>15. FrameIsSound(g)
    BY <1>2, <1>14 DEF FrameIsSound, Leads
<1>16. g.ok => Accepted(c)'
    <2>1. ASSUME f.ok PROVE Accepted(c)'
        BY <1>2, <1>10, <2>1 DEF Accepted
    <2>2. ASSUME p.response PROVE Accepted(c)'
        BY <1>8, <1>10, <2>2 DEF Accepted
    <2>3. QED BY <1>14, <2>1, <2>2
<1>17. Becomes(c, g) /\ UNCHANGED <<outcome, announced, handled>>
    BY <1>5, <1>11, <1>13 DEF Transmit
<1>18. QED BY <1>1, <1>10, <1>14, <1>15, <1>16, <1>17, ReplaceStep

LEMMA NextServiceStep ==
    ASSUME IInv, NEW c \in Calls, NextService(c)
    PROVE  IInv'
<1>1. stack[c] # <<>> /\ Top(c).at = "transports"
    BY DEF NextService
<1>2. PICK f \in Frame : f = Top(c) /\ FrameIsSound(f) /\ (f.ok => Accepted(c)) /\ f.at = "transports"
    BY <1>1, TopIsSound
<1>3. f.left # <<>> /\ f.packed # <<>> /\ (f.clean => Leads(f))
    BY <1>2 DEF FrameIsSound
<1>4. PICK s \in Service : s = Head(f.left) /\ s.keys \in Seq(DIDs)
    BY <1>3, ServedIsService
<1>5. PICK left \in Seq(Service) : left = Tail(f.left)
    BY <1>3, ServedIsService
<1>6. PICK at : at = IF left = <<>> THEN "end" ELSE "service"
    OBVIOUS
<1>7. PICK g : g = [f EXCEPT !.left = left, !.at = at, !.clean = @ /\ s.keys = <<>>]
    OBVIOUS
<1>8. /\ g \in Frame /\ g.at = at /\ g.packed = f.packed /\ g.left = left /\ g.to = f.to
      /\ (g.clean => f.clean /\ s.keys = <<>>) /\ g.ok = f.ok
    BY <1>5, <1>6, <1>7 DEF Frame
<1>9. FrameIsSound(g)
    <2>1. ASSUME g.clean PROVE Leads(g)
        <3>1. Chained(f.packed) /\ f.packed[1].for = FirstHop(s.keys, f.to) /\ s.keys = <<>>
            BY <1>2, <1>3, <1>4, <1>8, <2>1 DEF Leads
        <3>2. QED BY <1>6, <1>8, <3>1 DEF Leads, FirstHop
    <2>2. QED BY <1>3, <1>6, <1>8, <2>1 DEF FrameIsSound
<1>10. Becomes(c, g)
    BY <1>2, <1>4, <1>5, <1>6, <1>7 DEF NextService, Becomes
<1>11. /\ delivered \subseteq delivered' /\ (g.ok => Accepted(c)')
       /\ \A d \in delivered' : d \in delivered \/ (d \in Delivery /\ (d.clean => Fits(d)))
       /\ UNCHANGED <<outcome, announced, handled>>
    BY <1>2, <1>8 DEF NextService, Accepted
<1>12. QED BY <1>1, <1>8, <1>9, <1>10, <1>11, ReplaceStep

LEMMA FinishStep ==
    ASSUME IInv, NEW c \in Calls, Finish(c)
    PROVE  IInv'
<1>1. stack[c] # <<>> /\ delivered' = delivered
    BY DEF Finish
<1>2. PICK f \in Frame : f = Top(c) /\ (f.ok => Accepted(c))
    BY <1>1, TopIsSound
<1>3. f.answer \in BOOLEAN
    BY DEF Frame
<1>4. announced \in [Calls -> Nat] /\ handled \in [Calls -> Nat]
    BY DEF IInv, TypeOK
<1>5. announced' \in [Calls -> Nat] /\ handled' \in [Calls -> Nat]
    BY <1>4 DEF Finish
<1>6. \A o \in Calls : announced'[o] > 0 => announced[o] > 0 \/ (o = c /\ Accepted(c))
    BY <1>2, <1>4 DEF Finish
<1>7. PICK how \in {"returned", "threw"}, answer \in BOOLEAN :
        Leaves(c, how, answer) /\ (how = "returned" => Accepted(c))
    BY <1>2, <1>3 DEF Finish, Throws
<1>8. QED BY <1>1, <1>5, <1>6, <1>7, LeavesStep

LEMMA IInvInit ==
    ASSUME Init
    PROVE  IInv
<1>1. stack \in [Calls -> Seq(Frame)] /\ \A c \in Calls : stack[c] = <<>> /\ Len(stack[c]) = 0
    BY DEF Init
<1>2. TypeOK
    BY <1>1 DEF Init, TypeOK
<1>3. \A c \in Calls : StackIsSound(c)
    BY <1>1 DEF StackIsSound
<1>4. AnnouncedWasAccepted /\ EveryHopCanOpen
    BY DEF Init, AnnouncedWasAccepted, EveryHopCanOpen
<1>5. QED BY <1>1, <1>2, <1>3, <1>4 DEF IInv

LEMMA IInvStep ==
    ASSUME SendingAssumption, IInv, [Next]_vars
    PROVE  IInv'
<1>1. ASSUME NEW c \in Calls, Begin(c) PROVE IInv'
    BY <1>1, BeginStep
<1>2. ASSUME NEW c \in Calls, Wrap(c) PROVE IInv'
    BY <1>2, WrapStep
<1>3. ASSUME NEW c \in Calls, WrapFails(c) PROVE IInv'
    BY <1>3, WrapFailsStep
<1>4. ASSUME NEW c \in Calls, SendToEndpoint(c) PROVE IInv'
    BY <1>4, SendToEndpointStep
<1>5. ASSUME NEW c \in Calls, Transmit(c) PROVE IInv'
    BY <1>5, TransmitStep
<1>6. ASSUME NEW c \in Calls, NextService(c) PROVE IInv'
    BY <1>6, NextServiceStep
<1>7. ASSUME NEW c \in Calls, Finish(c) PROVE IInv'
    BY <1>7, FinishStep
<1>8. CASE UNCHANGED vars
    BY <1>8 DEF vars, IInv, TypeOK, StackIsSound, Accepted, AnnouncedWasAccepted, EveryHopCanOpen, Fits
<1>9. QED BY <1>1, <1>2, <1>3, <1>4, <1>5, <1>6, <1>7, <1>8 DEF Next, Step

LEMMA Inductive ==
    ASSUME SendingAssumption
    PROVE  Spec => []IInv
<1>1. Init => IInv
    BY IInvInit
<1>2. IInv /\ [Next]_vars => IInv'
    BY IInvStep
<1>3. QED BY <1>1, <1>2, PTL DEF Spec

------------------------------------------------------------------------------
(* What holds of every document                                            *)

\* The state stays of its type: a send made for another is always of a DID that
\* a service names, and takes its place when it ends.
THEOREM TypeCorrect ==
    ASSUME SendingAssumption
    PROVE  Spec => []TypeOK
<1>1. IInv => TypeOK
    BY DEF IInv
<1>2. QED BY <1>1, Inductive, PTL

\* However many mediators there are, and also when their endpoints lead back to
\* one another, each can open its envelope and knows the next, and a send is
\* announced or returned only when a service accepted the message.
THEOREM SentSoundly ==
    ASSUME SendingAssumption
    PROVE  Spec => []SendingIsSound
<1>1. IInv => SendingIsSound
    BY DEF IInv, SendingIsSound
<1>2. QED BY <1>1, Inductive, PTL

------------------------------------------------------------------------------
(* DIDs that are made from keys (DidMethods)                               *)

\* What each provider makes: its DID, and the identifier that is created for it.
MadeByKey(i) ==
  \E k \in Dm!Key : /\ i.did = [method |-> "key", key |-> k] /\ i.keys = <<k>>
                    /\ k.type # "Secp256r1"
MadeByJwk(i) ==
  \E k \in Dm!Key, use \in {"sig", "enc"} :
    /\ i.did = [method |-> "jwk", key |-> k, use |-> use] /\ i.keys = <<k>>
    /\ ~(k.type = "X25519" /\ use = "sig") /\ ~(k.type = "Ed25519" /\ use = "enc")
MadeByPeer(i) ==
  \E k, l \in Dm!Key : \E service :
    /\ i.services = {service} \ {Dm!NoService} /\ k.type = "Ed25519" /\ l.type = "X25519"
    /\ (i.keys = <<k>> /\ service = Dm!NoService) \/ i.keys = <<k, l>>
    /\ i.did = [method |-> "peer", keys |-> i.keys, service |-> service]
MadeByPkh(i) ==
  \E k \in Dm!Key : /\ i.did = [method |-> "pkh", key |-> k] /\ i.keys = <<k>>
                    /\ k.type = "Secp256k1"
MadeByWeb(i) ==
  /\ \E alias : i.did = [method |-> "web", alias |-> alias]
  /\ i.keys \in Seq(Dm!Key)

IsMade(i) ==
  /\ DOMAIN i = {"did", "keys", "services"}
  /\ MadeByKey(i) \/ MadeByJwk(i) \/ MadeByPeer(i) \/ MadeByPkh(i) \/ MadeByWeb(i)

\* The keys of a creation are of the types that it asks for, in their order.
Making ==
  making # Dm!Idle =>
    LET o == making.asked
    IN /\ making \in [asked : Requests, keys : Seq(Dm!Key)]
       /\ o.method = "peer" => Dm!Algo(o) \in {0, 2}
       /\ Len(making.keys) <= Len(Dm!KeysFor(o))
       /\ \A n \in DOMAIN making.keys : making.keys[n].type = Dm!KeysFor(o)[n]

MadeInv ==
  /\ madeKeys \subseteq Dm!Key
  /\ begun \in 0 .. MaxCreations /\ count \in 0 .. MaxMade /\ didFaults \in 0 .. MaxDidFaults
  /\ Making
  /\ \A i \in created : IsMade(i)
  /\ \A i, j \in created : i.did = j.did => i = j

LEMMA MadeInit ==
  ASSUME Dm!DidMethodsAssumption, Dm!Init
  PROVE  MadeInv
BY DEF Dm!DidMethodsAssumption, Dm!Init, MadeInv, Making

LEMMA KeysForEach ==
  ASSUME Dm!DidMethodsAssumption, NEW o \in Requests
  PROVE  /\ o.method = "key" => Dm!KeysFor(o) = <<Dm!KeyMethodType(o.type)>>
         /\ o.method = "pkh" => Dm!KeysFor(o) = <<"Secp256k1">>
         /\ o.method \in {"jwk", "web"} => Dm!KeysFor(o) = <<o.type>>
         /\ o.method = "peer" /\ Dm!Algo(o) = 2 => Dm!KeysFor(o) = <<"Ed25519", "X25519">>
         /\ o.method = "peer" /\ Dm!Algo(o) # 2 => Dm!KeysFor(o) = <<"Ed25519">>
<1>1. o.method \in {"key", "jwk", "peer", "pkh", "web"}
  BY DEF Dm!DidMethodsAssumption
<1>2. CASE o.method = "key"
  BY <1>2 DEF Dm!KeysFor
<1>3. CASE o.method = "pkh"
  BY <1>3 DEF Dm!KeysFor
<1>4. CASE o.method = "peer"
  BY <1>4 DEF Dm!KeysFor
<1>5. CASE o.method \in {"jwk", "web"}
  BY <1>5 DEF Dm!KeysFor
<1>6. QED BY <1>1, <1>2, <1>3, <1>4, <1>5

LEMMA KeyTypesFor ==
  ASSUME Dm!DidMethodsAssumption, NEW o \in Requests
  PROVE  /\ Dm!KeysFor(o) \in Seq(Dm!KeyTypes) /\ Len(Dm!KeysFor(o)) \in {1, 2}
<1>1. Dm!KeyMethodType(o.type) \in Dm!KeyTypes \/ o.method # "key"
  BY DEF Dm!DidMethodsAssumption, Dm!KeyMethodType, Dm!KeyTypes
<1>2. "Ed25519" \in Dm!KeyTypes /\ "X25519" \in Dm!KeyTypes /\ "Secp256k1" \in Dm!KeyTypes
  BY DEF Dm!KeyTypes
<1>3. o.method \in {"key", "jwk", "peer", "pkh", "web"} /\ (o.method \in {"jwk", "web"} => o.type \in Dm!KeyTypes)
  BY DEF Dm!DidMethodsAssumption
<1>4. \A s, t \in Dm!KeyTypes : /\ <<s>> \in Seq(Dm!KeyTypes) /\ Len(<<s>>) = 1
                               /\ <<s, t>> \in Seq(Dm!KeyTypes) /\ Len(<<s, t>>) = 2
  OBVIOUS
<1>5. \E s, t \in Dm!KeyTypes : Dm!KeysFor(o) = <<s>> \/ Dm!KeysFor(o) = <<s, t>>
  <2>1. CASE o.method = "peer"
    BY <1>2, <2>1, KeysForEach
  <2>2. CASE o.method # "peer"
    BY <1>1, <1>2, <1>3, <2>2, KeysForEach
  <2>3. QED BY <2>1, <2>2
<1>6. QED BY <1>4, <1>5

\* What leaves the identifiers as they are.
LEMMA ListedStay ==
  ASSUME MadeInv, created' \subseteq created
  PROVE  (\A i \in created' : IsMade(i)') /\ (\A i, j \in created' : i.did = j.did => i = j)
BY DEF MadeInv, IsMade, MadeByKey, MadeByJwk, MadeByPeer, MadeByPkh, MadeByWeb, Dm!Key, Dm!NoService

LEMMA MadeBegin ==
  ASSUME Dm!DidMethodsAssumption, MadeInv, NEW o \in Requests, Dm!BeginCreate(o)
  PROVE  MadeInv'
<1>1. making' = [asked |-> o, keys |-> <<>>] /\ created' = created
  BY DEF Dm!BeginCreate
<1>2. Making'
  <2>1. making' \in [asked : Requests, keys : Seq(Dm!Key)]
    BY <1>1
  <2>2. o.method = "peer" => Dm!Algo(o) \in {0, 2}
    BY DEF Dm!BeginCreate, Dm!RefusedAtOnce
  <2>3. Len(<<>>) <= Len(Dm!KeysFor(o))
    BY KeyTypesFor
  <2>4. making'.asked = o /\ making'.keys = <<>>
    BY <1>1
  <2>5. QED BY <2>1, <2>2, <2>3, <2>4 DEF Making
<1>3. QED BY <1>1, <1>2, ListedStay DEF MadeInv, Dm!BeginCreate, Dm!DidMethodsAssumption

LEMMA MadeKey ==
  ASSUME Dm!DidMethodsAssumption, MadeInv, Dm!MakeKey
  PROVE  MadeInv'
<1> DEFINE o == making.asked
           n == Len(making.keys) + 1
           type == Dm!KeysFor(o)[n]
           k == Dm!ImportOrGenerateKey(o, type)
<1>1. /\ making # Dm!Idle /\ Len(making.keys) < Len(Dm!KeysFor(o))
      /\ o.given \/ count < MaxMade
      /\ madeKeys' = madeKeys \union {k} /\ making' = [making EXCEPT !.keys = Append(@, k)]
      /\ count' = IF o.given THEN count ELSE count + 1
      /\ created' = created /\ begun' = begun /\ didFaults' = didFaults
  BY DEF Dm!MakeKey
<1>2. /\ o \in Requests /\ making.keys \in Seq(Dm!Key) /\ making \in [asked : Requests, keys : Seq(Dm!Key)]
      /\ o.method = "peer" => Dm!Algo(o) \in {0, 2}
      /\ \A m \in DOMAIN making.keys : making.keys[m].type = Dm!KeysFor(o)[m]
  BY <1>1 DEF MadeInv, Making
<1>3. n \in 1 .. Len(Dm!KeysFor(o)) /\ type \in Dm!KeyTypes
  <2>1. Dm!KeysFor(o) \in Seq(Dm!KeyTypes)
    BY <1>2, KeyTypesFor
  <2>2. QED BY <1>1, <1>2, <2>1
<1>4. count' \in 0 .. MaxMade
  BY <1>1 DEF MadeInv, Dm!DidMethodsAssumption
<1>5. k \in Dm!Key /\ k.type = type
  <2>1. (IF o.given THEN 0 ELSE count + 1) \in 0 .. MaxMade
    BY <1>1 DEF MadeInv, Dm!DidMethodsAssumption
  <2>2. QED BY <1>3, <2>1 DEF Dm!ImportOrGenerateKey, Dm!Key
<1> HIDE DEF k, type
<1>6. Making'
  <2>1. Append(making.keys, k) \in Seq(Dm!Key) /\ Len(Append(making.keys, k)) = n
    BY <1>2, <1>5
  <2>2. /\ making' \in [asked : Requests, keys : Seq(Dm!Key)]
        /\ making'.asked = o /\ making'.keys = Append(making.keys, k)
    BY <1>1, <1>2, <2>1
  <2>3. ASSUME NEW m \in DOMAIN Append(making.keys, k)
        PROVE  Append(making.keys, k)[m].type = Dm!KeysFor(o)[m]
    BY <1>2, <1>5 DEF type
  <2>4. n <= Len(Dm!KeysFor(o))
    BY <1>3
  <2> HIDE DEF n, o
  <2>5. QED BY <1>2, <2>1, <2>2, <2>3, <2>4 DEF Making
<1>7. QED BY <1>1, <1>4, <1>5, <1>6, ListedStay DEF MadeInv

\* A sequence of one key or of two
LEMMA OneOrTwo ==
  ASSUME NEW s \in Seq(Dm!Key)
  PROVE  /\ Len(s) = 1 => s[1] \in Dm!Key /\ s = <<s[1]>>
         /\ Len(s) = 2 => s[1] \in Dm!Key /\ s[2] \in Dm!Key /\ s = <<s[1], s[2]>>
OBVIOUS

LEMMA FinishedIsMade ==
  ASSUME Dm!DidMethodsAssumption, NEW o \in Requests, NEW keys \in Seq(Dm!Key), Len(keys) = Len(Dm!KeysFor(o)),
         \A n \in DOMAIN keys : keys[n].type = Dm!KeysFor(o)[n],
         o.method = "peer" => Dm!Algo(o) \in {0, 2}, ~Dm!RefusedLate(o),
         NEW i, i = [did |-> Dm!DidOf(o, keys), keys |-> keys,
                     services |-> IF o.method = "peer" THEN {o.service} \ {Dm!NoService} ELSE {}]
  PROVE  IsMade(i)
<1>1. /\ DOMAIN i = {"did", "keys", "services"} /\ i.did = Dm!DidOf(o, keys) /\ i.keys = keys
      /\ o.method = "peer" => i.services = {o.service} \ {Dm!NoService}
  OBVIOUS
<1>2. o.method \in {"key", "jwk", "peer", "pkh", "web"}
  BY DEF Dm!DidMethodsAssumption
<1>3. CASE o.method = "key"
  <2>1. Len(keys) = 1 /\ keys[1].type = Dm!KeyMethodType(o.type)
    BY <1>3, KeysForEach
  <2>2. keys[1].type # "Secp256r1"
    BY <2>1 DEF Dm!KeyMethodType
  <2>3. Dm!DidOf(o, keys) = [method |-> "key", key |-> keys[1]]
    BY <1>3 DEF Dm!DidOf, Dm!KeyDid
  <2>4. QED BY <1>1, <2>1, <2>2, <2>3, OneOrTwo DEF IsMade, MadeByKey
<1>4. CASE o.method = "jwk"
  <2>1. Len(keys) = 1 /\ keys[1].type = o.type
    BY <1>4, KeysForEach
  <2>2. o.use \in {"unset", "sig", "enc"}
    BY <1>4 DEF Dm!DidMethodsAssumption
  <2>3. /\ Dm!KeyUse(o) \in {"sig", "enc"}
        /\ ~(o.type = "X25519" /\ Dm!KeyUse(o) = "sig") /\ ~(o.type = "Ed25519" /\ Dm!KeyUse(o) = "enc")
    BY <1>4, <2>2 DEF Dm!RefusedLate, Dm!KeyUse
  <2>4. Dm!DidOf(o, keys) = [method |-> "jwk", key |-> keys[1], use |-> Dm!KeyUse(o)]
    BY <1>4 DEF Dm!DidOf, Dm!JwkDid
  <2>5. QED BY <1>1, <2>1, <2>3, <2>4, OneOrTwo, ZenonT(40) DEF IsMade, MadeByJwk
<1>5. CASE o.method = "peer"
  <2>1. Dm!DidOf(o, keys) = [method |-> "peer", keys |-> keys, service |-> o.service]
    BY <1>5 DEF Dm!DidOf, Dm!PeerDid
  <2>2. CASE Dm!Algo(o) = 2
    <3>1. Len(keys) = 2 /\ keys[1].type = "Ed25519" /\ keys[2].type = "X25519"
      BY <1>5, <2>2, KeysForEach, SMTT(40)
    <3>2. keys[1] \in Dm!Key /\ keys[2] \in Dm!Key /\ i.keys = <<keys[1], keys[2]>>
      BY <1>1, <3>1, OneOrTwo
    <3>3. i.did = [method |-> "peer", keys |-> i.keys, service |-> o.service]
      BY <1>1, <2>1
    <3>4. MadeByPeer(i)
      BY <1>1, <1>5, <3>1, <3>2, <3>3 DEF MadeByPeer
    <3>5. QED BY <1>1, <3>4 DEF IsMade
  <2>3. CASE Dm!Algo(o) # 2
    <3>1. Len(keys) = 1 /\ keys[1].type = "Ed25519" /\ o.service = Dm!NoService
      BY <1>5, <2>3, KeysForEach DEF Dm!Algo
    <3>2. PICK l : l \in Dm!Key /\ l.type = "X25519"
      <4>1. [id |-> 0, type |-> "X25519"] \in Dm!Key
        BY DEF Dm!Key, Dm!KeyTypes, Dm!DidMethodsAssumption
      <4>2. QED BY <4>1
    <3>3. keys[1] \in Dm!Key /\ i.keys = <<keys[1]>>
      BY <1>1, <3>1, OneOrTwo
    <3>4. i.did = [method |-> "peer", keys |-> i.keys, service |-> o.service]
      BY <1>1, <2>1
    <3>5. MadeByPeer(i)
      BY <1>1, <1>5, <3>1, <3>2, <3>3, <3>4 DEF MadeByPeer
    <3>6. QED BY <1>1, <3>5 DEF IsMade
  <2>4. QED BY <2>2, <2>3
<1>6. CASE o.method = "pkh"
  <2>1. Len(keys) = 1 /\ keys[1].type = "Secp256k1"
    BY <1>6, KeysForEach
  <2>2. Dm!DidOf(o, keys) = [method |-> "pkh", key |-> keys[1]]
    BY <1>6 DEF Dm!DidOf, Dm!PkhDid
  <2>3. QED BY <1>1, <2>1, <2>2, OneOrTwo DEF IsMade, MadeByPkh
<1>7. CASE o.method = "web"
  <2>1. Dm!DidOf(o, keys) = [method |-> "web", alias |-> o.alias]
    BY <1>7 DEF Dm!DidOf, Dm!WebDid
  <2>2. QED BY <1>1, <2>1 DEF IsMade, MadeByWeb
<1>8. QED BY <1>2, <1>3, <1>4, <1>5, <1>6, <1>7

LEMMA MadeFinish ==
  ASSUME Dm!DidMethodsAssumption, MadeInv, Dm!FinishCreate
  PROVE  MadeInv'
<1> DEFINE o == making.asked
           did == Dm!DidOf(o, making.keys)
           services == IF o.method = "peer" THEN {o.service} \ {Dm!NoService} ELSE {}
           new == [did |-> did, keys |-> making.keys, services |-> services]
<1>1. /\ making # Dm!Idle /\ Len(making.keys) = Len(Dm!KeysFor(o)) /\ making' = Dm!Idle
      /\ created' = IF Dm!RefusedLate(o) THEN created ELSE {i \in created : i.did # did} \union {new}
      /\ madeKeys' = madeKeys /\ begun' = begun /\ count' = count /\ didFaults' = didFaults
  BY DEF Dm!FinishCreate
<1>2. /\ o \in Requests /\ making.keys \in Seq(Dm!Key)
      /\ o.method = "peer" => Dm!Algo(o) \in {0, 2}
      /\ \A m \in DOMAIN making.keys : making.keys[m].type = Dm!KeysFor(o)[m]
  BY <1>1 DEF MadeInv, Making
<1>3. CASE Dm!RefusedLate(o)
  BY <1>1, <1>3, ListedStay DEF MadeInv, Making, Dm!Idle
<1>4. CASE ~Dm!RefusedLate(o)
  <2>1. IsMade(new) /\ new.did = did
    BY <1>1, <1>2, <1>4, FinishedIsMade
  <2> HIDE DEF new, did
  <2>2. \A i \in created' : i = new \/ (i \in created /\ i.did # did)
    BY <1>1, <1>4
  <2>3. \A i \in created' : IsMade(i)
    BY <2>1, <2>2 DEF MadeInv
  <2>4. \A i, j \in created' : i.did = j.did => i = j
    BY <2>1, <2>2 DEF MadeInv
  <2>5. QED BY <1>1, <2>3, <2>4 DEF MadeInv, Making, Dm!Idle
<1>5. QED BY <1>3, <1>4

LEMMA OthersAreOfWeb ==
  ASSUME NEW i, IsMade(i), i.did.method \notin {"key", "jwk", "peer", "pkh"}
  PROVE  MadeByWeb(i) /\ DOMAIN i = {"did", "keys", "services"} /\ i.keys \in Seq(Dm!Key)
<1>1. MadeByKey(i) => i.did.method = "key"
  <2>1. \A k : [method |-> "key", key |-> k].method = "key"
    OBVIOUS
  <2>2. QED BY <2>1, Zenon DEF MadeByKey
<1>2. MadeByJwk(i) => i.did.method = "jwk"
  <2>1. \A k, use : [method |-> "jwk", key |-> k, use |-> use].method = "jwk"
    OBVIOUS
  <2>2. QED BY <2>1, Zenon DEF MadeByJwk
<1>3. MadeByPeer(i) => i.did.method = "peer"
  <2>1. \A keys, service : [method |-> "peer", keys |-> keys, service |-> service].method = "peer"
    OBVIOUS
  <2>2. MadeByPeer(i) => \E keys, service : i.did = [method |-> "peer", keys |-> keys, service |-> service]
    BY DEF MadeByPeer
  <2>3. QED BY <2>1, <2>2, Zenon
<1>4. MadeByPkh(i) => i.did.method = "pkh"
  <2>1. \A k : [method |-> "pkh", key |-> k].method = "pkh"
    OBVIOUS
  <2>2. QED BY <2>1, Zenon DEF MadeByPkh
<1>5. MadeByWeb(i) /\ DOMAIN i = {"did", "keys", "services"}
  BY <1>1, <1>2, <1>3, <1>4 DEF IsMade
<1>6. QED BY <1>5 DEF MadeByWeb

\* Only identifiers of did:web change.
LEMMA MadeChange ==
  ASSUME MadeInv, NEW i, NEW keys \in Seq(Dm!Key), NEW services, Dm!Change(i, keys, services)
  PROVE  MadeInv'
<1> DEFINE new == [i EXCEPT !.keys = keys, !.services = services]
<1>1. /\ i \in created /\ i.did.method \notin {"key", "jwk", "peer", "pkh"}
      /\ created' = (created \ {i}) \union {new}
      /\ making' = making /\ madeKeys' = madeKeys /\ begun' = begun /\ count' = count /\ didFaults' = didFaults
  BY DEF Dm!Change, Dm!KeyProviderThrows, Dm!JwkProviderThrows, Dm!PeerProviderThrows, Dm!PkhProviderThrows
<1>2. MadeByWeb(i) /\ DOMAIN i = {"did", "keys", "services"}
  BY <1>1, OthersAreOfWeb DEF MadeInv
<1>3. DOMAIN new = {"did", "keys", "services"} /\ new.did = i.did /\ new.keys = keys
  BY <1>2
<1> HIDE DEF new
<1>4. IsMade(new)
  BY <1>2, <1>3 DEF IsMade, MadeByWeb
<1>5. \A j \in created' : j = new \/ (j \in created /\ j # i)
  BY <1>1
<1>6. (\A j \in created' : IsMade(j)) /\ (\A j, k \in created' : j.did = k.did => j = k)
  BY <1>1, <1>3, <1>4, <1>5 DEF MadeInv
<1>7. QED BY <1>1, <1>6 DEF MadeInv, Making

LEMMA MadeStep ==
  ASSUME Dm!DidMethodsAssumption, MadeInv, [Dm!Next]_(Dm!vars)
  PROVE  MadeInv'
<1>1. ASSUME Dm!CreateFails PROVE MadeInv'
  BY <1>1, ListedStay DEF MadeInv, Making, Dm!Idle, Dm!CreateFails, Dm!DidMethodsAssumption
<1>2. ASSUME NEW i \in created, Dm!BeginDelete(i) PROVE MadeInv'
  BY <1>2, ListedStay DEF MadeInv, Making, Dm!BeginDelete
<1>3. ASSUME NEW i \in created, NEW services, Dm!Change(i, i.keys, services) PROVE MadeInv'
  <2>1. i.did.method \notin {"key", "jwk", "peer", "pkh"}
    BY <1>3 DEF Dm!Change, Dm!KeyProviderThrows, Dm!JwkProviderThrows, Dm!PeerProviderThrows, Dm!PkhProviderThrows
  <2>2. i.keys \in Seq(Dm!Key)
    BY <2>1, OthersAreOfWeb DEF MadeInv
  <2>3. QED BY <1>3, <2>2, MadeChange
<1>4. ASSUME NEW i \in created, NEW k \in madeKeys, Dm!AddKey(i, k) \/ Dm!RemoveKey(i, k) PROVE MadeInv'
  <2>1. i.did.method \notin {"key", "jwk", "peer", "pkh"}
    BY <1>4 DEF Dm!AddKey, Dm!RemoveKey, Dm!Change, Dm!KeyProviderThrows, Dm!JwkProviderThrows,
                Dm!PeerProviderThrows, Dm!PkhProviderThrows
  <2>2. i.keys \in Seq(Dm!Key) /\ k \in Dm!Key
    BY <2>1, OthersAreOfWeb DEF MadeInv
  <2>3. Append(i.keys, k) \in Seq(Dm!Key)
    BY <2>2
  <2>4. Dm!Without(i.keys, {k}) \in Seq(Dm!Key)
    <3>1. Dm!Without(i.keys, {k}) = Without(i.keys, {k})
      BY DEF Dm!Without, Without
    <3>2. QED BY <2>2, <3>1, WithoutElements
  <2>5. QED BY <1>4, <2>3, <2>4, MadeChange DEF Dm!AddKey, Dm!RemoveKey
<1>5. ASSUME Dm!DeleteKey PROVE MadeInv'
  BY <1>5, ListedStay DEF MadeInv, Making, Dm!DeleteKey
<1>6. ASSUME Dm!FinishDelete PROVE MadeInv'
  BY <1>6, ListedStay DEF MadeInv, Making, Dm!FinishDelete
<1>7. ASSUME UNCHANGED Dm!vars PROVE MadeInv'
  BY <1>7, ListedStay DEF MadeInv, Making, Dm!vars
<1>8. QED BY <1>1, <1>2, <1>3, <1>4, <1>5, <1>6, <1>7, MadeBegin, MadeKey, MadeFinish
          DEF Dm!Next, Dm!AddService, Dm!RemoveService

------------------------------------------------------------------------------
(* The documents                                                           *)

\* The keys that serve to encrypt, and the two forms of their entries.
Encrypts(k) == k.type \in {"Ed25519", "X25519"}
Forms(k, as) == {Dm!Method(k, as), Dm!Converted(Dm!Method(k, as))}

\* What a document may say of an identifier's keys so that the agent knows them again.
SignsAs(m, k) == \E as : m = Dm!Method(k, as) /\ ~(k.type = "Secp256r1" /\ as = "jwk")
EncryptsAs(m, k) == Encrypts(k) /\ \E as : m \in Forms(k, as)
Recognised(i, doc) ==
  /\ \A m \in doc.signing : \E k \in Elements(i.keys) : SignsAs(m, k)
  /\ \A m \in doc.agreement : \E k \in Elements(i.keys) : EncryptsAs(m, k)

\* Which of its sections have an entry, by the types of the keys.
HasUses(i, doc, v) ==
  /\ (\E k \in Elements(i.keys) : k.type \in {"Ed25519", "Secp256k1", "Secp256r1"}) => doc.signing # {}
  /\ (\E k \in Elements(i.keys) : k.type = "X25519" \/ (k.type = "Ed25519" /\ i.did.method # "jwk" /\ v.derive))
       => doc.agreement # {}

\* What CreatedResolves says of one identifier and its document.
Resolves(i, doc, v) ==
  /\ v = DefaultView /\ i.keys # <<>> => doc # Dm!NoDocument
  /\ ~Dm!NotMapped(i) /\ doc # Dm!NoDocument => Recognised(i, doc) /\ HasUses(i, doc, v)
  /\ i.did.method = "peer" => i.services = doc.services

\* An entry without what tells how its key is written.
Unwritten(m) == [m EXCEPT !.as = ""]

\* An entry for a key, whichever way it is written, becomes the key's own entry.
LEMMA WrittenAnyWay ==
  ASSUME NEW k, NEW as, NEW m, m = Dm!Method(k, as)
  PROVE  m.type = k.type /\ m.as = as /\ Unwritten(m) = Dm!Method(k, "")
<1>1. m = [id |-> k.id, type |-> k.type, as |-> as]
  BY DEF Dm!Method
<1>2. PICK id, type, none : id = k.id /\ type = k.type /\ none = ""
  OBVIOUS
<1>3. PICK r : r = [m EXCEPT !.as = none]
  OBVIOUS
<1>4. r = [id |-> id, type |-> type, as |-> none]
  BY <1>2, <1>3 DEF Dm!Method
<1>5. r = Dm!Method(k, "") /\ r = Unwritten(m)
  BY <1>2, <1>3, <1>4 DEF Dm!Method, Unwritten
<1>6. m.type = k.type /\ m.as = as
  BY <1>1
<1>7. QED BY <1>5, <1>6

\* So it does in the form that serves to encrypt, and that form stays as it is.
LEMMA ConvertedAnyWay ==
  ASSUME NEW k, NEW as, NEW m, m = Dm!Method(k, as), k.type \in {"Ed25519", "X25519"}
  PROVE  /\ Dm!Converted(Dm!Converted(m)) = Dm!Converted(m)
         /\ Unwritten(Dm!Converted(m)) = Dm!Converted(Dm!Method(k, ""))
         /\ Dm!Converted(m).type # "Secp256r1" /\ m.type # "Secp256r1"
<1>1. m = [id |-> k.id, type |-> k.type, as |-> as] /\ m.type = k.type
  BY DEF Dm!Method
<1>2. PICK c : c = Dm!Converted(m)
  OBVIOUS
<1>3. PICK own : own = Dm!Method(k, "")
  OBVIOUS
<1>4. own = [id |-> k.id, type |-> k.type, as |-> ""] /\ own.type = k.type
  BY <1>3 DEF Dm!Method
<1>5. PICK co : co = Dm!Converted(own)
  OBVIOUS
<1>6. PICK id, type, none, from : id = k.id /\ type = k.type /\ none = "" /\ from = "from Ed25519"
  OBVIOUS
<1>a. PICK r : r = [c EXCEPT !.as = none]
  OBVIOUS
<1>b. r = Unwritten(c)
  BY <1>6, <1>a DEF Unwritten
<1>7. CASE k.type = "Ed25519"
  <2>1. c = [m EXCEPT !.type = from] /\ co = [own EXCEPT !.type = from]
    BY <1>1, <1>2, <1>4, <1>5, <1>6, <1>7 DEF Dm!Converted
  <2>2. c = [id |-> id, type |-> from, as |-> as]
    BY <1>6, <2>1 DEF Dm!Method
  <2>3. co = [id |-> id, type |-> from, as |-> none]
    BY <1>4, <1>6, <2>1
  <2>4. r = [id |-> id, type |-> from, as |-> none]
    BY <1>a, <2>2
  <2>5. c.type = from
    BY <2>2
  <2>6. Dm!Converted(c) = c /\ c.type # "Secp256r1" /\ m.type # "Secp256r1"
    BY <1>1, <1>6, <1>7, <2>5 DEF Dm!Converted
  <2>7. r = co
    BY <2>3, <2>4
  <2>8. QED BY <1>2, <1>3, <1>5, <1>b, <2>6, <2>7
<1>8. CASE k.type = "X25519"
  <2>1. c = m /\ co = own
    BY <1>1, <1>2, <1>4, <1>5, <1>8 DEF Dm!Converted
  <2>2. r = [id |-> id, type |-> type, as |-> none]
    BY <1>6, <1>a, <2>1 DEF Dm!Method
  <2>3. r = own
    BY <1>4, <1>6, <2>2
  <2>4. Dm!Converted(c) = c /\ c.type # "Secp256r1" /\ m.type # "Secp256r1"
    BY <1>1, <1>8, <2>1 DEF Dm!Converted
  <2>5. QED BY <1>2, <1>3, <1>5, <1>b, <2>1, <2>3, <2>4
<1>9. QED BY <1>7, <1>8

LEMMA OwnToSign ==
  ASSUME NEW i, i.keys \in Seq(Dm!Key), NEW k \in Elements(i.keys), NEW as, NEW m, m = Dm!Method(k, as),
         ~(k.type = "Secp256r1" /\ as = "jwk")
  PROVE  Dm!IsOwn(m, "signing", i)
<1>1. PICK n \in DOMAIN i.keys : i.keys[n] = k
  BY DEF Elements
<1>2. Dm!Method(k, "") \in Dm!Local(i, "signing")
  BY <1>1 DEF Dm!Local
<1>3. m.type = k.type /\ m.as = as /\ Unwritten(m) = Dm!Method(k, "")
  BY WrittenAnyWay
<1>4. QED BY <1>2, <1>3 DEF Dm!IsOwn, Unwritten

LEMMA OwnToEncrypt ==
  ASSUME NEW i, i.keys \in Seq(Dm!Key), NEW k \in Elements(i.keys), NEW as, NEW m,
         Encrypts(k), m \in Forms(k, as)
  PROVE  Dm!IsOwn(m, "agreement", i)
<1> k.type \in {"Ed25519", "X25519"}
  BY DEF Encrypts
<1> m = Dm!Method(k, as) \/ m = Dm!Converted(Dm!Method(k, as))
  BY DEF Forms
<1>1. PICK n \in DOMAIN i.keys : i.keys[n] = k
  BY DEF Elements
<1>2. PICK own : own = Dm!Method(k, "") /\ own.type = k.type
  <2>1. PICK own : own = Dm!Method(k, "")
    OBVIOUS
  <2>2. own.type = k.type
    BY <2>1, WrittenAnyWay
  <2>3. QED BY <2>1, <2>2
<1>3. Dm!Converted(own) \in Dm!Local(i, "agreement")
  BY <1>1, <1>2 DEF Dm!Local
<1>4. PICK e : e = Dm!Method(k, as)
  OBVIOUS
<1>5. /\ Dm!Converted(Dm!Converted(e)) = Dm!Converted(e)
      /\ Unwritten(Dm!Converted(e)) = Dm!Converted(own)
      /\ Dm!Converted(e).type # "Secp256r1" /\ e.type # "Secp256r1"
  BY <1>2, <1>4, ConvertedAnyWay
<1>6. PICK shown : shown = Dm!Converted(m) /\ shown = Dm!Converted(e)
  <2>1. m = e \/ m = Dm!Converted(e)
    BY <1>4
  <2>2. Dm!Converted(m) = Dm!Converted(e)
    BY <1>5, <2>1, Zenon
  <2>3. QED BY <2>2
<1>7. m.type # "Secp256r1"
  BY <1>4, <1>5, Zenon
<1>8. Unwritten(shown) \in Dm!Local(i, "agreement")
  BY <1>3, <1>5, <1>6
<1>9. QED BY <1>6, <1>7, <1>8 DEF Dm!IsOwn, Unwritten

LEMMA RecognisedIsMapped ==
  ASSUME NEW i, NEW doc, Recognised(i, doc), i.keys \in Seq(Dm!Key)
  PROVE  Dm!Mapped(i, doc, "signing") = doc["signing"] /\ Dm!Mapped(i, doc, "agreement") = doc["agreement"]
<1>1. ASSUME NEW m \in doc["signing"] PROVE Dm!IsOwn(m, "signing", i)
  <2>1. PICK k \in Elements(i.keys) : SignsAs(m, k)
    BY <1>1 DEF Recognised
  <2>2. QED BY <2>1, OwnToSign DEF SignsAs
<1>2. ASSUME NEW m \in doc["agreement"] PROVE Dm!IsOwn(m, "agreement", i)
  <2>1. PICK k \in Elements(i.keys) : EncryptsAs(m, k)
    BY <1>2 DEF Recognised
  <2>2. QED BY <2>1, OwnToEncrypt DEF EncryptsAs
<1>3. QED BY <1>1, <1>2 DEF Dm!Mapped

LEMMA PartsOfDoc ==
  ASSUME NEW signing, NEW agreement, NEW services, NEW doc, doc = Dm!Doc(signing, agreement, services)
  PROVE  /\ doc.signing = signing /\ doc.agreement = agreement /\ doc.services = services
         /\ doc.methods = signing \union agreement
BY DEF Dm!Doc

LEMMA NothingToRecognise ==
  ASSUME NEW doc
  PROVE  /\ doc = Dm!NoDocument => doc.methods = {} /\ doc.signing = {} /\ doc.agreement = {} /\ doc.services = {}
BY PartsOfDoc DEF Dm!NoDocument

\* The formats that a caller gets who asks for none
LEMMA DefaultIsKnown ==
  ASSUME Dm!DidMethodsAssumption
  PROVE  /\ Dm!KnownAccept(DefaultView) /\ DefaultView.format \in Dm!EcdsaFormats
         /\ DefaultView.format \in Dm!EddsaFormats /\ DefaultView.format \in Dm!X25519Formats
BY DEF Dm!DidMethodsAssumption, Dm!KnownAccept, Dm!EcdsaFormats, Dm!EddsaFormats, Dm!X25519Formats

LEMMA OneKey ==
  ASSUME NEW k, NEW keys, keys = <<k>>
  PROVE  Elements(keys) = {k} /\ keys # <<>> /\ keys[1] = k /\ Len(keys) = 1
BY DEF Elements

LEMMA KeyResolves ==
  ASSUME Dm!DidMethodsAssumption, NEW i, MadeByKey(i), NEW v
  PROVE  Resolves(i, Dm!Resolve(i.did, v), v)
<1>1. PICK k \in Dm!Key : i.did = [method |-> "key", key |-> k] /\ i.keys = <<k>> /\ k.type # "Secp256r1"
  BY DEF MadeByKey
<1>2. i.did.method = "key" /\ i.did.key = k
  BY <1>1
<1>3. Elements(i.keys) = {k}
  BY <1>1, OneKey
<1>4. PICK doc : doc = Dm!Resolve(i.did, v)
  OBVIOUS
<1>5. doc = Dm!ResolveKey(k, v)
  BY <1>2, <1>4 DEF Dm!Resolve
<1>6. PICK as : as = Dm!Written[v.format]
  OBVIOUS
<1>7. k.type \in {"Ed25519", "X25519", "Secp256k1"}
  BY <1>1 DEF Dm!Key, Dm!KeyTypes
<1>8. PICK m : m = Dm!Method(k, as)
  OBVIOUS
<1>9. Resolves(i, doc, v)
  <2>1. CASE ~Dm!KnownAccept(v)
    <3>1. doc = Dm!NoDocument
      BY <1>5, <2>1 DEF Dm!ResolveKey
    <3>2. QED BY <1>2, <2>1, <3>1, DefaultIsKnown DEF Resolves
  <2>2. CASE Dm!KnownAccept(v) /\ k.type = "X25519"
    <3>1. doc = IF v.format \in Dm!X25519Formats THEN Dm!Doc({}, {m}, {}) ELSE Dm!NoDocument
      BY <1>5, <1>6, <1>8, <2>2 DEF Dm!ResolveKey, Dm!ResolveX25519
    <3>2. CASE v.format \in Dm!X25519Formats
      <4>1. doc.signing = {} /\ doc.agreement = {m}
        BY <3>1, <3>2, PartsOfDoc
      <4>2. doc # Dm!NoDocument
        BY <4>1, NothingToRecognise
      <4>3. Recognised(i, doc)
        <5>1. EncryptsAs(m, k)
          BY <1>8, <2>2 DEF EncryptsAs, Encrypts, Forms
        <5>2. QED BY <1>3, <4>1, <5>1 DEF Recognised
      <4>4. QED BY <1>2, <1>3, <2>2, <4>1, <4>2, <4>3 DEF Resolves, HasUses
    <3>3. CASE v.format \notin Dm!X25519Formats
      BY <1>2, <3>1, <3>3, DefaultIsKnown DEF Resolves
    <3>4. QED BY <3>2, <3>3
  <2>3. CASE Dm!KnownAccept(v) /\ k.type = "Ed25519"
    <3>1. PICK agreement : agreement = IF v.derive THEN {Dm!Converted(m)} ELSE {}
      OBVIOUS
    <3>2. doc = IF v.format \in Dm!EddsaFormats THEN Dm!Doc({m}, agreement, {}) ELSE Dm!NoDocument
      BY <1>5, <1>6, <1>8, <2>3, <3>1 DEF Dm!ResolveKey, Dm!ResolveEDDSA
    <3>3. CASE v.format \in Dm!EddsaFormats
      <4>1. doc.signing = {m} /\ doc.agreement = agreement
        BY <3>2, <3>3, PartsOfDoc
      <4>2. doc # Dm!NoDocument
        BY <4>1, NothingToRecognise
      <4>3. Recognised(i, doc)
        <5>1. SignsAs(m, k)
          BY <1>8, <2>3 DEF SignsAs
        <5>2. EncryptsAs(Dm!Converted(m), k)
          BY <1>8, <2>3 DEF EncryptsAs, Encrypts, Forms
        <5>3. QED BY <1>3, <3>1, <4>1, <5>1, <5>2 DEF Recognised
      <4>4. QED BY <1>2, <1>3, <2>3, <3>1, <4>1, <4>2, <4>3 DEF Resolves, HasUses
    <3>4. CASE v.format \notin Dm!EddsaFormats
      BY <1>2, <3>2, <3>4, DefaultIsKnown DEF Resolves
    <3>5. QED BY <3>3, <3>4
  <2>4. CASE Dm!KnownAccept(v) /\ k.type = "Secp256k1"
    <3>1. doc = IF v.format \in Dm!EcdsaFormats THEN Dm!Doc({m}, {}, {}) ELSE Dm!NoDocument
      BY <1>5, <1>6, <1>8, <2>4 DEF Dm!ResolveKey, Dm!ResolveECDSA
    <3>2. CASE v.format \in Dm!EcdsaFormats
      <4>1. doc.signing = {m} /\ doc.agreement = {}
        BY <3>1, <3>2, PartsOfDoc
      <4>2. doc # Dm!NoDocument
        BY <4>1, NothingToRecognise
      <4>3. Recognised(i, doc)
        BY <1>3, <1>8, <2>4, <4>1 DEF Recognised, SignsAs
      <4>4. QED BY <1>2, <1>3, <2>4, <4>1, <4>2, <4>3 DEF Resolves, HasUses
    <3>3. CASE v.format \notin Dm!EcdsaFormats
      BY <1>2, <3>1, <3>3, DefaultIsKnown DEF Resolves
    <3>4. QED BY <3>2, <3>3
  <2>5. QED BY <1>7, <2>1, <2>2, <2>3, <2>4
<1>10. QED BY <1>4, <1>9

LEMMA PkhResolves ==
  ASSUME Dm!DidMethodsAssumption, NEW i, MadeByPkh(i), NEW v
  PROVE  Resolves(i, Dm!Resolve(i.did, v), v)
<1>1. PICK k \in Dm!Key : i.did = [method |-> "pkh", key |-> k] /\ i.keys = <<k>> /\ k.type = "Secp256k1"
  BY DEF MadeByPkh
<1>2. i.did.method = "pkh" /\ i.did.key = k /\ Elements(i.keys) = {k}
  BY <1>1, OneKey
<1>3. PICK doc, m, as : doc = Dm!Resolve(i.did, v) /\ m = Dm!Method(k, as) /\ as = "account"
  OBVIOUS
<1>4. doc = IF Dm!KnownAccept(v) THEN Dm!Doc({m}, {}, {}) ELSE Dm!NoDocument
  BY <1>2, <1>3 DEF Dm!Resolve, Dm!ResolvePkh
<1>5. Resolves(i, doc, v)
  <2>1. CASE ~Dm!KnownAccept(v)
    BY <1>2, <1>4, <2>1, DefaultIsKnown DEF Resolves
  <2>2. CASE Dm!KnownAccept(v)
    <3>1. doc.signing = {m} /\ doc.agreement = {}
      BY <1>4, <2>2, PartsOfDoc
    <3>2. doc # Dm!NoDocument
      BY <3>1, NothingToRecognise
    <3>3. Recognised(i, doc)
      BY <1>1, <1>2, <1>3, <3>1 DEF Recognised, SignsAs
    <3>4. QED BY <1>1, <1>2, <3>1, <3>2, <3>3 DEF Resolves, HasUses
  <2>3. QED BY <2>1, <2>2
<1>6. QED BY <1>3, <1>5

LEMMA JwkResolves ==
  ASSUME NEW i, MadeByJwk(i), NEW v
  PROVE  Resolves(i, Dm!Resolve(i.did, v), v)
<1>1. PICK k \in Dm!Key, use \in {"sig", "enc"} :
        /\ i.did = [method |-> "jwk", key |-> k, use |-> use] /\ i.keys = <<k>>
        /\ ~(k.type = "X25519" /\ use = "sig") /\ ~(k.type = "Ed25519" /\ use = "enc")
  BY DEF MadeByJwk
<1>2. i.did.method = "jwk" /\ i.did.key = k /\ i.did.use = use /\ Elements(i.keys) = {k}
  BY <1>1, OneKey
<1>3. PICK doc, m, as : doc = Dm!Resolve(i.did, v) /\ m = Dm!Method(k, as) /\ as = "jwk"
  OBVIOUS
<1>4. doc = Dm!ResolveJwk(i.did)
  BY <1>2, <1>3 DEF Dm!Resolve
<1>5. PICK signing, agreement : /\ signing = (IF use = "sig" THEN {m} ELSE {})
                                /\ agreement = (IF use = "enc" THEN {m} ELSE {})
  OBVIOUS
<1>6. PICK d : d = Dm!Doc(signing, agreement, {})
  OBVIOUS
<1>7. doc = [d EXCEPT !.methods = {m}]
  BY <1>2, <1>3, <1>4, <1>5, <1>6 DEF Dm!ResolveJwk
<1>8. DOMAIN d = {"methods", "signing", "agreement", "services"} /\ d.signing = signing /\ d.agreement = agreement
  BY <1>6 DEF Dm!Doc
<1>9. doc.methods = {m} /\ doc.signing = signing /\ doc.agreement = agreement
  BY <1>7, <1>8
<1>10. doc # Dm!NoDocument
  BY <1>9, NothingToRecognise
<1>11. ASSUME ~Dm!NotMapped(i) PROVE Recognised(i, doc) /\ HasUses(i, doc, v)
  <2>1. k.type # "Secp256r1" /\ ~(k.type = "Secp256k1" /\ use = "enc")
    BY <1>2, <1>11 DEF Dm!NotMapped
  <2>2. k.type \in {"Ed25519", "X25519", "Secp256k1", "Secp256r1"}
    BY <1>1 DEF Dm!Key, Dm!KeyTypes
  <2>3. CASE use = "sig"
    <3>1. SignsAs(m, k)
      BY <1>3, <2>1 DEF SignsAs
    <3>2. doc.signing = {m} /\ doc.agreement = {} /\ k.type # "X25519"
      BY <1>1, <1>5, <1>9, <2>3
    <3>3. Recognised(i, doc)
      BY <1>2, <3>1, <3>2 DEF Recognised
    <3>4. QED BY <1>2, <3>2, <3>3 DEF HasUses
  <2>4. CASE use = "enc"
    <3>1. k.type = "X25519"
      BY <1>1, <2>1, <2>2, <2>4
    <3>2. EncryptsAs(m, k)
      BY <1>3, <3>1 DEF EncryptsAs, Encrypts, Forms
    <3>3. doc.signing = {} /\ doc.agreement = {m}
      BY <1>5, <1>9, <2>4
    <3>4. Recognised(i, doc)
      BY <1>2, <3>2, <3>3 DEF Recognised
    <3>5. QED BY <1>2, <3>1, <3>3, <3>4 DEF HasUses
  <2>5. QED BY <2>3, <2>4
<1>12. i.did.method # "peer"
  BY <1>2
<1>13. Resolves(i, doc, v)
  BY <1>10, <1>11, <1>12 DEF Resolves
<1>14. QED BY <1>3, <1>13

LEMMA PeerResolves ==
  ASSUME NEW i, MadeByPeer(i), NEW v
  PROVE  Resolves(i, Dm!Resolve(i.did, v), v)
<1>0. PICK k, l \in Dm!Key : \E service :
        /\ i.services = {service} \ {Dm!NoService} /\ k.type = "Ed25519" /\ l.type = "X25519"
        /\ (i.keys = <<k>> /\ service = Dm!NoService) \/ i.keys = <<k, l>>
        /\ i.did = [method |-> "peer", keys |-> i.keys, service |-> service]
  BY DEF MadeByPeer
<1>1. PICK service :
        /\ i.services = {service} \ {Dm!NoService} /\ k.type = "Ed25519" /\ l.type = "X25519"
        /\ (i.keys = <<k>> /\ service = Dm!NoService) \/ i.keys = <<k, l>>
        /\ i.did = [method |-> "peer", keys |-> i.keys, service |-> service]
  BY <1>0
<1>2. i.did.method = "peer" /\ i.did.keys = i.keys /\ i.did.service = service
  <2>1. PICK keys : keys = i.keys
    OBVIOUS
  <2>2. i.did = [method |-> "peer", keys |-> keys, service |-> service]
    BY <1>1, <2>1
  <2>3. QED BY <2>1, <2>2
<1>3. PICK doc, m, as, sealing : /\ doc = Dm!Resolve(i.did, v) /\ m = Dm!Method(k, as) /\ as = "multibase"
                                 /\ sealing = Dm!Method(l, as)
  OBVIOUS
<1>4. doc = Dm!ResolvePeer(i.did)
  BY <1>2, <1>3 DEF Dm!Resolve
<1>5. SignsAs(m, k) /\ EncryptsAs(Dm!Converted(m), k) /\ EncryptsAs(sealing, l)
  BY <1>1, <1>3 DEF SignsAs, EncryptsAs, Encrypts, Forms
<1>6. CASE i.keys = <<k>> /\ service = Dm!NoService
  <2>1. Elements(i.keys) = {k} /\ i.keys[1] = k /\ Len(i.keys) = 1
    BY <1>6, OneKey
  <2>2. doc = Dm!Doc({m}, {Dm!Converted(m)}, {})
    BY <1>2, <1>3, <1>4, <2>1 DEF Dm!ResolvePeer
  <2>3. doc.signing = {m} /\ doc.agreement = {Dm!Converted(m)} /\ doc.services = {}
    BY <2>2, PartsOfDoc
  <2>4. Recognised(i, doc)
    BY <1>5, <2>1, <2>3 DEF Recognised
  <2>5. doc # Dm!NoDocument
    BY <2>3, NothingToRecognise
  <2>6. Resolves(i, doc, v)
    BY <1>1, <1>6, <2>3, <2>4, <2>5 DEF Resolves, HasUses
  <2>7. QED BY <1>3, <2>6
<1>7. CASE i.keys = <<k, l>>
  <2>1. Elements(i.keys) = {k, l} /\ i.keys[1] = k /\ i.keys[2] = l /\ Len(i.keys) = 2
    BY <1>7 DEF Elements
  <2>2. doc = Dm!Doc({m}, {sealing}, {service} \ {Dm!NoService})
    BY <1>2, <1>3, <1>4, <2>1 DEF Dm!ResolvePeer
  <2>3. doc.signing = {m} /\ doc.agreement = {sealing} /\ doc.services = i.services
    BY <1>1, <2>2, PartsOfDoc
  <2>4. Recognised(i, doc)
    BY <1>5, <2>1, <2>3 DEF Recognised
  <2>5. doc # Dm!NoDocument
    BY <2>3, NothingToRecognise
  <2>6. Resolves(i, doc, v)
    BY <2>3, <2>4, <2>5 DEF Resolves, HasUses
  <2>7. QED BY <1>3, <2>6
<1>8. QED BY <1>1, <1>6, <1>7

\* The router of did:web serves the one identifier that has the DID.
LEMMA WebResolves ==
  ASSUME MadeInv, NEW i \in created, MadeByWeb(i), NEW v
  PROVE  Resolves(i, Dm!Resolve(i.did, v), v)
<1>1. i.did.method = "web" /\ i.keys \in Seq(Dm!Key)
  <2>1. \A alias : [method |-> "web", alias |-> alias].method = "web"
    OBVIOUS
  <2>2. QED BY <2>1, Zenon DEF MadeByWeb
<1>2. (CHOOSE j \in created : j.did = i.did) = i
  BY DEF MadeInv
<1>3. PICK doc : doc = Dm!Resolve(i.did, v)
  OBVIOUS
<1>4. doc = Dm!Serve(i)
  BY <1>1, <1>2, <1>3 DEF Dm!Resolve
<1>5. PICK signing, agreement :
        /\ signing = {Dm!Method(k, "raw") : k \in {x \in Elements(i.keys) : x.type # "X25519"}}
        /\ agreement = {Dm!Method(k, "raw") : k \in {x \in Elements(i.keys) : x.type \in {"Ed25519", "X25519"}}}
  OBVIOUS
<1>6. doc = Dm!Doc(signing, agreement, i.services)
  BY <1>4, <1>5 DEF Dm!Serve, Elements
<1>7. doc.signing = signing /\ doc.agreement = agreement
  BY <1>6, PartsOfDoc
<1>8. \A k \in Elements(i.keys) : SignsAs(Dm!Method(k, "raw"), k)
  BY DEF SignsAs
<1>9. \A k \in Elements(i.keys) : k.type \in {"Ed25519", "X25519"} => EncryptsAs(Dm!Method(k, "raw"), k)
  BY DEF EncryptsAs, Encrypts, Forms
<1>10. Recognised(i, doc)
  BY <1>5, <1>7, <1>8, <1>9 DEF Recognised
<1>11. HasUses(i, doc, v)
  BY <1>5, <1>7 DEF HasUses
<1>12. i.keys # <<>> => doc # Dm!NoDocument
  <2>1. SUFFICES ASSUME i.keys # <<>> PROVE signing # {} \/ agreement # {}
    BY <1>7, NothingToRecognise
  <2>2. PICK k : k = i.keys[1]
    OBVIOUS
  <2>3. k \in Elements(i.keys)
    BY <1>1, <2>1, <2>2 DEF Elements
  <2>4. QED BY <1>5, <2>3
<1>13. Resolves(i, doc, v)
  BY <1>1, <1>10, <1>11, <1>12 DEF Resolves
<1>14. QED BY <1>3, <1>13

LEMMA KeysAreKeys ==
  ASSUME NEW i, IsMade(i)
  PROVE  i.keys \in Seq(Dm!Key)
<1>1. \A k, l \in Dm!Key : <<k>> \in Seq(Dm!Key) /\ <<k, l>> \in Seq(Dm!Key)
  OBVIOUS
<1>2. MadeByKey(i) => i.keys \in Seq(Dm!Key)
  BY <1>1 DEF MadeByKey
<1>3. MadeByJwk(i) => i.keys \in Seq(Dm!Key)
  BY <1>1 DEF MadeByJwk
<1>4. MadeByPeer(i) => i.keys \in Seq(Dm!Key)
  BY <1>1, ZenonT(40) DEF MadeByPeer
<1>5. MadeByPkh(i) => i.keys \in Seq(Dm!Key)
  BY <1>1 DEF MadeByPkh
<1>6. QED BY <1>2, <1>3, <1>4, <1>5 DEF IsMade, MadeByWeb

LEMMA MadeResolves ==
  ASSUME Dm!DidMethodsAssumption, MadeInv
  PROVE  Dm!CreatedResolves
<1> SUFFICES ASSUME NEW i \in created, NEW v \in Views, NEW doc, doc = Dm!Resolve(i.did, v),
                    NEW types, types = {i.keys[n].type : n \in DOMAIN i.keys}
             PROVE  /\ v = DefaultView /\ i.keys # <<>> => doc # Dm!NoDocument
                    /\ ~Dm!NotMapped(i) /\ doc # Dm!NoDocument =>
                         /\ \A s \in {"signing", "agreement"} : Dm!Mapped(i, doc, s) = doc[s]
                         /\ types \cap {"Ed25519", "Secp256k1", "Secp256r1"} # {} => Dm!Mapped(i, doc, "signing") # {}
                         /\ \/ "X25519" \in types
                            \/ "Ed25519" \in types /\ i.did.method # "jwk" /\ v.derive
                            => Dm!Mapped(i, doc, "agreement") # {}
                    /\ i.did.method = "peer" => i.services = doc.services
  BY Zenon DEF Dm!CreatedResolves
<1>1. IsMade(i)
  BY DEF MadeInv
<1>2. i.keys \in Seq(Dm!Key)
  BY <1>1, KeysAreKeys
<1>3. Resolves(i, doc, v)
  BY <1>1, KeyResolves, JwkResolves, PeerResolves, PkhResolves, WebResolves DEF IsMade
<1>4. types = {k.type : k \in Elements(i.keys)}
  BY DEF Elements
<1>5. ASSUME ~Dm!NotMapped(i), doc # Dm!NoDocument
      PROVE  /\ \A s \in {"signing", "agreement"} : Dm!Mapped(i, doc, s) = doc[s]
             /\ types \cap {"Ed25519", "Secp256k1", "Secp256r1"} # {} => Dm!Mapped(i, doc, "signing") # {}
             /\ ("X25519" \in types \/ ("Ed25519" \in types /\ i.did.method # "jwk" /\ v.derive))
                  => Dm!Mapped(i, doc, "agreement") # {}
  <2>1. Recognised(i, doc) /\ HasUses(i, doc, v)
    BY <1>3, <1>5 DEF Resolves
  <2>2. Dm!Mapped(i, doc, "signing") = doc["signing"] /\ Dm!Mapped(i, doc, "agreement") = doc["agreement"]
    BY <1>2, <2>1, RecognisedIsMapped
  <2>3. types \cap {"Ed25519", "Secp256k1", "Secp256r1"} # {} => Dm!Mapped(i, doc, "signing") # {}
    BY <1>4, <2>1, <2>2 DEF HasUses
  <2>4. ("X25519" \in types \/ ("Ed25519" \in types /\ i.did.method # "jwk" /\ v.derive))
           => Dm!Mapped(i, doc, "agreement") # {}
    BY <1>4, <2>1, <2>2 DEF HasUses
  <2>5. QED BY <2>2, <2>3, <2>4
<1>6. QED BY <1>3, <1>5 DEF Resolves

LEMMA MadeAlways ==
  ASSUME Dm!DidMethodsAssumption
  PROVE  Dm!Spec => []MadeInv
<1>1. Dm!Init => MadeInv
  BY MadeInit
<1>2. MadeInv /\ [Dm!Next]_(Dm!vars) => MadeInv'
  BY MadeStep
<1>3. QED BY <1>1, <1>2, PTL DEF Dm!Spec

(* Creations of each method hold their keys, and what is created has keys of the
   key manager's types. *)
THEOREM MethodsTypeCorrect ==
  ASSUME Dm!DidMethodsAssumption
  PROVE  Dm!Spec => []Dm!TypeOK
<1>1. MadeInv => Dm!TypeOK
  <2>1. ASSUME NEW i, IsMade(i), NEW n \in DOMAIN i.keys PROVE i.keys[n] \in Dm!Key
    BY <2>1, KeysAreKeys, ElementOfSeq
  <2>2. QED BY <2>1 DEF MadeInv, Dm!TypeOK
<1>2. QED BY <1>1, MadeAlways, PTL

(* Whatever identifier createIdentifier created, and however did:web changed it
   since, resolves; in its document the agent recognises every entry, and finds
   one for each use that the identifier's keys have. *)
THEOREM CreatedAlwaysResolves ==
  ASSUME Dm!DidMethodsAssumption
  PROVE  Dm!Spec => []CreatedResolves
BY MadeResolves, MadeAlways, PTL DEF CreatedResolves

------------------------------------------------------------------------------
(* The methods of an agent (AgentMethods): what runs was allowed, whatever *)
(* plugins, overrides and schemas the two agents have.                     *)

Answers == {"200", "empty", "400", "401", "404", "500"}

\* The caller's agent has let the call through.
LetThrough == methodCall \in MethodCalls /\ Am!Refusal(LocalAgent, methodCall.method, methodCall.args) = "none"

RanAt(place) == \E run : ran = {run} /\ run.at = place

\* What is known of a call at each stage
CallIsFollowed ==
  /\ methodStage \in {"run", "sent"} => LetThrough /\ ran = {} /\ methodOutcome = "none"
  /\ methodStage \in Answers => LetThrough /\ methodOutcome = "none" /\ (ran = {} \/ RanAt("remote"))
  /\ methodStage = "200" =>
       RanAt("remote") /\ methodCall.result = "value" /\ Am!Fits(RemoteAgent, methodCall.method, methodCall.returns)
  /\ methodStage = "idle" => ran = {} /\ methodOutcome = "none"

AmInv == Am!TypeOK /\ CallIsFollowed /\ Am!RanWasAllowed /\ Am!CallersKnow

\* What is not refused is authorized, and its arguments fit.
LEMMA NotRefused ==
  ASSUME NEW agent, NEW m, NEW args, Am!Refusal(agent, m, args) = "none"
  PROVE  m \in agent.authorized /\ Am!Fits(agent, m, args)
BY DEF Am!Refusal, Am!Provider

\* What is returned is the result, which fits, or an error.
LEMMA WhatIsReturned ==
  ASSUME Am!MethodsAssumption, methodCall \in MethodCalls, NEW agent
  PROVE  /\ Am!Returned(agent) \in {"value", "nothing", "error", "PluginReturnTypeError"}
         /\ Am!Returned(agent) \in {"value", "nothing"} =>
              Am!Returned(agent) = methodCall.result /\ Am!Fits(agent, methodCall.method, methodCall.returns)
BY DEF Am!MethodsAssumption, Am!Returned

LEMMA ExecuteStep ==
  ASSUME AmInv, NEW c \in MethodCalls, Am!Execute(c)
  PROVE  AmInv'
<1> USE DEF AmInv, CallIsFollowed, Am!TypeOK
<1>1. /\ ran' = {} /\ methodCall' = c /\ methodOutcome = "none"
      /\ \/ /\ methodStage' = "done" /\ methodOutcome' = Am!Refusal(LocalAgent, c.method, c.args)
            /\ methodOutcome' \in {"Method not available", "ValidationError"}
         \/ /\ methodStage' \in {"run", "sent"} /\ methodOutcome' = "none"
            /\ Am!Refusal(LocalAgent, c.method, c.args) = "none"
  BY DEF Am!Execute, Am!End, Am!Refusal
<1>2. QED BY <1>1 DEF LetThrough, Am!RanWasAllowed, Am!CallersKnow, Answers

LEMMA RunHereStep ==
  ASSUME Am!MethodsAssumption, AmInv, Am!RunHere
  PROVE  AmInv'
<1> USE DEF AmInv, CallIsFollowed
<1>1. /\ LetThrough /\ methodStage' = "done" /\ methodCall' = methodCall
      /\ methodOutcome' = Am!Returned(LocalAgent)
  BY DEF Am!RunHere, Am!End
<1> DEFINE run == [at |-> "local", by |-> Am!Provider(LocalAgent, methodCall.method)]
<1>2. ran' = {run} /\ run.at = "local"
  <2>1. ran = {} /\ ran' = ran \union {run}
    BY DEF Am!RunHere, Am!RunBy
  <2>2. QED BY <2>1
<1> HIDE DEF run
<1>3. methodCall.method \in LocalAgent.authorized /\ Am!Fits(LocalAgent, methodCall.method, methodCall.args)
  BY <1>1, NotRefused DEF LetThrough
<1>4. Am!TypeOK'
  BY <1>1, WhatIsReturned DEF Am!TypeOK, LetThrough
<1>5. Am!RanWasAllowed'
  BY <1>1, <1>2, <1>3 DEF Am!RanWasAllowed, Am!Fits
<1>6. Am!CallersKnow'
  BY <1>1, <1>2, WhatIsReturned DEF Am!CallersKnow, LetThrough, Am!Fits
<1>7. QED BY <1>1, <1>4, <1>5, <1>6 DEF Answers

LEMMA ServeStep ==
  ASSUME Am!MethodsAssumption, AmInv, Am!Serve
  PROVE  AmInv'
<1> USE DEF AmInv, CallIsFollowed
<1>1. LetThrough /\ ran = {} /\ methodCall' = methodCall /\ methodOutcome' = methodOutcome /\ methodOutcome = "none"
  BY DEF Am!Serve, Am!Answer
<1>2. CASE ran' = ran /\ methodStage' \in {"400", "401", "404", "500"}
  BY <1>1, <1>2 DEF Am!TypeOK, LetThrough, Am!RanWasAllowed, Am!CallersKnow, Answers
<1>3. CASE /\ Am!LetIn /\ methodCall.method \in Exposed
           /\ Am!Refusal(RemoteAgent, methodCall.method, methodCall.args) = "none"
           /\ Am!RunBy("remote", RemoteAgent) /\ methodStage' = Am!AnswerTo(Am!Returned(RemoteAgent))
  <2> DEFINE run == [at |-> "remote", by |-> Am!Provider(RemoteAgent, methodCall.method)]
  <2>1. ran' = {run} /\ run.at = "remote"
    <3>1. ran' = ran \union {run}
      BY <1>3 DEF Am!RunBy
    <3>2. QED BY <1>1, <3>1
  <2> HIDE DEF run
  <2>2. methodStage' \in {"200", "empty", "500"} /\ (methodStage' = "200" <=> Am!Returned(RemoteAgent) = "value")
    BY <1>3 DEF Am!AnswerTo
  <2>3. methodStage' = "200" => methodCall.result = "value" /\ Am!Fits(RemoteAgent, methodCall.method, methodCall.returns)
    BY <1>1, <2>2, WhatIsReturned DEF LetThrough
  <2>4. /\ methodCall.method \in LocalAgent.authorized /\ Am!Fits(LocalAgent, methodCall.method, methodCall.args)
        /\ methodCall.method \in RemoteAgent.authorized /\ Am!Fits(RemoteAgent, methodCall.method, methodCall.args)
    BY <1>1, <1>3, NotRefused DEF LetThrough
  <2>5. Am!RanWasAllowed'
    BY <1>1, <1>3, <2>1, <2>4 DEF Am!RanWasAllowed, Am!Fits, Am!LetIn
  <2>6. CallIsFollowed'
    BY <1>1, <2>1, <2>2, <2>3 DEF LetThrough, RanAt, Answers, Am!Fits
  <2>7. QED BY <1>1, <2>2, <2>5, <2>6 DEF Am!TypeOK, Am!CallersKnow
<1>4. QED BY <1>1, <1>2, <1>3 DEF Am!Serve, Am!Answer

LEMMA ReceiveStep ==
  ASSUME Am!MethodsAssumption, AmInv, Am!Receive \/ Am!Lose
  PROVE  AmInv'
<1> USE DEF AmInv, CallIsFollowed
<1>1. LetThrough /\ methodCall' = methodCall /\ ran' = ran /\ methodStage' = "done"
  BY DEF Am!Receive, Am!Lose, Am!End, Am!TypeOK, Answers
<1>2. \/ methodOutcome' = "error"
      \/ methodStage = "200" /\ methodOutcome' = Am!Returned(LocalAgent)
  BY DEF Am!Receive, Am!Lose, Am!End
<1>3. Am!TypeOK'
  BY <1>1, <1>2, WhatIsReturned DEF Am!TypeOK, LetThrough
<1>4. Am!RanWasAllowed'
  BY <1>1 DEF Am!RanWasAllowed, Am!Fits
<1>5. Am!CallersKnow'
  BY <1>1, <1>2, WhatIsReturned DEF Am!CallersKnow, LetThrough, RanAt, Am!Fits
<1>6. QED BY <1>1, <1>3, <1>4, <1>5 DEF Answers

LEMMA AmInductive ==
  ASSUME Am!MethodsAssumption
  PROVE  Am!Spec => []AmInv
<1>1. Am!Init => AmInv
  BY DEF Am!Init, AmInv, Am!TypeOK, CallIsFollowed, Am!RanWasAllowed, Am!CallersKnow, Answers
<1>2. AmInv /\ [Am!Next]_(Am!vars) => AmInv'
  <2>1. ASSUME AmInv, UNCHANGED Am!vars PROVE AmInv'
    BY <2>1 DEF AmInv, Am!vars, Am!TypeOK, CallIsFollowed, LetThrough, RanAt, Am!RanWasAllowed, Am!CallersKnow,
                Am!Fits, Am!Refusal, Am!Provider
  <2>2. QED BY <2>1, ExecuteStep, RunHereStep, ServeStep, ReceiveStep DEF Am!Next
<1>3. QED BY <1>1, <1>2, PTL DEF Am!Spec

(* A call and what became of it stay of their type, for any two agents. *)
THEOREM AgentsTypeCorrect ==
  ASSUME Am!MethodsAssumption
  PROVE  Am!Spec => []Am!TypeOK
<1>1. AmInv => Am!TypeOK
  BY DEF AmInv
<1>2. QED BY <1>1, AmInductive, PTL

(* A method runs, here or at the remote agent, only where it is authorized, with
   arguments that fit its schema there, and at the remote agent only when it is
   exposed and the token is right; and a caller who is given a value is given
   what one run of the method returned: Agent.execute, AgentRouter, AgentRestClient. *)
THEOREM AgentsRunAsAsked ==
  ASSUME Am!MethodsAssumption
  PROVE  Am!Spec => []MethodsRunAsAsked
<1>1. AmInv => MethodsRunAsAsked
  BY DEF AmInv, MethodsRunAsAsked, Am!MethodsRunAsAsked
<1>2. QED BY <1>1, AmInductive, PTL
==============================================================================
