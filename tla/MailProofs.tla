----------------------------- MODULE MailProofs -----------------------------
(* Theorems about Mail, for every set of publishers and messages and every number of faults. *)
EXTENDS Mail, SequenceTheorems, TLAPS

(* Sequences without repetition *)

Distinct(s) == s \in Seq(Messages) /\ IsInjective(s)

\* The empty sequence and those of one message.
LEMMA ShortSeqs ==
    /\ Distinct(<<>>) /\ ToSet(<<>>) = {} /\ Len(<<>>) = 0
    /\ \A m \in Messages : Distinct(<<m>>) /\ ToSet(<<m>>) = {m} /\ Len(<<m>>) = 1
<1>1. /\ <<>> \in Seq(Messages) /\ Len(<<>>) = 0
      /\ \A m \in Messages : <<m>> \in Seq(Messages) /\ Len(<<m>>) = 1
    BY EmptySeq
<1>2. DOMAIN <<>> = {} /\ \A m \in Messages : DOMAIN <<m>> = {1} /\ <<m>>[1] = m
    OBVIOUS
<1>3. QED
    BY <1>1, <1>2 DEF Distinct, IsInjective, ToSet

\* A message is added at the end.
LEMMA AppendDistinct ==
    ASSUME NEW s, Distinct(s), NEW m \in Messages, m \notin ToSet(s)
    PROVE  /\ Distinct(Append(s, m)) /\ ToSet(Append(s, m)) = ToSet(s) \cup {m}
           /\ Len(s) \in Nat /\ Len(Append(s, m)) = Len(s) + 1
<1>1. /\ s \in Seq(Messages) /\ Len(s) \in Nat /\ DOMAIN s = 1..Len(s)
    BY LenProperties DEF Distinct
<1> DEFINE t == Append(s, m)
<1>2. /\ t \in Seq(Messages) /\ Len(t) = Len(s) + 1
      /\ \A i \in 1..Len(s) : t[i] = s[i]
      /\ t[Len(s) + 1] = m
    BY <1>1, AppendProperties
<1> HIDE DEF t
<1>3. DOMAIN t = 1..(Len(s) + 1)
    BY <1>2, LenProperties
<1>4. DOMAIN t = DOMAIN s \cup {Len(s) + 1} /\ Len(s) + 1 \notin DOMAIN s
    BY <1>1, <1>3
<1>5. ToSet(t) = ToSet(s) \cup {m}
    BY <1>1, <1>2, <1>4 DEF ToSet
<1>6. IsInjective(t)
    <2> SUFFICES ASSUME NEW i \in DOMAIN t, NEW j \in DOMAIN t, t[i] = t[j] PROVE i = j
        BY DEF IsInjective
    <2>1. CASE i \in DOMAIN s /\ j \in DOMAIN s
        BY <1>1, <1>2, <2>1 DEF Distinct, IsInjective
    <2>2. \A k \in DOMAIN s : t[k] # m
        BY <1>1, <1>2 DEF ToSet
    <2>3. QED
        BY <1>2, <1>4, <2>1, <2>2
<1>7. QED
    BY <1>1, <1>2, <1>5, <1>6 DEF Distinct, t

\* A message is taken from the front.
LEMMA TailDistinct ==
    ASSUME NEW s, Distinct(s), s # <<>>
    PROVE  /\ Head(s) \in Messages /\ Head(s) \in ToSet(s)
           /\ Distinct(Tail(s)) /\ ToSet(Tail(s)) = ToSet(s) \ {Head(s)}
           /\ Len(Tail(s)) \in Nat /\ Len(Tail(s)) <= Len(s) /\ Len(s) \in Nat
<1>1. /\ s \in Seq(Messages) /\ Len(s) \in Nat \ {0} /\ DOMAIN s = 1..Len(s)
    BY LenProperties, EmptySeq DEF Distinct
<1> DEFINE t == Tail(s)
<1>2. /\ t \in Seq(Messages) /\ Len(t) = Len(s) - 1 /\ Head(s) = s[1] /\ Head(s) \in Messages
      /\ \A i \in 1..Len(t) : t[i] = s[i + 1]
    BY <1>1, HeadTailProperties
<1> HIDE DEF t
<1>3. DOMAIN t = 1..(Len(s) - 1)
    BY <1>2, LenProperties
<1>4. /\ \A i \in DOMAIN t : i + 1 \in DOMAIN s /\ t[i] = s[i + 1] /\ i + 1 # 1
      /\ \A i \in DOMAIN s : i # 1 => i - 1 \in DOMAIN t /\ t[i - 1] = s[i]
      /\ 1 \in DOMAIN s
    BY <1>1, <1>2, <1>3
<1>5. \A i \in DOMAIN s : s[i] = Head(s) => i = 1
    BY <1>2, <1>4 DEF Distinct, IsInjective
<1>6. ToSet(t) = ToSet(s) \ {Head(s)}
    <2>1. ASSUME NEW x \in ToSet(t) PROVE x \in ToSet(s) \ {Head(s)}
        BY <1>4, <1>5, <2>1 DEF ToSet
    <2>2. ASSUME NEW x \in ToSet(s) \ {Head(s)} PROVE x \in ToSet(t)
        <3>1. PICK i \in DOMAIN s : x = s[i]
            BY <2>2 DEF ToSet
        <3>2. i # 1
            BY <1>2, <2>2, <3>1
        <3>3. QED
            BY <1>4, <3>1, <3>2 DEF ToSet
    <2>3. QED
        BY <2>1, <2>2
<1>7. IsInjective(t)
    <2> SUFFICES ASSUME NEW i \in DOMAIN t, NEW j \in DOMAIN t, t[i] = t[j] PROVE i = j
        BY DEF IsInjective
    <2>1. s[i + 1] = s[j + 1] /\ i + 1 \in DOMAIN s /\ j + 1 \in DOMAIN s
        BY <1>4
    <2>2. i + 1 = j + 1
        BY <2>1 DEF Distinct, IsInjective
    <2>3. QED
        BY <1>3, <2>2
<1>8. Head(s) \in ToSet(s)
    BY <1>2, <1>4 DEF ToSet
<1>9. QED
    BY <1>1, <1>2, <1>6, <1>7, <1>8 DEF Distinct, t

\* Two sequences with no message in common are put together.
LEMMA ConcatDistinct ==
    ASSUME NEW s, NEW t, Distinct(s), Distinct(t), ToSet(s) \cap ToSet(t) = {}
    PROVE  /\ Distinct(s \o t) /\ ToSet(s \o t) = ToSet(s) \cup ToSet(t)
           /\ Len(s) \in Nat /\ Len(t) \in Nat /\ Len(s \o t) = Len(s) + Len(t)
<1>1. /\ s \in Seq(Messages) /\ Len(s) \in Nat /\ DOMAIN s = 1..Len(s)
      /\ t \in Seq(Messages) /\ Len(t) \in Nat /\ DOMAIN t = 1..Len(t)
    BY LenProperties DEF Distinct
<1> DEFINE r == s \o t
<1>2. /\ r \in Seq(Messages) /\ Len(r) = Len(s) + Len(t)
      /\ \A i \in 1..(Len(s) + Len(t)) : r[i] = IF i <= Len(s) THEN s[i] ELSE t[i - Len(s)]
    BY <1>1, ConcatProperties
<1> HIDE DEF r
<1>3. DOMAIN r = 1..(Len(s) + Len(t))
    BY <1>2, LenProperties
<1>4. ASSUME NEW i \in DOMAIN r
      PROVE  \/ i \in DOMAIN s /\ r[i] = s[i]
             \/ i - Len(s) \in DOMAIN t /\ r[i] = t[i - Len(s)]
    <2>1. CASE i <= Len(s)
        BY <1>1, <1>2, <1>3, <2>1
    <2>2. CASE i > Len(s)
        BY <1>1, <1>2, <1>3, <2>2
    <2>3. QED
        BY <1>1, <1>3, <2>1, <2>2
<1>5. ASSUME NEW i \in DOMAIN s PROVE i \in DOMAIN r /\ r[i] = s[i]
    BY <1>1, <1>2, <1>3
<1>6. ASSUME NEW i \in DOMAIN t PROVE i + Len(s) \in DOMAIN r /\ r[i + Len(s)] = t[i]
    <2>1. /\ i + Len(s) \in 1..(Len(s) + Len(t)) /\ ~(i + Len(s) <= Len(s))
          /\ (i + Len(s)) - Len(s) = i
        BY <1>1
    <2>2. QED
        BY <1>2, <1>3, <2>1
<1>7. ToSet(r) = ToSet(s) \cup ToSet(t)
    <2>1. ASSUME NEW x \in ToSet(r) PROVE x \in ToSet(s) \cup ToSet(t)
        <3>1. PICK i \in DOMAIN r : r[i] = x
            BY <2>1 DEF ToSet
        <3>2. QED
            BY <1>4, <3>1 DEF ToSet
    <2>2. ASSUME NEW x \in ToSet(s) PROVE x \in ToSet(r)
        BY <1>5, <2>2 DEF ToSet
    <2>3. ASSUME NEW x \in ToSet(t) PROVE x \in ToSet(r)
        BY <1>6, <2>3 DEF ToSet
    <2>4. QED
        BY <2>1, <2>2, <2>3
<1>8. IsInjective(r)
    <2> SUFFICES ASSUME NEW i \in DOMAIN r, NEW j \in DOMAIN r, r[i] = r[j] PROVE i = j
        BY DEF IsInjective
    <2>1. \A k \in DOMAIN s, l \in DOMAIN t : s[k] # t[l]
        BY DEF ToSet
    <2>2. CASE i \in DOMAIN s /\ r[i] = s[i] /\ j \in DOMAIN s /\ r[j] = s[j]
        BY <2>2 DEF Distinct, IsInjective
    <2>3. CASE /\ i - Len(s) \in DOMAIN t /\ r[i] = t[i - Len(s)]
               /\ j - Len(s) \in DOMAIN t /\ r[j] = t[j - Len(s)]
        <3>1. i - Len(s) = j - Len(s)
            BY <2>3 DEF Distinct, IsInjective
        <3>2. QED
            BY <1>1, <1>3, <3>1
    <2>4. CASE i \in DOMAIN s /\ r[i] = s[i] /\ j - Len(s) \in DOMAIN t /\ r[j] = t[j - Len(s)]
        BY <2>1, <2>4
    <2>5. CASE j \in DOMAIN s /\ r[j] = s[j] /\ i - Len(s) \in DOMAIN t /\ r[i] = t[i - Len(s)]
        BY <2>1, <2>5
    <2>6. QED
        BY <1>4, <2>2, <2>3, <2>4, <2>5
<1>9. QED
    BY <1>1, <1>2, <1>7, <1>8 DEF Distinct, r

(* The type invariant in two parts *)

SeqsOK ==
    /\ DOMAIN wire = Publishers
    /\ \A p \in Publishers : Distinct(wire[p])
    /\ Distinct(queue)
    /\ Distinct(buffer)
    /\ Len(buffer) <= Prefetch

ScalarsOK ==
    /\ handle \in [Publishers -> {"none", "open", "stale"}]
    /\ accepted \subseteq Messages
    /\ linked \in BOOLEAN
    /\ worker \in {"down", "listening", "handling", "dialed", "mailed"}
    /\ current \in Messages \cup {None}
    /\ ctx \in {"running", "draining", "late"}
    /\ term \in BOOLEAN
    /\ mailed \in [Messages -> Nat]
    /\ lost \subseteq accepted
    /\ faults \in 0..MaxFaults
    /\ worker \in {"down", "listening"} <=> current = None

\* The sequences apart from the rest.
LEMMA TypeParts == TypeOK <=> SeqsOK /\ ScalarsOK
<1>1. (\A s \in {wire[p] : p \in Publishers} \cup {queue, buffer} : Distinct(s))
        <=> (\A p \in Publishers : Distinct(wire[p])) /\ Distinct(queue) /\ Distinct(buffer)
    OBVIOUS
<1>2. QED
    BY <1>1 DEF TypeOK, SeqsOK, ScalarsOK, Distinct

\* What the worker has, in the order the broker puts it back.
LEMMA HeldOnce ==
    ASSUME SeqsOK, ScalarsOK, MessagesKept
    PROVE  /\ Distinct(InHand \o buffer) /\ ToSet(InHand \o buffer) = Held
           /\ Len(buffer) \in Nat /\ Len(InHand \o buffer) \in Nat
           /\ Len(buffer) <= Len(InHand \o buffer)
<1>1. Distinct(InHand) /\ ToSet(InHand) = {current} \ {None} /\ Len(InHand) \in Nat
    BY ShortSeqs, MailAssumption DEF InHand, ScalarsOK
<1>2. Distinct(buffer) /\ ToSet(InHand) \cap ToSet(buffer) = {}
    BY <1>1 DEF SeqsOK, MessagesKept
<1>3. /\ Distinct(InHand \o buffer) /\ ToSet(InHand \o buffer) = ToSet(InHand) \cup ToSet(buffer)
      /\ Len(buffer) \in Nat /\ Len(InHand \o buffer) = Len(InHand) + Len(buffer)
    BY <1>1, <1>2, ConcatDistinct
<1>4. QED
    BY <1>1, <1>3 DEF Held

\* The broker owes an answer for what the worker has over a live connection.
LEMMA UnackedIsHeld ==
    ASSUME SeqsOK, ScalarsOK, MessagesKept
    PROVE  /\ Distinct(Unacked) /\ ToSet(Unacked) = (IF linked THEN Held ELSE {})
           /\ linked => Len(Unacked) \in Nat /\ Len(buffer) <= Len(Unacked)
<1>1. CASE linked
    BY <1>1, HeldOnce DEF Unacked
<1>2. CASE ~linked
    BY <1>2, ShortSeqs DEF Unacked
<1>3. QED
    BY <1>1, <1>2 DEF ScalarsOK

\* What waits is somewhere, and the worker holds nothing over a dead connection that is not in
\* the queue as well.
LEMMA WaitingPlaces ==
    SeqsOK /\ ScalarsOK /\ MessagesKept =>
        Waiting = OnTheWire(Publishers) \cup ToSet(queue) \cup Held
<1> SUFFICES ASSUME SeqsOK, ScalarsOK, MessagesKept
             PROVE  Waiting = OnTheWire(Publishers) \cup ToSet(queue) \cup Held
    OBVIOUS
<1>1. ToSet(Unacked) = IF linked THEN Held ELSE {}
    BY UnackedIsHeld
<1>2. ~linked => Held \subseteq ToSet(queue)
    BY DEF MessagesKept
<1>3. QED
    BY <1>1, <1>2 DEF Waiting, ScalarsOK

\* The same after a step.
LEMMA WaitingPlacesNext ==
    ASSUME SeqsOK', ScalarsOK', MessagesKept'
    PROVE  Waiting' = OnTheWire(Publishers)' \cup ToSet(queue') \cup Held'
<1>1. (SeqsOK /\ ScalarsOK /\ MessagesKept =>
        Waiting = OnTheWire(Publishers) \cup ToSet(queue) \cup Held)'
    BY WaitingPlaces, PTL
<1>2. QED
    BY <1>1

(* Every step, by the places of the messages *)

\* All but the counting.
Places == SeqsOK /\ ScalarsOK /\ MessagesKept /\ WorkerFollowsStages

\* A new message goes on a socket.
LEMMA PublishMoves ==
    ASSUME Places, NEW p \in Publishers, NEW m \in Messages, Publish(p, m)
    PROVE  /\ SeqsOK' /\ MessagesKept'
           /\ \A q \in Publishers :
                ToSet(wire'[q]) = IF q = p THEN ToSet(wire[p]) \cup {m} ELSE ToSet(wire[q])
<1> USE DEF Places
<1>1. \A q \in Publishers : m \notin ToSet(wire[q])
    BY DEF MessagesKept, Publish
<1>2. /\ DOMAIN wire' = Publishers
      /\ \A q \in Publishers : wire'[q] = IF q = p THEN Append(wire[p], m) ELSE wire[q]
    BY DEF Publish, SeqsOK
<1>3. Distinct(Append(wire[p], m)) /\ ToSet(Append(wire[p], m)) = ToSet(wire[p]) \cup {m}
    BY <1>1, AppendDistinct DEF SeqsOK
<1>4. SeqsOK'
    BY <1>2, <1>3 DEF SeqsOK, Publish, link
<1>5. \A q \in Publishers :
        ToSet(wire'[q]) = IF q = p THEN ToSet(wire[p]) \cup {m} ELSE ToSet(wire[q])
    BY <1>2, <1>3
<1>6. MessagesKept'
    <2>1. UNCHANGED <<queue, buffer, linked, current, lost>> /\ accepted' = accepted \cup {m}
        BY DEF Publish, link, proc, fate
    <2>2. Held' = Held /\ m \notin accepted /\ m \notin lost \cup ToSet(queue) \cup Held
        BY <2>1 DEF Held, Publish, MessagesKept, ScalarsOK
    <2>3. \A q \in Publishers : ToSet(wire'[q]) \subseteq accepted' \ (lost \cup ToSet(queue) \cup Held)
        BY <1>5, <2>1, <2>2 DEF MessagesKept
    <2>4. \A q \in Publishers, r \in Publishers : q # r => ToSet(wire'[q]) \cap ToSet(wire'[r]) = {}
        BY <1>1, <1>5 DEF MessagesKept
    <2>5. QED
        BY <2>1, <2>2, <2>3, <2>4 DEF MessagesKept
<1>7. QED
    BY <1>4, <1>5, <1>6

\* The broker takes a message from a socket into the queue.
LEMMA EnqueueMoves ==
    ASSUME Places, NEW p \in Publishers, Enqueue(p)
    PROVE  /\ SeqsOK' /\ MessagesKept'
           /\ \E m \in ToSet(wire[p]) :
                /\ ToSet(queue') = ToSet(queue) \cup {m}
                /\ \A q \in Publishers :
                    ToSet(wire'[q]) = IF q = p THEN ToSet(wire[p]) \ {m} ELSE ToSet(wire[q])
<1> USE DEF Places
<1> DEFINE m == Head(wire[p])
<1>1. /\ m \in Messages /\ m \in ToSet(wire[p])
      /\ Distinct(Tail(wire[p])) /\ ToSet(Tail(wire[p])) = ToSet(wire[p]) \ {m}
    BY TailDistinct DEF SeqsOK, Enqueue
<1>2. /\ DOMAIN wire' = Publishers
      /\ \A q \in Publishers : wire'[q] = IF q = p THEN Tail(wire[p]) ELSE wire[q]
      /\ queue' = Append(queue, m)
    BY DEF Enqueue, SeqsOK
<1> HIDE DEF m
<1>3. m \notin ToSet(queue)
    BY <1>1 DEF MessagesKept
<1>4. Distinct(queue') /\ ToSet(queue') = ToSet(queue) \cup {m}
    BY <1>1, <1>2, <1>3, AppendDistinct DEF SeqsOK
<1>5. SeqsOK'
    BY <1>1, <1>2, <1>4 DEF SeqsOK, Enqueue, link
<1>6. \A q \in Publishers :
        ToSet(wire'[q]) = IF q = p THEN ToSet(wire[p]) \ {m} ELSE ToSet(wire[q])
    BY <1>1, <1>2
<1>7. MessagesKept'
    <2>1. UNCHANGED <<accepted, buffer, linked, current, lost>>
        BY DEF Enqueue, api, link, proc, fate
    <2>2. Held' = Held /\ m \in accepted /\ m \notin lost \cup Held
        BY <1>1, <2>1 DEF Held, MessagesKept
    <2>3. \A q \in Publishers \ {p} : m \notin ToSet(wire[q])
        BY <1>1 DEF MessagesKept
    <2>4. \A q \in Publishers :
            ToSet(wire'[q]) \subseteq accepted \ (lost \cup ToSet(queue') \cup Held)
        BY <1>4, <1>6, <2>3 DEF MessagesKept
    <2>5. \A q \in Publishers, r \in Publishers : q # r => ToSet(wire'[q]) \cap ToSet(wire'[r]) = {}
        BY <1>6 DEF MessagesKept
    <2>6. QED
        BY <1>4, <2>1, <2>2, <2>4, <2>5 DEF MessagesKept
<1>8. QED
    BY <1>1, <1>4, <1>5, <1>6, <1>7

\* What is on the sockets of P is gone.
LEMMA LoseWireMoves ==
    ASSUME Places, NEW P \in SUBSET Publishers, LoseWire(P)
    PROVE  /\ DOMAIN wire' = Publishers
           /\ \A q \in Publishers : /\ Distinct(wire'[q])
                                    /\ ToSet(wire'[q]) = IF q \in P THEN {} ELSE ToSet(wire[q])
           /\ OnTheWire(P) \subseteq OnTheWire(Publishers)
           /\ OnTheWire(P) \subseteq accepted \ (lost \cup ToSet(queue) \cup Held)
           /\ lost' = lost \cup OnTheWire(P)
           /\ OnTheWire(Publishers)' = OnTheWire(Publishers) \ OnTheWire(P)
           /\ \A q \in Publishers \ P : ToSet(wire[q]) \cap OnTheWire(P) = {}
<1> USE DEF Places
<1>1. wire' = [p \in Publishers |-> IF p \in P THEN <<>> ELSE wire[p]] /\ lost' = lost \cup OnTheWire(P)
    BY DEF LoseWire
<1>2. DOMAIN wire' = Publishers /\ \A q \in Publishers : wire'[q] = IF q \in P THEN <<>> ELSE wire[q]
    BY <1>1
<1>3. \A q \in Publishers : /\ Distinct(wire'[q])
                            /\ ToSet(wire'[q]) = IF q \in P THEN {} ELSE ToSet(wire[q])
    BY <1>2, ShortSeqs DEF SeqsOK
<1>4. /\ OnTheWire(P) \subseteq OnTheWire(Publishers)
      /\ OnTheWire(P) \subseteq accepted \ (lost \cup ToSet(queue) \cup Held)
    BY DEF OnTheWire, MessagesKept
<1>5. \A q \in Publishers \ P : ToSet(wire[q]) \cap OnTheWire(P) = {}
    BY DEF OnTheWire, MessagesKept
<1>6. ASSUME NEW x PROVE x \in OnTheWire(Publishers)' <=> x \in OnTheWire(Publishers) \ OnTheWire(P)
    <2>1. x \in OnTheWire(Publishers)' <=> \E q \in Publishers : x \in ToSet(wire'[q])
        BY DEF OnTheWire
    <2>2. x \in OnTheWire(Publishers) <=> \E q \in Publishers : x \in ToSet(wire[q])
        BY DEF OnTheWire
    <2>3. x \in OnTheWire(P) <=> \E q \in P : x \in ToSet(wire[q])
        BY DEF OnTheWire
    <2>4. QED
        BY <1>3, <1>5, <2>1, <2>2, <2>3
<1>7. OnTheWire(Publishers)' = OnTheWire(Publishers) \ OnTheWire(P)
    BY <1>6
<1>8. QED
    BY <1>1, <1>2, <1>3, <1>4, <1>5, <1>7

\* A publisher's connection dies.
LEMMA DisconnectMoves ==
    ASSUME Places, NEW p \in Publishers, PublisherDisconnects(p)
    PROVE  SeqsOK' /\ MessagesKept'
<1> USE DEF Places
<1>1. /\ DOMAIN wire' = Publishers
      /\ \A q \in Publishers : /\ Distinct(wire'[q])
                               /\ ToSet(wire'[q]) = IF q \in {p} THEN {} ELSE ToSet(wire[q])
      /\ OnTheWire({p}) \subseteq accepted \ (lost \cup ToSet(queue) \cup Held)
      /\ lost' = lost \cup OnTheWire({p})
      /\ \A q \in Publishers \ {p} : ToSet(wire[q]) \cap OnTheWire({p}) = {}
    <2>1. {p} \in SUBSET Publishers /\ LoseWire({p})
        BY DEF PublisherDisconnects
    <2>2. QED
        BY <2>1, LoseWireMoves
<1>2. UNCHANGED <<accepted, queue, buffer, linked, current>>
    BY DEF PublisherDisconnects, link, proc
<1>3. SeqsOK'
    BY <1>1, <1>2 DEF SeqsOK
<1>4. MessagesKept'
    BY <1>1, <1>2 DEF MessagesKept, Held
<1>5. QED
    BY <1>3, <1>4

\* The broker delivers the next message.
LEMMA DeliverMoves ==
    ASSUME Places, Deliver
    PROVE  /\ SeqsOK' /\ MessagesKept'
           /\ \E m \in ToSet(queue) : /\ ToSet(queue') = ToSet(queue) \ {m}
                                      /\ ToSet(buffer') = ToSet(buffer) \cup {m}
<1> USE DEF Places
<1> DEFINE m == Head(queue)
<1>1. /\ m \in Messages /\ m \in ToSet(queue)
      /\ Distinct(Tail(queue)) /\ ToSet(Tail(queue)) = ToSet(queue) \ {m}
    BY TailDistinct DEF SeqsOK, Deliver
<1>2. queue' = Tail(queue) /\ buffer' = Append(buffer, m) /\ linked
    BY DEF Deliver
<1> HIDE DEF m
<1>3. m \notin Held
    BY <1>1, <1>2 DEF MessagesKept
<1>4. /\ Distinct(buffer') /\ ToSet(buffer') = ToSet(buffer) \cup {m}
      /\ Len(buffer) \in Nat /\ Len(buffer') = Len(buffer) + 1
    BY <1>1, <1>2, <1>3, AppendDistinct DEF SeqsOK, Held
<1>5. Len(Unacked) \in Nat /\ Len(buffer) <= Len(Unacked)
    BY <1>2, UnackedIsHeld
<1>6. Len(buffer') <= Prefetch
    BY <1>4, <1>5, MailAssumption DEF Deliver
<1>7. SeqsOK'
    BY <1>1, <1>2, <1>4, <1>6 DEF SeqsOK, Deliver
<1>8. MessagesKept'
    <2>1. UNCHANGED <<accepted, wire, linked, current, lost>>
        BY DEF Deliver, api, proc, fate
    <2>2. Held' = Held \cup {m}
        BY <1>4, <2>1 DEF Held
    <2>3. \A q \in Publishers : m \notin ToSet(wire[q])
        BY <1>1 DEF MessagesKept
    <2>4. ToSet(queue') \cup Held' = ToSet(queue) \cup Held /\ ToSet(queue') \cap Held' = {}
        BY <1>1, <1>2, <1>3, <2>2 DEF MessagesKept
    <2>5. current' \notin ToSet(buffer')
        BY <1>1, <1>3, <1>4, <2>1, MailAssumption DEF MessagesKept, Held
    <2>6. QED
        BY <1>2, <2>1, <2>4, <2>5 DEF MessagesKept
<1>9. QED
    BY <1>1, <1>2, <1>4, <1>7, <1>8

\* The worker takes the next delivery.
LEMMA TakeMoves ==
    ASSUME Places, Take
    PROVE  /\ SeqsOK' /\ MessagesKept' /\ current = None
           /\ current' \in ToSet(buffer) /\ current' \in Messages /\ Held' = Held
<1> USE DEF Places
<1>1. /\ Head(buffer) \in Messages /\ Head(buffer) \in ToSet(buffer)
      /\ Distinct(Tail(buffer)) /\ ToSet(Tail(buffer)) = ToSet(buffer) \ {Head(buffer)}
      /\ Len(Tail(buffer)) \in Nat /\ Len(Tail(buffer)) <= Len(buffer) /\ Len(buffer) \in Nat
    BY TailDistinct DEF SeqsOK, Take
<1>2. SeqsOK'
    BY <1>1, MailAssumption DEF SeqsOK, Take, broker
<1>3. current = None
    BY DEF Take, ScalarsOK
<1>4. Held' = Held
    BY <1>1, <1>3, MailAssumption DEF Held, Take
<1>5. MessagesKept'
    BY <1>1, <1>3, <1>4 DEF MessagesKept, Take, api, broker, fate
<1>6. QED
    BY <1>1, <1>2, <1>3, <1>4, <1>5 DEF Take

\* The worker's connection dies with everything in it; the broker has the deliveries again.
LEMMA RequeueMoves ==
    ASSUME Places, Requeue
    PROVE  Distinct(queue') /\ ToSet(queue') = ToSet(queue) \cup Held
<1> USE DEF Places
<1>1. Distinct(Unacked) /\ ToSet(Unacked) = (IF linked THEN Held ELSE {})
    BY UnackedIsHeld
<1>2. ToSet(Unacked) \cap ToSet(queue) = {} /\ (~linked => Held \subseteq ToSet(queue))
    BY <1>1 DEF MessagesKept
<1>3. Distinct(queue') /\ ToSet(queue') = ToSet(Unacked) \cup ToSet(queue)
    BY <1>1, <1>2, ConcatDistinct DEF SeqsOK, Requeue
<1>4. QED
    BY <1>1, <1>2, <1>3 DEF ScalarsOK

\* The worker is gone.
LEMMA VanishMoves ==
    ASSUME Places, Vanish
    PROVE  /\ SeqsOK' /\ MessagesKept'
           /\ Held' = {} /\ ToSet(queue') = ToSet(queue) \cup Held
<1> USE DEF Places
<1>1. Distinct(queue') /\ ToSet(queue') = ToSet(queue) \cup Held
    BY RequeueMoves DEF Vanish
<1>2. Distinct(buffer') /\ ToSet(buffer') = {} /\ Len(buffer') = 0
    BY ShortSeqs DEF Vanish
<1>3. SeqsOK'
    BY <1>1, <1>2, MailAssumption DEF SeqsOK, Vanish
<1>4. Held' = {}
    BY <1>2 DEF Held, Vanish
<1>5. MessagesKept'
    BY <1>1, <1>2, <1>4, MailAssumption DEF MessagesKept, Vanish, api, fate, ScalarsOK
<1>6. QED
    BY <1>1, <1>3, <1>4, <1>5

\* The broker restarts.
LEMMA RestartMoves ==
    ASSUME Places, BrokerRestart
    PROVE  /\ SeqsOK' /\ MessagesKept'
           /\ Held' = Held /\ ToSet(queue') = ToSet(queue) \cup Held
<1> USE DEF Places
<1>1. Distinct(queue') /\ ToSet(queue') = ToSet(queue) \cup Held
    BY RequeueMoves DEF BrokerRestart
<1>2. /\ DOMAIN wire' = Publishers
      /\ \A q \in Publishers : /\ Distinct(wire'[q])
                               /\ ToSet(wire'[q]) = IF q \in Publishers THEN {} ELSE ToSet(wire[q])
      /\ OnTheWire(Publishers) \subseteq accepted \ (lost \cup ToSet(queue) \cup Held)
      /\ lost' = lost \cup OnTheWire(Publishers)
    BY LoseWireMoves DEF BrokerRestart
<1>3. UNCHANGED <<accepted, buffer, current>> /\ linked' = FALSE
    BY DEF BrokerRestart, proc
<1>4. SeqsOK'
    BY <1>1, <1>2, <1>3 DEF SeqsOK
<1>5. Held' = Held
    BY <1>3 DEF Held
<1>6. MessagesKept'
    BY <1>1, <1>2, <1>3, <1>5 DEF MessagesKept
<1>7. QED
    BY <1>1, <1>4, <1>5, <1>6

\* A delivery leaves the worker, and the connection if that is alive; it may be counted as lost.
LEMMA DoneMoves ==
    ASSUME Places, Done, current # None,
           lost' = lost \/ (linked /\ lost' = lost \cup {current})
    PROVE  SeqsOK' /\ MessagesKept' /\ Held' = Held \ {current}
<1> USE DEF Places
<1>1. UNCHANGED <<accepted, wire, queue, buffer, linked>> /\ current' = None
    BY DEF Done, api, broker, link
<1>2. SeqsOK'
    BY <1>1 DEF SeqsOK
<1>3. Held' = Held \ {current}
    BY <1>1 DEF Held, MessagesKept
<1>4. current \in Held
    BY DEF Held
<1>5. MessagesKept'
    <2>1. \A p \in Publishers : ToSet(wire[p]) \subseteq accepted \ (lost' \cup ToSet(queue) \cup Held')
        BY <1>3, <1>4 DEF MessagesKept
    <2>2. ToSet(queue) \cup Held' \subseteq accepted \ lost'
        BY <1>3, <1>4 DEF MessagesKept
    <2>3. None \notin ToSet(buffer)
        BY MailAssumption DEF MessagesKept, Held, ScalarsOK
    <2>4. QED
        BY <1>1, <1>3, <2>1, <2>2, <2>3 DEF MessagesKept
<1>6. QED
    BY <1>2, <1>3, <1>5

(* The inductive invariant *)

\* Every step leaves the sequences and the places as they should be.
LEMMA MessagesStep ==
    ASSUME Places, [Next]_vars
    PROVE  SeqsOK' /\ MessagesKept'
<1>1. ASSUME NEW p \in Publishers, NEW m \in Messages, Publish(p, m) PROVE SeqsOK' /\ MessagesKept'
    BY <1>1, PublishMoves
<1>2. ASSUME NEW p \in Publishers, Enqueue(p) PROVE SeqsOK' /\ MessagesKept'
    BY <1>2, EnqueueMoves
<1>3. ASSUME NEW p \in Publishers, PublisherDisconnects(p) PROVE SeqsOK' /\ MessagesKept'
    BY <1>3, DisconnectMoves
<1>4. CASE Deliver
    BY <1>4, DeliverMoves
<1>5. CASE Take
    BY <1>5, TakeMoves
<1>6. CASE DropUnreadable \/ SendFails \/ QuitFails \/ Ack
    <2>1. /\ Done /\ current # None
          /\ lost' = lost \/ (linked /\ lost' = lost \cup {current})
        BY <1>6 DEF DropUnreadable, SendFails, QuitFails, Nack, Ack, fate, Places, ScalarsOK
    <2>2. QED
        BY <2>1, DoneMoves
<1>7. CASE Crash \/ GraceOver \/ Closed
    BY <1>7, VanishMoves DEF Crash, GraceOver, Closed
<1>8. CASE BrokerRestart
    BY <1>8, RestartMoves
<1>9. CASE Start
    <2>1. UNCHANGED <<accepted, wire, queue, buffer, current, lost>> /\ buffer = <<>> /\ current = None
        BY <1>9 DEF Start, api, broker, fate, Places, WorkerFollowsStages, ScalarsOK
    <2>2. Held = {} /\ Held' = {}
        BY <2>1, ShortSeqs DEF Held
    <2>3. QED
        BY <2>1, <2>2 DEF Places, SeqsOK, MessagesKept
<1>10. CASE \/ \E p \in Publishers : PublishFails(p)
            \/ Drain \/ TimeoutPasses \/ Dial \/ SendOK \/ Terminate \/ UNCHANGED vars
    <2>1. UNCHANGED <<accepted, wire, queue, buffer, linked, current, lost>>
        BY <1>10 DEF PublishFails, Drain, TimeoutPasses, Dial, SendOK, Terminate, api, broker, link,
            proc, fate, vars
    <2>2. QED
        BY <2>1 DEF Places, SeqsOK, MessagesKept, Held
<1>11. QED
    BY <1>1, <1>2, <1>3, <1>4, <1>5, <1>6, <1>7, <1>8, <1>9, <1>10 DEF Next, Smtp

\* Every step keeps the types of the other variables.
LEMMA ScalarsStep ==
    ASSUME Places, [Next]_vars
    PROVE  ScalarsOK'
<1> USE MailAssumption DEF Places
<1>1. ASSUME NEW p \in Publishers, NEW m \in Messages, Publish(p, m) PROVE ScalarsOK'
    BY <1>1 DEF ScalarsOK, Publish, OpenChannel, link, proc, fate
<1>2. ASSUME NEW p \in Publishers, Enqueue(p) PROVE ScalarsOK'
    BY <1>2 DEF ScalarsOK, Enqueue, api, link, proc, fate
<1>3. ASSUME NEW P \in SUBSET Publishers, LoseWire(P), Fault, UNCHANGED <<accepted, proc, mailed>>,
             linked' = linked \/ linked' = FALSE
      PROVE ScalarsOK'
    <2>1. handle' \in [Publishers -> {"none", "open", "stale"}]
        BY <1>3 DEF LoseWire, ScalarsOK
    <2>2. lost' \subseteq accepted'
        BY <1>3, LoseWireMoves DEF ScalarsOK
    <2>3. faults' \in 0..MaxFaults
        BY <1>3 DEF Fault, ScalarsOK
    <2>4. linked' \in BOOLEAN
        BY <1>3 DEF ScalarsOK
    <2>5. QED
        BY <1>3, <2>1, <2>2, <2>3, <2>4 DEF ScalarsOK, proc
<1>4. ASSUME NEW p \in Publishers, PublisherDisconnects(p) PROVE ScalarsOK'
    <2>1. {p} \in SUBSET Publishers /\ linked' = linked
        BY <1>4 DEF PublisherDisconnects, link
    <2>2. QED
        BY <1>3, <1>4, <2>1 DEF PublisherDisconnects
<1>5. ASSUME NEW p \in Publishers, PublishFails(p) PROVE ScalarsOK'
    BY <1>5 DEF ScalarsOK, PublishFails, broker, link, proc, fate
<1>6. CASE Deliver
    BY <1>6 DEF ScalarsOK, Deliver, api, proc, fate
<1>7. CASE Start
    BY <1>7 DEF ScalarsOK, Start, api, broker, fate
<1>8. CASE Take
    <2>1. current' \in Messages
        BY <1>8, TakeMoves
    <2>2. QED
        BY <1>8, <2>1 DEF ScalarsOK, Take, api, broker, fate
<1>9. CASE Drain \/ TimeoutPasses \/ Dial
    BY <1>9 DEF ScalarsOK, Drain, TimeoutPasses, Dial, api, broker, link, fate
<1>10. CASE DropUnreadable \/ SendFails \/ QuitFails \/ Ack
    <2>1. Done /\ (lost' = lost \/ lost' = lost \cup {current}) /\ mailed' = mailed /\ current # None
        BY <1>10 DEF DropUnreadable, SendFails, QuitFails, Nack, Ack, fate, ScalarsOK
    <2>2. current \in accepted
        BY <2>1 DEF MessagesKept, Held
    <2>3. QED
        BY <2>1, <2>2 DEF ScalarsOK, Done, api, link
<1>11. CASE SendOK
    <2>1. current \in Messages
        BY <1>11 DEF SendOK, ScalarsOK
    <2>2. mailed' \in [Messages -> Nat]
        BY <1>11, <2>1 DEF SendOK, ScalarsOK
    <2>3. QED
        BY <1>11, <2>2 DEF ScalarsOK, SendOK, api, link
<1>12. CASE Crash
    <2>1. faults' \in 0..MaxFaults
        BY <1>12 DEF ScalarsOK, Crash, Fault
    <2>2. QED
        BY <1>12, <2>1 DEF ScalarsOK, Crash, Vanish, api, fate
<1>13. CASE GraceOver \/ Closed
    BY <1>13 DEF ScalarsOK, GraceOver, Closed, Vanish, api, fate
<1>14. CASE Terminate
    BY <1>14 DEF ScalarsOK, Terminate, Fault, api, link, fate
<1>15. CASE BrokerRestart
    BY <1>3, <1>15 DEF BrokerRestart
<1>16. CASE UNCHANGED vars
    BY <1>16 DEF ScalarsOK, vars, api, link, proc, fate
<1>17. QED
    BY <1>1, <1>2, <1>4, <1>5, <1>6, <1>7, <1>8, <1>9, <1>10, <1>11, <1>12, <1>13, <1>14, <1>15,
        <1>16 DEF Next, Smtp

\* Every step keeps what the stages of the worker imply.
LEMMA StagesStep ==
    ASSUME Places, [Next]_vars
    PROVE  WorkerFollowsStages'
<1> USE MailAssumption DEF Places
<1>1. CASE \/ \E p \in Publishers : PublishFails(p) \/ Enqueue(p) \/ PublisherDisconnects(p)
           \/ \E p \in Publishers, m \in Messages : Publish(p, m)
           \/ UNCHANGED vars
    <2>1. /\ UNCHANGED <<worker, buffer, linked, term, mailed, current>>
          /\ accepted \subseteq accepted'
          /\ faults' = faults \/ faults' = faults + 1
        BY <1>1 DEF PublishFails, Enqueue, PublisherDisconnects, Publish, LoseWire, Fault, vars, api,
            link, proc, fate
    <2>2. QED
        BY <2>1 DEF WorkerFollowsStages, ScalarsOK
<1>2. CASE Deliver
    BY <1>2 DEF WorkerFollowsStages, Deliver, api, proc, fate
<1>3. CASE Start \/ Take \/ Drain \/ TimeoutPasses \/ Dial
    BY <1>3 DEF WorkerFollowsStages, Start, Take, Drain, TimeoutPasses, Dial, api, broker, link, fate
<1>4. CASE DropUnreadable \/ SendFails \/ QuitFails \/ Ack
    BY <1>4 DEF WorkerFollowsStages, DropUnreadable, SendFails, QuitFails, Nack, Ack, Done, api, link,
        fate
<1>5. CASE SendOK
    <2>1. current \in Messages /\ current \in accepted
        BY <1>5 DEF SendOK, ScalarsOK, MessagesKept, Held
    <2>2. /\ mailed'[current] > 0
          /\ \A m \in Messages : m # current => mailed'[m] = mailed[m]
        BY <1>5, <2>1 DEF SendOK, ScalarsOK
    <2>3. UNCHANGED <<accepted, buffer, linked, current, term, faults>> /\ worker' = "mailed"
        BY <1>5 DEF SendOK, api, link
    <2>4. QED
        BY <2>1, <2>2, <2>3 DEF WorkerFollowsStages
<1>6. CASE Crash \/ GraceOver \/ Closed
    BY <1>6 DEF WorkerFollowsStages, Crash, GraceOver, Closed, Vanish, api, fate
<1>7. CASE Terminate
    BY <1>7 DEF WorkerFollowsStages, Terminate, Fault, api, link, fate, ScalarsOK
<1>8. CASE BrokerRestart
    BY <1>8 DEF WorkerFollowsStages, BrokerRestart, Fault, proc, ScalarsOK
<1>9. QED
    BY <1>1, <1>2, <1>3, <1>4, <1>5, <1>6, <1>7, <1>8 DEF Next, Smtp

(* Counting *)

\* The worker has mailed m and still holds it.
Sent(m) == current = m /\ worker = "mailed"

\* What Owed is, case by case.
OwedByCases ==
    \A m \in Messages :
        /\ m \notin Waiting => Owed(m) = 0
        /\ m \in Waiting /\ linked /\ Sent(m) /\ ~term => Owed(m) = 0
        /\ m \in Waiting /\ linked /\ Sent(m) /\ term => Owed(m) = 1
        /\ m \in Waiting /\ linked /\ ~Sent(m) /\ ~term => Owed(m) = 1
        /\ m \in Waiting /\ linked /\ ~Sent(m) /\ term => Owed(m) = 2
        /\ m \in Waiting /\ ~linked /\ m \in Held /\ ~Sent(m) => Owed(m) = 2
        /\ m \in Waiting /\ ~linked /\ ~(m \in Held /\ ~Sent(m)) => Owed(m) = 1

\* The cases are those of the definition.
LEMMA OwedCases == OwedByCases
<1> SUFFICES ASSUME NEW m \in Messages
             PROVE
        /\ m \notin Waiting => Owed(m) = 0
        /\ m \in Waiting /\ linked /\ Sent(m) /\ ~term => Owed(m) = 0
        /\ m \in Waiting /\ linked /\ Sent(m) /\ term => Owed(m) = 1
        /\ m \in Waiting /\ linked /\ ~Sent(m) /\ ~term => Owed(m) = 1
        /\ m \in Waiting /\ linked /\ ~Sent(m) /\ term => Owed(m) = 2
        /\ m \in Waiting /\ ~linked /\ m \in Held /\ ~Sent(m) => Owed(m) = 2
        /\ m \in Waiting /\ ~linked /\ ~(m \in Held /\ ~Sent(m)) => Owed(m) = 1
    BY DEF OwedByCases
<1>1. m \notin Waiting => Owed(m) = 0
    BY DEF Owed
<1>2. m \in Waiting /\ linked =>
        Owed(m) = (IF Sent(m) THEN 0 ELSE 1) + (IF term THEN 1 ELSE 0)
    BY DEF Owed, Sent
<1>3. m \in Waiting /\ ~linked =>
        Owed(m) = 1 + (IF m \in Held /\ ~Sent(m) THEN 1 ELSE 0)
    BY DEF Owed, Sent
<1>4. QED
    BY <1>1, <1>2, <1>3

\* The same after a step.
LEMMA OwedCasesNext ==
    \A m \in Messages :
        /\ m \notin Waiting' => Owed(m)' = 0
        /\ m \in Waiting' /\ linked' /\ Sent(m)' /\ ~term' => Owed(m)' = 0
        /\ m \in Waiting' /\ linked' /\ Sent(m)' /\ term' => Owed(m)' = 1
        /\ m \in Waiting' /\ linked' /\ ~Sent(m)' /\ ~term' => Owed(m)' = 1
        /\ m \in Waiting' /\ linked' /\ ~Sent(m)' /\ term' => Owed(m)' = 2
        /\ m \in Waiting' /\ ~linked' /\ m \in Held' /\ ~Sent(m)' => Owed(m)' = 2
        /\ m \in Waiting' /\ ~linked' /\ ~(m \in Held' /\ ~Sent(m)') => Owed(m)' = 1
<1>1. OwedByCases'
    BY OwedCases, PTL
<1>2. QED
    BY <1>1 DEF OwedByCases

\* Nothing new is owed for a message of which less is known to be undone.
LEMMA OwesNoMore ==
    ASSUME NEW m \in Messages,
           m \in Waiting' => m \in Waiting,
           linked' <=> linked,
           Sent(m) => Sent(m)',
           m \in Held' => m \in Held,
           term' => term
    PROVE  Owed(m)' \in 0..2 /\ Owed(m) \in 0..2 /\ Owed(m)' <= Owed(m)
<1>1. Owed(m) \in 0..2 /\ Owed(m)' \in 0..2
    BY OwedCases, OwedCasesNext DEF OwedByCases
<1>2. CASE m \notin Waiting'
    BY <1>1, <1>2, OwedCasesNext
<1>3. CASE m \in Waiting' /\ linked
    BY <1>1, <1>3, OwedCases, OwedCasesNext DEF OwedByCases
<1>4. CASE m \in Waiting' /\ ~linked
    BY <1>1, <1>4, OwedCases, OwedCasesNext DEF OwedByCases
<1>5. QED
    BY <1>1, <1>2, <1>3, <1>4

(* What waits, step by step *)

\* Publish adds its message.
LEMMA PublishWaits ==
    ASSUME Places, Places', NEW p \in Publishers, NEW m \in Messages, Publish(p, m)
    PROVE  Waiting' = Waiting \cup {m}
<1>1. /\ Waiting = OnTheWire(Publishers) \cup ToSet(queue) \cup Held
      /\ Waiting' = OnTheWire(Publishers)' \cup ToSet(queue') \cup Held'
    BY WaitingPlaces, WaitingPlacesNext DEF Places
<1>2. \A q \in Publishers :
        ToSet(wire'[q]) = IF q = p THEN ToSet(wire[p]) \cup {m} ELSE ToSet(wire[q])
    BY PublishMoves
<1>3. OnTheWire(Publishers)' = OnTheWire(Publishers) \cup {m}
    BY <1>2 DEF OnTheWire
<1>4. ToSet(queue') = ToSet(queue) /\ Held' = Held
    BY DEF Publish, Held, link, proc
<1>5. QED
    BY <1>1, <1>3, <1>4

\* A connection takes what is on it.
LEMMA LoseWireWaits ==
    ASSUME Places, Places', NEW P \in SUBSET Publishers, LoseWire(P),
           ToSet(queue') \cup Held' = ToSet(queue) \cup Held
    PROVE  /\ Waiting' = Waiting \ OnTheWire(P) /\ OnTheWire(P) \subseteq Waiting
           /\ lost' = lost \cup OnTheWire(P)
<1>1. /\ Waiting = OnTheWire(Publishers) \cup ToSet(queue) \cup Held
      /\ Waiting' = OnTheWire(Publishers)' \cup ToSet(queue') \cup Held'
    BY WaitingPlaces, WaitingPlacesNext DEF Places
<1>2. /\ OnTheWire(P) \subseteq OnTheWire(Publishers)
      /\ OnTheWire(P) \subseteq accepted \ (lost \cup ToSet(queue) \cup Held)
      /\ lost' = lost \cup OnTheWire(P)
      /\ OnTheWire(Publishers)' = OnTheWire(Publishers) \ OnTheWire(P)
    BY LoseWireMoves
<1>3. QED
    BY <1>1, <1>2

\* What the worker is done with leaves with a live connection, and stays in the queue with a
\* dead one.
LEMMA DoneWaits ==
    ASSUME Places, Places', Done, current # None
    PROVE  /\ Waiting' = (IF linked THEN Waiting \ {current} ELSE Waiting)
           /\ current \in Waiting
<1>1. /\ Waiting = OnTheWire(Publishers) \cup ToSet(queue) \cup Held
      /\ Waiting' = OnTheWire(Publishers)' \cup ToSet(queue') \cup Held'
    BY WaitingPlaces, WaitingPlacesNext DEF Places
<1>2. UNCHANGED <<accepted, wire, queue, buffer, linked>> /\ current' = None
    BY DEF Done, api, broker, link
<1>3. Held' = Held \ {current} /\ current \in Held
    BY <1>2 DEF Held, MessagesKept, Places
<1>4. ToSet(queue') = ToSet(queue) /\ OnTheWire(Publishers)' = OnTheWire(Publishers)
    BY <1>2 DEF OnTheWire
<1>5. current \notin OnTheWire(Publishers)
    BY <1>3 DEF OnTheWire, MessagesKept, Places
<1>6. /\ linked => current \notin ToSet(queue)
      /\ ~linked => current \in ToSet(queue)
    BY <1>3 DEF MessagesKept, Places
<1>7. QED
    BY <1>1, <1>3, <1>4, <1>5, <1>6 DEF Places, ScalarsOK

\* The steps of the broker and of the process itself move messages and lose none.
LEMMA OthersWait ==
    ASSUME Places, Places',
           \/ \E p \in Publishers : PublishFails(p) \/ Enqueue(p)
           \/ Deliver \/ Start \/ Take \/ Drain \/ TimeoutPasses \/ Dial \/ SendOK
           \/ Crash \/ Terminate \/ GraceOver \/ Closed \/ UNCHANGED vars
    PROVE  Waiting' = Waiting
<1>1. /\ Waiting = OnTheWire(Publishers) \cup ToSet(queue) \cup Held
      /\ Waiting' = OnTheWire(Publishers)' \cup ToSet(queue') \cup Held'
    BY WaitingPlaces, WaitingPlacesNext DEF Places
<1>2. ASSUME NEW p \in Publishers, Enqueue(p) PROVE Waiting' = Waiting
    <2>1. PICK m \in ToSet(wire[p]) :
            /\ ToSet(queue') = ToSet(queue) \cup {m}
            /\ \A q \in Publishers :
                ToSet(wire'[q]) = IF q = p THEN ToSet(wire[p]) \ {m} ELSE ToSet(wire[q])
        BY <1>2, EnqueueMoves
    <2>2. OnTheWire(Publishers)' \cup {m} = OnTheWire(Publishers) \cup {m} /\ m \in OnTheWire(Publishers)
        BY <2>1 DEF OnTheWire
    <2>3. Held' = Held
        BY <1>2 DEF Enqueue, Held, link, proc
    <2>4. QED
        BY <1>1, <2>1, <2>2, <2>3
<1>3. CASE Deliver
    <2>1. PICK m \in ToSet(queue) : /\ ToSet(queue') = ToSet(queue) \ {m}
                                    /\ ToSet(buffer') = ToSet(buffer) \cup {m}
        BY <1>3, DeliverMoves
    <2>2. OnTheWire(Publishers)' = OnTheWire(Publishers) /\ Held' = Held \cup {m}
        BY <1>3, <2>1 DEF OnTheWire, Deliver, Held, proc
    <2>3. QED
        BY <1>1, <2>1, <2>2
<1>4. CASE Take
    <2>1. Held' = Held /\ OnTheWire(Publishers)' = OnTheWire(Publishers) /\ queue' = queue
        BY <1>4, TakeMoves DEF Take, OnTheWire, broker
    <2>2. QED
        BY <1>1, <2>1
<1>5. CASE Crash \/ GraceOver \/ Closed
    <2>1. Held' = {} /\ ToSet(queue') = ToSet(queue) \cup Held
        BY <1>5, VanishMoves DEF Crash, GraceOver, Closed
    <2>2. OnTheWire(Publishers)' = OnTheWire(Publishers)
        BY <1>5 DEF OnTheWire, Crash, GraceOver, Closed, Vanish
    <2>3. QED
        BY <1>1, <2>1, <2>2
<1>6. CASE \/ \E p \in Publishers : PublishFails(p)
           \/ Start \/ Drain \/ TimeoutPasses \/ Dial \/ SendOK \/ Terminate \/ UNCHANGED vars
    <2>1. UNCHANGED <<wire, queue, buffer, current>>
        BY <1>6 DEF PublishFails, Start, Drain, TimeoutPasses, Dial, SendOK, Terminate, broker, link,
            proc, vars
    <2>2. QED
        BY <1>1, <2>1 DEF OnTheWire, Held
<1>7. QED
    BY <1>2, <1>3, <1>4, <1>5, <1>6

\* Every step keeps the count: a fault owes at most one more mail of a message, and the SMTP
\* server's answer pays for one.
LEMMA CountStep ==
    ASSUME Places, MailsCounted, [Next]_vars, Places'
    PROVE  MailsCounted'
<1> SUFFICES ASSUME NEW m \in Messages
             PROVE  mailed'[m] + Owed(m)' <= 1 + faults'
    BY DEF MailsCounted
<1>1. /\ mailed[m] \in Nat /\ mailed'[m] \in Nat /\ faults \in Nat /\ faults' \in Nat
      /\ Owed(m) \in 0..2 /\ Owed(m)' \in 0..2
      /\ mailed[m] + Owed(m) <= 1 + faults
    <2>1. Owed(m) \in 0..2 /\ Owed(m)' \in 0..2
        BY OwedCases, OwedCasesNext DEF OwedByCases, Places, ScalarsOK
    <2>2. mailed[m] + Owed(m) <= 1 + faults
        BY DEF MailsCounted
    <2>3. mailed[m] \in Nat /\ faults \in Nat
        BY DEF Places, ScalarsOK, MailAssumption
    <2>4. mailed'[m] \in Nat /\ faults' \in Nat
        BY DEF Places, ScalarsOK, MailAssumption
    <2>5. QED
        BY <2>1, <2>2, <2>3, <2>4
<1>2. ASSUME mailed' = mailed, Owed(m)' <= Owed(m), faults' = faults \/ faults' = faults + 1
      PROVE mailed'[m] + Owed(m)' <= 1 + faults'
    BY <1>1, <1>2
<1>3. ASSUME mailed' = mailed, Owed(m)' <= Owed(m) + 1, faults' = faults + 1
      PROVE mailed'[m] + Owed(m)' <= 1 + faults'
    BY <1>1, <1>3
<1>4. ASSUME NEW p \in Publishers, NEW n \in Messages, Publish(p, n)
      PROVE mailed'[m] + Owed(m)' <= 1 + faults'
    <2>1. UNCHANGED <<mailed, linked, worker, current, buffer, term, faults>>
        BY <1>4 DEF Publish, link, proc, fate
    <2>2. Waiting' = Waiting \cup {n}
        BY <1>4, PublishWaits
    <2>3. CASE m = n
        <3>1. m \notin accepted /\ mailed[m] = 0
            BY <1>1, <1>4, <2>3 DEF Publish, Places, WorkerFollowsStages
        <3>2. m \notin Held /\ Held' = Held /\ ~Sent(m)'
            BY <2>1, <3>1 DEF Places, MessagesKept, Held, Sent, ScalarsOK
        <3>3. (Owed(m)' = 1) \/ (Owed(m)' = 2 /\ term)
            BY <2>1, <2>2, <2>3, <3>2, OwedCasesNext DEF OwedByCases
        <3>4. term => faults > 0
            BY DEF Places, WorkerFollowsStages
        <3>5. QED
            BY <1>1, <2>1, <3>1, <3>3, <3>4
    <2>4. CASE m # n
        <3>1. Owed(m)' <= Owed(m)
            BY <2>1, <2>2, <2>4, OwesNoMore DEF Sent, Held
        <3>2. QED
            BY <1>2, <2>1, <3>1
    <2>5. QED
        BY <2>3, <2>4
<1>5. ASSUME NEW p \in Publishers, PublisherDisconnects(p)
      PROVE mailed'[m] + Owed(m)' <= 1 + faults'
    <2>1. UNCHANGED <<mailed, queue, linked, worker, current, buffer, term>> /\ faults' = faults + 1
        BY <1>5 DEF PublisherDisconnects, Fault, link, proc
    <2>2. {p} \in SUBSET Publishers /\ LoseWire({p}) /\ Held' = Held
        BY <1>5, <2>1 DEF PublisherDisconnects, Held
    <2>3. Waiting' = Waiting \ OnTheWire({p})
        BY <2>1, <2>2, LoseWireWaits
    <2>4. Owed(m)' <= Owed(m)
        BY <2>1, <2>2, <2>3, OwesNoMore DEF Sent
    <2>5. QED
        BY <1>2, <2>1, <2>4
<1>6. CASE \/ \E p \in Publishers : PublishFails(p) \/ Enqueue(p)
           \/ Drain \/ TimeoutPasses \/ Dial \/ UNCHANGED vars
    <2>1. /\ UNCHANGED <<mailed, linked, current, buffer, term, faults>>
          /\ worker = "mailed" => worker' = "mailed"
        BY <1>6 DEF PublishFails, Enqueue, Drain, TimeoutPasses, Dial, link, proc, fate, vars
    <2>2. Waiting' = Waiting
        BY <1>6, OthersWait
    <2>3. Owed(m)' <= Owed(m)
        BY <2>1, <2>2, OwesNoMore DEF Sent, Held
    <2>4. QED
        BY <1>2, <2>1, <2>3
<1>7. CASE Deliver
    <2>1. UNCHANGED <<mailed, linked, current, worker, term, faults>> /\ linked
        BY <1>7 DEF Deliver, proc, fate
    <2>2. Waiting' = Waiting
        BY <1>7, OthersWait
    <2>3. Sent(m)' <=> Sent(m)
        BY <2>1 DEF Sent
    <2>4. Owed(m)' = Owed(m)
        BY <2>1, <2>2, <2>3, OwedCases, OwedCasesNext DEF OwedByCases
    <2>5. QED
        BY <1>1, <1>2, <2>1, <2>4
<1>8. CASE Take
    <2>1. UNCHANGED <<mailed, linked, term, faults>> /\ worker = "listening"
        BY <1>8 DEF Take, fate
    <2>2. Waiting' = Waiting /\ Held' = Held
        BY <1>8, OthersWait, TakeMoves
    <2>3. ~Sent(m)
        BY <2>1 DEF Sent
    <2>4. Owed(m)' <= Owed(m)
        BY <2>1, <2>2, <2>3, OwesNoMore
    <2>5. QED
        BY <1>2, <2>1, <2>4
<1>9. CASE Start
    <2>1. /\ UNCHANGED <<mailed, term, current, faults>> /\ worker' = "listening" /\ linked'
          /\ ~term /\ ~linked /\ worker # "mailed"
        BY <1>9 DEF Start, fate, Places, WorkerFollowsStages
    <2>2. Waiting' = Waiting
        BY <1>9, OthersWait
    <2>3. ~Sent(m)' /\ ~Sent(m)
        BY <2>1 DEF Sent
    <2>4. Owed(m)' <= Owed(m)
        <3>1. CASE m \notin Waiting
            BY <2>2, <3>1, OwedCases, OwedCasesNext DEF OwedByCases
        <3>2. CASE m \in Waiting
            <4>1. Owed(m)' = 1
                BY <2>1, <2>2, <2>3, <3>2, OwedCasesNext DEF OwedByCases
            <4>2. Owed(m) = 1 \/ Owed(m) = 2
                BY <2>1, <2>3, <3>2, OwedCases DEF OwedByCases
            <4>3. QED
                BY <4>1, <4>2
        <3>3. QED
            BY <3>1, <3>2
    <2>5. QED
        BY <1>2, <2>1, <2>4
<1>10. CASE SendOK
    <2>1. /\ UNCHANGED <<linked, current, buffer, term, faults>> /\ worker = "dialed" /\ worker' = "mailed"
          /\ mailed' = [mailed EXCEPT ![current] = @ + 1]
        BY <1>10 DEF SendOK, link
    <2>2. Waiting' = Waiting /\ Held' = Held
        BY <1>10, <2>1, OthersWait DEF Held
    <2>3. CASE m # current
        <3>1. mailed'[m] = mailed[m]
            BY <2>1, <2>3 DEF Places, ScalarsOK
        <3>2. Owed(m)' <= Owed(m)
            BY <2>1, <2>2, <2>3, OwesNoMore DEF Sent
        <3>3. QED
            BY <1>1, <2>1, <3>1, <3>2
    <2>4. CASE m = current
        <3>1. mailed'[m] = mailed[m] + 1
            BY <2>1, <2>4 DEF Places, ScalarsOK
        <3>2. m \in Held /\ m \in Waiting
            BY <2>4, MailAssumption, WaitingPlaces DEF Held, Places
        <3>3. ~Sent(m) /\ Sent(m)'
            BY <2>1, <2>4 DEF Sent
        <3>4. Owed(m)' = Owed(m) - 1
            <4>1. CASE linked /\ term
                BY <2>1, <2>2, <3>2, <3>3, <4>1, OwedCases, OwedCasesNext DEF OwedByCases
            <4>2. CASE linked /\ ~term
                BY <2>1, <2>2, <3>2, <3>3, <4>2, OwedCases, OwedCasesNext DEF OwedByCases
            <4>3. CASE ~linked
                BY <2>1, <2>2, <3>2, <3>3, <4>3, OwedCases, OwedCasesNext DEF OwedByCases
            <4>4. QED
                BY <4>1, <4>2, <4>3
        <3>5. QED
            BY <1>1, <2>1, <3>1, <3>4
    <2>5. QED
        BY <2>3, <2>4
<1>11. CASE DropUnreadable \/ SendFails \/ QuitFails \/ Ack
    <2>1. /\ Done /\ current # None /\ UNCHANGED <<mailed, linked, term, buffer, faults>>
          /\ worker' = "listening"
        BY <1>11 DEF DropUnreadable, SendFails, QuitFails, Nack, Ack, Done, fate, link, Places,
            ScalarsOK
    <2>2. /\ Waiting' = (IF linked THEN Waiting \ {current} ELSE Waiting)
          /\ current \in Waiting /\ Held' \subseteq Held
        BY <2>1, DoneWaits DEF Held, Done
    <2>3. CASE m # current
        <3>1. Owed(m)' <= Owed(m)
            BY <2>1, <2>2, <2>3, OwesNoMore DEF Sent, Places, ScalarsOK
        <3>2. QED
            BY <1>2, <2>1, <3>1
    <2>4. CASE m = current /\ linked
        <3>1. Owed(m)' = 0
            BY <2>2, <2>4, OwedCasesNext DEF OwedByCases
        <3>2. QED
            BY <1>1, <1>2, <2>1, <3>1
    <2>5. CASE m = current /\ ~linked
        <3>1. m \notin Held' /\ m \in Waiting' /\ ~linked'
            BY <2>1, <2>2, <2>5, MailAssumption DEF Held, Places, MessagesKept, Done
        <3>2. Owed(m)' = 1
            BY <3>1, OwedCasesNext DEF OwedByCases
        <3>3. Owed(m) = 1 \/ Owed(m) = 2
            BY <2>2, <2>5, OwedCases DEF OwedByCases
        <3>4. QED
            BY <1>2, <2>1, <3>2, <3>3
    <2>6. QED
        BY <2>3, <2>4, <2>5
<1>12. CASE Crash \/ GraceOver \/ Closed
    <2>1. /\ mailed' = mailed /\ ~linked' /\ worker' = "down"
          /\ \/ faults' = faults + 1
             \/ faults' = faults /\ (term \/ ~linked)
        BY <1>12 DEF Crash, GraceOver, Closed, Vanish, Fault, fate
    <2>2. Waiting' = Waiting /\ Held' = {}
        BY <1>12, OthersWait, VanishMoves DEF Crash, GraceOver, Closed
    <2>3. CASE m \notin Waiting
        <3>1. Owed(m)' = 0
            BY <2>2, <2>3, OwedCasesNext DEF OwedByCases
        <3>2. QED
            BY <1>1, <1>2, <2>1, <3>1
    <2>4. CASE m \in Waiting
        <3>1. Owed(m)' = 1
            BY <2>1, <2>2, <2>4, OwedCasesNext DEF OwedByCases
        <3>2. term \/ ~linked => Owed(m) = 1 \/ Owed(m) = 2
            BY <2>4, OwedCases DEF OwedByCases
        <3>3. QED
            BY <1>1, <2>1, <3>1, <3>2
    <2>5. QED
        BY <2>3, <2>4
<1>13. CASE Terminate
    <2>1. /\ UNCHANGED <<mailed, wire, queue, linked, current, worker, buffer>> /\ faults' = faults + 1
          /\ term' /\ ~term
        BY <1>13 DEF Terminate, Fault, broker, link, fate
    <2>2. Waiting' = Waiting /\ Held' = Held
        BY <1>13, <2>1, OthersWait DEF Held
    <2>3. Sent(m)' <=> Sent(m)
        BY <2>1 DEF Sent
    <2>4. Owed(m)' = Owed(m) \/ Owed(m)' = Owed(m) + 1
        BY <2>1, <2>2, <2>3, OwedCases, OwedCasesNext DEF OwedByCases, Places, ScalarsOK
    <2>5. QED
        BY <1>1, <1>3, <2>1, <2>4
<1>14. CASE BrokerRestart
    <2>1. UNCHANGED <<mailed, current, worker, buffer, term>> /\ faults' = faults + 1 /\ ~linked'
        BY <1>14 DEF BrokerRestart, Fault, proc
    <2>2. Held' = Held /\ ToSet(queue') = ToSet(queue) \cup Held /\ LoseWire(Publishers)
        BY <1>14, RestartMoves DEF BrokerRestart
    <2>3. Waiting' = Waiting \ OnTheWire(Publishers)
        BY <2>2, LoseWireWaits
    <2>4. Sent(m)' <=> Sent(m)
        BY <2>1 DEF Sent
    <2>5. CASE m \notin Waiting'
        <3>1. Owed(m)' = 0
            BY <2>5, OwedCasesNext DEF OwedByCases
        <3>2. QED
            BY <1>1, <1>2, <2>1, <3>1
    <2>6. CASE m \in Waiting' /\ linked
        <3>1. CASE Sent(m)
            BY <1>1, <2>1, <2>3, <2>4, <2>6, <3>1, OwedCasesNext DEF OwedByCases
        <3>2. CASE ~Sent(m)
            <4>1. Owed(m) = 1 \/ Owed(m) = 2
                BY <2>3, <2>6, <3>2, OwedCases DEF OwedByCases
            <4>2. QED
                BY <1>1, <1>3, <2>1, <4>1
        <3>3. QED
            BY <3>1, <3>2
    <2>7. CASE m \in Waiting' /\ ~linked
        <3>1. Owed(m)' <= Owed(m)
            BY <2>1, <2>2, <2>3, <2>4, <2>7, OwesNoMore
        <3>2. QED
            BY <1>2, <2>1, <3>1
    <2>8. QED
        BY <2>5, <2>6, <2>7
<1>15. QED
    BY <1>4, <1>5, <1>6, <1>7, <1>8, <1>9, <1>10, <1>11, <1>12, <1>13, <1>14 DEF Next, Smtp

(* The theorems *)

\* The inductive invariant holds.
THEOREM Invariant == Spec => []IInv
<1>1. Init => IInv
    <2> SUFFICES ASSUME Init PROVE IInv
        OBVIOUS
    <2>1. SeqsOK /\ ScalarsOK
        <3>1. /\ DOMAIN wire = Publishers /\ \A p \in Publishers : wire[p] = <<>>
              /\ queue = <<>> /\ buffer = <<>>
            BY DEF Init
        <3>2. SeqsOK
            BY <3>1, ShortSeqs, MailAssumption DEF SeqsOK
        <3>3. ScalarsOK
            <4>1. /\ handle \in [Publishers -> {"none", "open", "stale"}]
                  /\ mailed \in [Messages -> Nat] /\ faults \in 0..MaxFaults
                BY MailAssumption DEF Init
            <4>2. QED
                BY <4>1 DEF Init, ScalarsOK
        <3>4. QED
            BY <3>2, <3>3
    <2>2. /\ Held = {} /\ ToSet(queue) = {} /\ ToSet(buffer) = {}
          /\ \A p \in Publishers : ToSet(wire[p]) = {}
        BY ShortSeqs DEF Init, Held
    <2>3. MessagesKept
        BY <2>2 DEF Init, MessagesKept
    <2>4. WorkerFollowsStages
        BY DEF Init, WorkerFollowsStages
    <2>5. Waiting = {}
        BY <2>1, <2>2, <2>3, WaitingPlaces DEF OnTheWire
    <2>6. MailsCounted
        BY <2>5, OwedCases DEF OwedByCases, Init, MailsCounted
    <2>7. QED
        BY <2>1, <2>3, <2>4, <2>6, TypeParts DEF IInv
<1>2. ASSUME IInv, [Next]_vars PROVE IInv'
    <2>1. Places /\ MailsCounted
        BY <1>2, TypeParts DEF IInv, Places
    <2>2. SeqsOK' /\ ScalarsOK' /\ MessagesKept' /\ WorkerFollowsStages'
        BY <1>2, <2>1, MessagesStep, ScalarsStep, StagesStep
    <2>3. Places'
        BY <2>2 DEF Places
    <2>4. MailsCounted'
        BY <1>2, <2>1, <2>3, CountStep
    <2>5. TypeOK'
        <3>1. (TypeOK <=> SeqsOK /\ ScalarsOK)'
            BY TypeParts, PTL
        <3>2. QED
            BY <2>2, <3>1
    <2>6. QED
        BY <2>2, <2>4, <2>5 DEF IInv
<1>3. QED
    BY <1>1, <1>2, PTL DEF Spec

\* The variables keep their types: the sequences repeat no message, and the buffer of the worker
\* never exceeds the prefetch limit.
THEOREM TypeCorrect == Spec => []TypeOK
<1>1. IInv => TypeOK
    BY DEF IInv
<1>2. QED
    BY <1>1, Invariant, PTL

\* A message is mailed at most once more than there were crashes, restarts, lost connections and
\* signals.
THEOREM DuplicatesLimited == Spec => []DuplicatesBounded
<1>1. ASSUME IInv, NEW m \in Messages PROVE mailed[m] <= 1 + faults
    <2>1. mailed[m] + Owed(m) <= 1 + faults
        BY <1>1 DEF IInv, MailsCounted
    <2>2. Owed(m) \in 0..2
        BY <1>1, OwedCases, TypeParts DEF OwedByCases, IInv, ScalarsOK
    <2>3. mailed[m] \in Nat /\ faults \in Nat
        BY <1>1, MailAssumption DEF IInv, TypeOK
    <2>4. QED
        BY <2>1, <2>2, <2>3
<1>2. IInv => DuplicatesBounded
    BY <1>1 DEF DuplicatesBounded
<1>3. QED
    BY <1>2, Invariant, PTL

\* Every step of the mail path is one of the channel, or none.
LEMMA ChannelStep ==
    ASSUME IInv, [Next]_vars, IInv'
    PROVE  [Channel!Next]_Channel!vars
<1> DEFINE Mailed == {m \in Messages : mailed[m] > 0}
<1>1. Places /\ Places'
    <2>1. (TypeOK <=> SeqsOK /\ ScalarsOK)'
        BY TypeParts, PTL
    <2>2. QED
        BY <2>1, TypeParts DEF IInv, Places
<1>2. ASSUME NEW p \in Publishers, NEW m \in Messages, Publish(p, m) PROVE Channel!Next
    <2>1. /\ Waiting' = Waiting \cup {m} /\ m \notin accepted /\ accepted' = accepted \cup {m}
          /\ lost' = lost /\ mailed' = mailed
        BY <1>1, <1>2, PublishWaits DEF Publish, fate
    <2>2. Mailed' = Mailed
        BY <2>1
    <2>3. Channel!Accept(m)
        BY <2>1, <2>2 DEF Channel!Accept
    <2>4. QED
        BY <2>3 DEF Channel!Next
<1>3. ASSUME NEW P \in SUBSET Publishers, LoseWire(P), UNCHANGED <<accepted, mailed>>,
             ToSet(queue') \cup Held' = ToSet(queue) \cup Held
      PROVE Channel!Next
    <2>1. /\ Waiting' = Waiting \ OnTheWire(P) /\ OnTheWire(P) \subseteq Waiting
          /\ lost' = lost \cup OnTheWire(P)
        BY <1>1, <1>3, LoseWireWaits
    <2>2. OnTheWire(P) \in SUBSET Messages
        BY <1>1, <1>3, LoseWireMoves DEF Places, ScalarsOK
    <2>3. Mailed' = Mailed
        BY <1>3
    <2>4. Channel!GiveUp(OnTheWire(P))
        BY <1>3, <2>1, <2>3 DEF Channel!GiveUp
    <2>5. QED
        BY <2>2, <2>4 DEF Channel!Next
<1>4. ASSUME NEW p \in Publishers, PublisherDisconnects(p) PROVE Channel!Next
    <2>1. {p} \in SUBSET Publishers /\ LoseWire({p}) /\ UNCHANGED <<accepted, mailed>>
        BY <1>4 DEF PublisherDisconnects
    <2>2. ToSet(queue') \cup Held' = ToSet(queue) \cup Held
        BY <1>4 DEF PublisherDisconnects, Held, link, proc
    <2>3. QED
        BY <1>3, <2>1, <2>2
<1>5. CASE BrokerRestart
    <2>1. LoseWire(Publishers) /\ UNCHANGED <<accepted, mailed>>
        BY <1>5 DEF BrokerRestart
    <2>2. ToSet(queue') \cup Held' = ToSet(queue) \cup Held
        BY <1>1, <1>5, RestartMoves
    <2>3. QED
        BY <1>3, <2>1, <2>2
<1>6. CASE SendOK
    <2>1. /\ UNCHANGED <<accepted, lost>> /\ mailed' = [mailed EXCEPT ![current] = @ + 1]
          /\ Waiting' = Waiting
        BY <1>1, <1>6, OthersWait DEF SendOK, api
    <2>2. current \in Messages /\ current \in Waiting
        BY <1>1, <1>6, WaitingPlaces DEF SendOK, Places, ScalarsOK, Held
    <2>3. /\ mailed'[current] = mailed[current] + 1 /\ mailed[current] \in Nat
          /\ \A m \in Messages \ {current} : mailed'[m] = mailed[m]
        BY <1>1, <2>1, <2>2 DEF Places, ScalarsOK
    <2>4. Mailed' = Mailed \cup {current}
        BY <2>2, <2>3
    <2>5. PICK m \in Messages : m = current
        BY <2>2
    <2>6. Channel!Send(m)
        BY <2>1, <2>2, <2>4, <2>5 DEF Channel!Send
    <2>7. QED
        BY <2>6 DEF Channel!Next
<1>7. CASE DropUnreadable \/ SendFails \/ QuitFails \/ Ack
    <2>1. Done /\ current # None /\ current \in Messages /\ UNCHANGED <<accepted, mailed>>
        BY <1>1, <1>7 DEF DropUnreadable, SendFails, QuitFails, Nack, Ack, Done, fate, api, Places,
            ScalarsOK
    <2>2. /\ Waiting' = (IF linked THEN Waiting \ {current} ELSE Waiting)
          /\ current \in Waiting
        BY <1>1, <2>1, DoneWaits
    <2>3. Mailed' = Mailed
        BY <2>1
    <2>4. CASE Ack /\ linked
        <3>1. current \in Mailed /\ lost' = lost
            BY <1>1, <2>1, <2>4 DEF Ack, fate, Places, WorkerFollowsStages
        <3>2. Channel!Settle(current)
            BY <2>1, <2>2, <2>3, <2>4, <3>1 DEF Channel!Settle
        <3>3. QED
            BY <2>1, <3>2 DEF Channel!Next
    <2>5. CASE ~Ack /\ linked
        <3>1. lost' = lost \cup {current}
            BY <1>7, <2>5 DEF DropUnreadable, SendFails, QuitFails, Nack
        <3>2. Channel!GiveUp({current}) /\ {current} \in SUBSET Messages
            BY <2>1, <2>2, <2>3, <2>5, <3>1 DEF Channel!GiveUp
        <3>3. QED
            BY <3>2 DEF Channel!Next
    <2>6. CASE ~linked
        <3>1. lost' = lost
            BY <1>7, <2>6 DEF DropUnreadable, SendFails, QuitFails, Nack, Ack, fate
        <3>2. QED
            BY <2>1, <2>2, <2>3, <2>6, <3>1 DEF Channel!vars
    <2>7. QED
        BY <2>4, <2>5, <2>6
<1>8. CASE \/ \E p \in Publishers : PublishFails(p) \/ Enqueue(p)
           \/ Deliver \/ Start \/ Take \/ Drain \/ TimeoutPasses \/ Dial
           \/ Crash \/ Terminate \/ GraceOver \/ Closed \/ UNCHANGED vars
    <2>1. Waiting' = Waiting
        BY <1>1, <1>8, OthersWait
    <2>2. UNCHANGED <<accepted, mailed, lost>>
        BY <1>8 DEF PublishFails, Enqueue, Deliver, Start, Take, Drain, TimeoutPasses, Dial, Crash,
            Terminate, GraceOver, Closed, Vanish, api, fate, vars
    <2>3. QED
        BY <2>1, <2>2 DEF Channel!vars
<1>9. QED
    BY <1>2, <1>4, <1>5, <1>6, <1>7, <1>8 DEF Next, Smtp

\* The queue, the connections and the worker implement the channel.
THEOREM Refinement == Spec => ImplementsMailChannel
<1> DEFINE Mailed == {m \in Messages : mailed[m] > 0}
<1>1. Init => Channel!Init
    <2> SUFFICES ASSUME Init PROVE Channel!Init
        OBVIOUS
    <2>1. OnTheWire(Publishers) = {} /\ ToSet(queue) = {} /\ ToSet(Unacked) = {}
        BY ShortSeqs DEF Init, OnTheWire, Unacked
    <2>2. Waiting = {}
        BY <2>1 DEF Waiting
    <2>3. Mailed = {}
        BY DEF Init
    <2>4. QED
        BY <2>2, <2>3 DEF Init, Channel!Init
<1>2. IInv /\ [Next]_vars /\ IInv' => [Channel!Next]_Channel!vars
    BY ChannelStep
<1>3. QED
    BY <1>1, <1>2, Invariant, PTL DEF Spec, ImplementsMailChannel, Channel!Spec

\* No accepted message is forgotten: it waits until it was mailed or is lost.
THEOREM NothingIsForgotten == Spec => []NothingForgotten
<1> DEFINE Mailed == {m \in Messages : mailed[m] > 0}
           Kept == accepted \subseteq Waiting \cup lost \cup Mailed
<1>1. Init => Kept
    BY DEF Init
<1>2. IInv /\ [Next]_vars /\ IInv' => (Kept => Kept')
    <2>1. [Channel!Next]_Channel!vars => (Kept => Kept')
        BY DEF Channel!Next, Channel!vars, Channel!Accept, Channel!Send, Channel!Settle, Channel!GiveUp
    <2>2. QED
        BY <2>1, ChannelStep
<1>3. IInv /\ Kept => NothingForgotten
    <2> SUFFICES ASSUME IInv, Kept PROVE NothingForgotten
        OBVIOUS
    <2>1. Waiting = OnTheWire(Publishers) \cup ToSet(queue) \cup Held /\ MessagesKept
        BY WaitingPlaces, TypeParts DEF IInv
    <2>2. lost \cap Waiting = {}
        BY <2>1 DEF MessagesKept, OnTheWire
    <2>3. QED
        BY <2>2 DEF NothingForgotten
<1> HIDE DEF Kept
<1>4. QED
    BY <1>1, <1>2, <1>3, Invariant, PTL DEF Spec

============================================================================
